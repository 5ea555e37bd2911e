------------------------ MODULE UploadTransferProofs ------------------------
(***************************************************************************)
(* Theorems about UploadTransfer, for every set of transfers, parts, part  *)
(* contents and names.                                                     *)
(*                                                                         *)
(* The properties are not inductive: a step is safe because of what the    *)
(* handler holding the transfer established before it.  IInv says, for     *)
(* each program counter, what that is; it speaks of one transfer at a      *)
(* time, and a step of one transfer leaves what it says of the others.     *)
(***************************************************************************)
EXTENDS UploadTransfer, TLAPS

\* A handler that may still read or write the part files holds the lock.
Holding == Step \ {"idle", "creating", "reaping"}

\* Part files: they match the manifest unless the reaper may have been there.
PartsInv(u) ==
    /\ Unfinished(u) /\ (~stale[u] \/ pc[u] \in Holding) => PartsVerified(u)
    /\ InState(u, "finalizing") => AllRecorded(u)
    /\ pc[u] = "reaping" => stale[u]

\* Handlers: what is known at each program counter.
HandlerInv(u) ==
    /\ ~dir[u] \/ pc[u] = "creating" => manifest[u] = None
    /\ pc[u] = "creating" => dir[u]
    /\ pc[u] \in {"receiving", "recording"} =>
          /\ InState(u, "active")
          /\ arg[u].part \in Part /\ arg[u].digest \in Data
          /\ manifest[u].parts[arg[u].part] = None
    /\ pc[u] = "recording" => partFile[u][arg[u].part] = arg[u].digest
    /\ pc[u] \in {"publishing", "cancelling"} => InState(u, "active")
    /\ pc[u] = "publishing" => AllRecorded(u)
    /\ pc[u] \in {"opening", "assembling", "sealing", "linking", "syncing", "marking",
                  "resetting", "reactivating", "recovering", "discarding", "reviving"} =>
          InState(u, "finalizing")
    /\ pc[u] \in {"sealing", "linking", "syncing"} =>
          stage[u] \in {partFile[u], None} /\ DigestAgrees(u, partFile[u])
    /\ pc[u] \in {"clearing", "unstaging"} => InState(u, "completed")
    /\ pc[u] = "emptying" => InState(u, "cancelled")
    /\ op[u] = "complete" /\ pc[u] = "reviving" => AllRecorded(u)

\* Replies: what clients were told agrees with the manifest.
ReplyInv(u) ==
    /\ pc[u] = "creating" => acked[u] = NoParts /\ ~done[u]
    /\ \A p \in Part : acked[u][p] # None =>
          /\ Unfinished(u) => manifest[u].parts[p] = acked[u][p]
          /\ InState(u, "completed") => manifest[u].final[p] = acked[u][p]
    /\ done[u] /\ manifest[u] # None => InState(u, "completed")

\* Publication: a link that still stands has its finalizing manifest.
LinkInv(u) ==
    /\ pc[u] = "creating" => ~linked[u]
    /\ linked[u] /\ manifest[u] # None =>
          /\ manifest[u].state \in {"finalizing", "completed"}
          /\ InState(u, "finalizing") =>
                /\ file[Target[u]] = manifest[u].parts
                /\ pc[u] \notin {"opening", "assembling", "sealing", "linking", "resetting",
                                 "reactivating", "discarding", "reviving"}

Good(u) == PartsInv(u) /\ HandlerInv(u) /\ ReplyInv(u) /\ LinkInv(u)

IInv == TypeOK /\ \A u \in Upload : Good(u)

\* Nothing that the invariants say about a transfer changed.
Same(v) ==
    /\ dir'[v] = dir[v] /\ manifest'[v] = manifest[v] /\ partFile'[v] = partFile[v]
    /\ stage'[v] \in {stage[v], None} /\ stale'[v] = stale[v]
    /\ pc'[v] = pc[v] /\ op'[v] = op[v] /\ arg'[v] = arg[v]
    /\ acked'[v] = acked[v] /\ done'[v] = done[v] /\ linked'[v] = linked[v]

-----------------------------------------------------------------------------
(* Lemmas *)

\* A step elsewhere leaves what is known of v, if the file under v's name stays
\* or v has no link there to lose.
LEMMA Frame ==
    ASSUME NEW v \in Upload, Same(v), Good(v),
           file'[Target[v]] = file[Target[v]] \/ ~(linked[v] /\ InState(v, "finalizing"))
    PROVE  Good(v)'
BY DEF Same, Good, PartsInv, HandlerInv, ReplyInv, LinkInv, Holding, Unfinished, InState,
       PartsVerified, AllRecorded, DigestAgrees

LEMMA InitInv == Init => IInv
BY NoneAssumption, TargetAssumption DEF Init, IInv, TypeOK, DiskOK, ProcessOK, HistoryOK, Step, Good, PartsInv, HandlerInv, ReplyInv, LinkInv, Unfinished, InState,
       NoParts, NoArg

\* However a handler moves on, only its own place changes.
LEMMA GotoMoves ==
    ASSUME ProcessOK, NEW u \in Upload, NEW s \in Step, Goto(u, s)
    PROVE  /\ ProcessOK'
           /\ pc'[u] = s /\ op' = op /\ arg' = arg
           /\ \A v \in Upload \ {u} : pc'[v] = pc[v] /\ op'[v] = op[v] /\ arg'[v] = arg[v]
BY DEF ProcessOK, Goto

LEMMA FinishMoves ==
    ASSUME ProcessOK, NEW u \in Upload, Finish(u)
    PROVE  /\ pc' \in [Upload -> Step]
           /\ op' \in [Upload -> {"none", "complete", "cancel", "recover", "reap"}]
           /\ arg' \in [Upload -> [part : Part \cup {None}, digest : Data \cup {None}]]
           /\ pc'[u] = "idle" /\ op'[u] = "none"
           /\ \A v \in Upload \ {u} : pc'[v] = pc[v] /\ op'[v] = op[v] /\ arg'[v] = arg[v]
<1>1. NoArg \in [part : Part \cup {None}, digest : Data \cup {None}]
  BY DEF NoArg
<1>2. "idle" \in Step
  BY DEF Step
<1>3. pc' \in [Upload -> Step] /\ op' \in [Upload -> {"none", "complete", "cancel", "recover", "reap"}]
  BY <1>2 DEF ProcessOK, Finish
<1>4. arg' \in [Upload -> [part : Part \cup {None}, digest : Data \cup {None}]]
  BY <1>1 DEF ProcessOK, Finish
<1> QED BY <1>3, <1>4 DEF ProcessOK, Finish

LEMMA ReturnMoves ==
    ASSUME ProcessOK, NEW u \in Upload, Return(u) \/ Fail(u) \/ Refuse(u)
    PROVE  /\ ProcessOK'
           /\ pc'[u] = "idle" /\ op'[u] = "none"
           /\ \A v \in Upload \ {u} : pc'[v] = pc[v] /\ op'[v] = op[v] /\ arg'[v] = arg[v]
<1>1. Finish(u)
  BY DEF Return, Fail, Refuse, Stop
<1>2. server' \in {"down", "recovering", "up", "refused"} /\ todo' \in SUBSET Upload
  BY DEF Return, Fail, Refuse, Stop, ProcessOK
<1> QED BY <1>1, <1>2, FinishMoves DEF ProcessOK

LEMMA NoPartsIs == NoParts \in [Part -> Data \cup {None}] /\ \A p \in Part : NoParts[p] = None
BY DEF NoParts

\* What a saved manifest holds, by the handler that saves it.
LEMMA RecordIs ==
    ASSUME NEW s \in {"active", "finalizing", "completed", "cancelled"},
           NEW ps \in [Part -> Data \cup {None}], NEW e \in Announced,
           NEW f \in Assembled \cup {None}
    PROVE  /\ Record(s, ps, e, f) \in Manifest
           /\ Record(s, ps, e, f) # None
           /\ Record(s, ps, e, f).state = s /\ Record(s, ps, e, f).parts = ps
           /\ Record(s, ps, e, f).expected = e /\ Record(s, ps, e, f).final = f
BY NoneAssumption DEF Record, Manifest

LEMMA ManifestIs ==
    ASSUME TypeOK, NEW u \in Upload, manifest[u] # None
    PROVE  /\ manifest[u] \in Manifest
           /\ manifest[u].state \in {"active", "finalizing", "completed", "cancelled"}
           /\ manifest[u].parts \in [Part -> Data \cup {None}]
           /\ manifest[u].expected \in Announced
           /\ manifest[u].final \in Assembled \cup {None}
BY DEF TypeOK, DiskOK, Manifest

LEMMA NewManifestIs ==
    ASSUME NEW e \in Announced
    PROVE  /\ NewManifest(e) \in Manifest /\ NewManifest(e) # None
           /\ NewManifest(e).state = "active" /\ NewManifest(e).parts = NoParts
BY NoPartsIs, RecordIs DEF NewManifest

LEMMA WithPartIs ==
    ASSUME TypeOK, NEW u \in Upload, manifest[u] # None,
           arg[u].part \in Part, arg[u].digest \in Data
    PROVE  /\ WithPart(u) \in Manifest /\ WithPart(u) # None
           /\ WithPart(u).state = "active"
           /\ WithPart(u).expected = manifest[u].expected
           /\ \A p \in Part : WithPart(u).parts[p] =
                 IF p = arg[u].part THEN arg[u].digest ELSE manifest[u].parts[p]
<1>1. [manifest[u].parts EXCEPT ![arg[u].part] = arg[u].digest] \in [Part -> Data \cup {None}]
  BY ManifestIs
<1>2. WithPart(u).parts = [manifest[u].parts EXCEPT ![arg[u].part] = arg[u].digest]
  BY <1>1, ManifestIs, RecordIs DEF WithPart
<1>3. \A p \in Part : WithPart(u).parts[p] =
         IF p = arg[u].part THEN arg[u].digest ELSE manifest[u].parts[p]
  BY <1>2, ManifestIs
<1> QED BY <1>1, <1>3, ManifestIs, RecordIs DEF WithPart

LEMMA FinalizingIs ==
    ASSUME TypeOK, NEW u \in Upload, manifest[u] # None
    PROVE  /\ Finalizing(u) \in Manifest /\ Finalizing(u) # None
           /\ Finalizing(u).state = "finalizing" /\ Finalizing(u).parts = manifest[u].parts
           /\ Finalizing(u).expected = manifest[u].expected
BY ManifestIs, RecordIs DEF Finalizing

LEMMA SealedIs ==
    ASSUME TypeOK, NEW u \in Upload, manifest[u] # None, partFile[u] \in Assembled
    PROVE  /\ Sealed(u) \in Manifest /\ Sealed(u) # None
           /\ Sealed(u).state = "finalizing" /\ Sealed(u).parts = manifest[u].parts
           /\ Sealed(u).expected = manifest[u].expected
BY ManifestIs, RecordIs DEF Sealed

LEMMA ReactivatedIs ==
    ASSUME TypeOK, NEW u \in Upload, manifest[u] # None
    PROVE  /\ Reactivated(u) \in Manifest /\ Reactivated(u) # None
           /\ Reactivated(u).state = "active" /\ Reactivated(u).parts = manifest[u].parts
           /\ Reactivated(u).expected = manifest[u].expected
BY ManifestIs, RecordIs DEF Reactivated

LEMMA CompletedIs ==
    ASSUME TypeOK, NEW u \in Upload, manifest[u] # None, partFile[u] \in Assembled
    PROVE  /\ Completed(u) \in Manifest /\ Completed(u) # None
           /\ Completed(u).state = "completed" /\ Completed(u).final = partFile[u]
           /\ Completed(u).expected = manifest[u].expected
BY NoPartsIs, ManifestIs, RecordIs DEF Completed

LEMMA CancelledIs ==
    ASSUME TypeOK, NEW u \in Upload, manifest[u] # None
    PROVE  /\ Cancelled(u) \in Manifest /\ Cancelled(u) # None
           /\ Cancelled(u).state = "cancelled" /\ Cancelled(u).parts = manifest[u].parts
           /\ Cancelled(u).expected = manifest[u].expected
BY ManifestIs, RecordIs DEF Cancelled

\* Recorded parts that are verified and all there make a whole file.
LEMMA WholeFile ==
    ASSUME TypeOK, NEW u \in Upload, manifest[u] # None, AllRecorded(u), PartsVerified(u)
    PROVE  partFile[u] = manifest[u].parts /\ partFile[u] \in Assembled /\ partFile[u] # None
<1>1. \A p \in Part : partFile[u][p] = manifest[u].parts[p] /\ partFile[u][p] \in Data
  BY ManifestIs, NoneAssumption DEF TypeOK, DiskOK, AllRecorded, PartsVerified
<1>2. partFile[u] \in [Part -> Data \cup {None}] /\ manifest[u].parts \in [Part -> Data \cup {None}]
  BY ManifestIs DEF TypeOK, DiskOK
<1> QED BY <1>1, <1>2, NoneAssumption DEF Assembled, Content

\* A link that still stands occupies its name.
LEMMA LinkedIsThere ==
    ASSUME IInv, NEW v \in Upload, linked[v], InState(v, "finalizing")
    PROVE  file[Target[v]] # None
<1>1. file[Target[v]] = manifest[v].parts /\ AllRecorded(v) /\ manifest[v] # None
  BY DEF IInv, Good, PartsInv, LinkInv, InState
<1>2. manifest[v].parts \in [Part -> Data \cup {None}]
  BY <1>1, ManifestIs DEF IInv
<1>3. manifest[v].parts \in Assembled
  BY <1>1, <1>2 DEF AllRecorded, Assembled
<1> QED BY <1>1, <1>3, NoneAssumption DEF Content

LEMMA CreateBeginStep ==
    ASSUME IInv, NEW u \in Upload, CreateBegin(u) PROVE IInv'
<1>1. /\ ProcessOK'
      /\ \A v \in Upload \ {u} : pc'[v] = pc[v] /\ op'[v] = op[v] /\ arg'[v] = arg[v]
  BY GotoMoves DEF IInv, TypeOK, CreateBegin, Step
<1>2. DiskOK'
  BY NoPartsIs DEF IInv, TypeOK, DiskOK, CreateBegin
<1>3. HistoryOK'
  BY NoPartsIs DEF IInv, TypeOK, HistoryOK, CreateBegin
<1>4. \A v \in Upload \ {u} : Same(v) /\ file'[Target[v]] = file[Target[v]]
  BY <1>1 DEF IInv, TypeOK, DiskOK, HistoryOK, Same, CreateBegin
<1>5. Good(u)'
  BY GotoMoves, NoPartsIs, NoneAssumption DEF IInv, TypeOK, DiskOK, ProcessOK, HistoryOK,
         CreateBegin, ScanClean, Step, Good, PartsInv, HandlerInv, ReplyInv, LinkInv,
         Holding, Unfinished, InState, PartsVerified, AllRecorded, DigestAgrees
<1> QED BY <1>1, <1>2, <1>3, <1>4, <1>5, Frame DEF IInv, TypeOK

LEMMA CreateSaveStep ==
    ASSUME IInv, NEW u \in Upload, CreateSave(u) PROVE IInv'
<1>c. \A e \in Announced : /\ NewManifest(e) \in Manifest /\ NewManifest(e) # None
                            /\ NewManifest(e).state = "active"
                            /\ \A p \in Part : NewManifest(e).parts[p] = None
  BY NewManifestIs, NoPartsIs
<1>1. /\ ProcessOK'
      /\ \A v \in Upload \ {u} : pc'[v] = pc[v] /\ op'[v] = op[v] /\ arg'[v] = arg[v]
  BY ReturnMoves DEF IInv, TypeOK, CreateSave, Step
<1>2. DiskOK'
  BY <1>c, NoPartsIs DEF IInv, TypeOK, DiskOK, CreateSave, Saved, Refreshed
<1>3. HistoryOK'
  BY DEF IInv, TypeOK, HistoryOK, CreateSave, history
<1>4. \A v \in Upload \ {u} : Same(v) /\ file'[Target[v]] = file[Target[v]]
  BY <1>1 DEF IInv, TypeOK, DiskOK, HistoryOK, Same, CreateSave, Saved, Refreshed, history
<1>5. Good(u)'
  <2>1. PartsInv(u)'
    BY <1>c, ReturnMoves, NoPartsIs, NoneAssumption DEF IInv, TypeOK, DiskOK, ProcessOK,
           HistoryOK, CreateSave, Saved, Refreshed, history, Step, Good, PartsInv,
           HandlerInv, Holding, Unfinished, InState, PartsVerified, AllRecorded
  <2>2. HandlerInv(u)'
    BY <1>c, ReturnMoves, NoPartsIs, NoneAssumption DEF IInv, TypeOK, DiskOK, ProcessOK,
           HistoryOK, CreateSave, Saved, Refreshed, history, Step, Good, PartsInv,
           HandlerInv, Unfinished, InState, AllRecorded, DigestAgrees, Holding
  <2>3. ReplyInv(u)'
    BY <1>c, ReturnMoves, NoPartsIs, NoneAssumption DEF IInv, TypeOK, DiskOK, ProcessOK,
           HistoryOK, CreateSave, Saved, Refreshed, history, Step, Good, PartsInv,
           HandlerInv, ReplyInv, Unfinished, InState, Holding
  <2>4. LinkInv(u)'
    BY <1>c, ReturnMoves, NoPartsIs, NoneAssumption DEF IInv, TypeOK, DiskOK, ProcessOK,
           HistoryOK, CreateSave, Saved, Refreshed, history, Step, Good, PartsInv,
           HandlerInv, LinkInv, InState, Holding, Unfinished
  <2> QED BY <2>1, <2>2, <2>3, <2>4 DEF Good
<1> QED BY <1>1, <1>2, <1>3, <1>4, <1>5, Frame DEF IInv, TypeOK

LEMMA CreateFailStep ==
    ASSUME IInv, NEW u \in Upload, CreateFail(u) PROVE IInv'
<1>c. \A e \in Announced : /\ NewManifest(e) \in Manifest /\ NewManifest(e) # None
                            /\ NewManifest(e).state = "active"
                            /\ \A p \in Part : NewManifest(e).parts[p] = None
  BY NewManifestIs, NoPartsIs
<1>1. /\ ProcessOK'
      /\ \A v \in Upload \ {u} : pc'[v] = pc[v] /\ op'[v] = op[v] /\ arg'[v] = arg[v]
  BY ReturnMoves DEF IInv, TypeOK, CreateFail, Step
<1>2. DiskOK'
  BY <1>c, NoPartsIs DEF IInv, TypeOK, DiskOK, CreateFail, SaveFailed, Saved, Refreshed
<1>3. HistoryOK'
  BY DEF IInv, TypeOK, HistoryOK, CreateFail, history
<1>4. \A v \in Upload \ {u} : Same(v) /\ file'[Target[v]] = file[Target[v]]
  BY <1>1 DEF IInv, TypeOK, DiskOK, HistoryOK, Same, CreateFail, SaveFailed, Saved,
         Refreshed, history
<1>5. Good(u)'
  <2>1. PartsInv(u)'
    BY <1>c, ReturnMoves, NoPartsIs, NoneAssumption DEF IInv, TypeOK, DiskOK, ProcessOK,
           HistoryOK, CreateFail, SaveFailed, Saved, Refreshed, history, Step, Good,
           PartsInv, HandlerInv, Holding, Unfinished, InState, PartsVerified, AllRecorded
  <2>2. HandlerInv(u)'
    BY <1>c, ReturnMoves, NoPartsIs, NoneAssumption DEF IInv, TypeOK, DiskOK, ProcessOK,
           HistoryOK, CreateFail, SaveFailed, Saved, Refreshed, history, Step, Good,
           PartsInv, HandlerInv, Unfinished, InState, AllRecorded, DigestAgrees, Holding
  <2>3. ReplyInv(u)'
    BY <1>c, ReturnMoves, NoPartsIs, NoneAssumption DEF IInv, TypeOK, DiskOK, ProcessOK,
           HistoryOK, CreateFail, SaveFailed, Saved, Refreshed, history, Step, Good,
           PartsInv, HandlerInv, ReplyInv, Unfinished, InState, Holding
  <2>4. LinkInv(u)'
    BY <1>c, ReturnMoves, NoPartsIs, NoneAssumption DEF IInv, TypeOK, DiskOK, ProcessOK,
           HistoryOK, CreateFail, SaveFailed, Saved, Refreshed, history, Step, Good,
           PartsInv, HandlerInv, LinkInv, InState, Holding, Unfinished
  <2> QED BY <2>1, <2>2, <2>3, <2>4 DEF Good
<1> QED BY <1>1, <1>2, <1>3, <1>4, <1>5, Frame DEF IInv, TypeOK

LEMMA PartRepeatedStep ==
    ASSUME IInv, NEW u \in Upload, NEW p \in Part, PartRepeated(u, p) PROVE IInv'
<1>1. /\ ProcessOK'
      /\ \A v \in Upload \ {u} : pc'[v] = pc[v] /\ op'[v] = op[v] /\ arg'[v] = arg[v]
  BY DEF IInv, TypeOK, ProcessOK, PartRepeated, durable, volatile, Step
<1>2. DiskOK'
  BY DEF IInv, TypeOK, DiskOK, PartRepeated, durable, volatile
<1>3. HistoryOK'
  BY ManifestIs DEF IInv, TypeOK, HistoryOK, PartRepeated, Acknowledge, Ready
<1>4. \A v \in Upload \ {u} : Same(v) /\ file'[Target[v]] = file[Target[v]]
  BY <1>1 DEF IInv, TypeOK, DiskOK, HistoryOK, Same, PartRepeated, Acknowledge, durable,
         volatile
<1>5. Good(u)'
  BY NoneAssumption DEF IInv, TypeOK, DiskOK, ProcessOK, HistoryOK, PartRepeated, Ready,
         Acknowledge, durable, volatile, Step, Good, PartsInv, HandlerInv, ReplyInv,
         LinkInv, Holding, Unfinished, InState, PartsVerified, AllRecorded, DigestAgrees
<1> QED BY <1>1, <1>2, <1>3, <1>4, <1>5, Frame DEF IInv, TypeOK

LEMMA PartBeginStep ==
    ASSUME IInv, NEW u \in Upload, NEW p \in Part, NEW d \in Data, PartBegin(u, p, d) PROVE IInv'
<1>1. /\ ProcessOK'
      /\ \A v \in Upload \ {u} : pc'[v] = pc[v] /\ op'[v] = op[v] /\ arg'[v] = arg[v]
  BY DEF IInv, TypeOK, ProcessOK, PartBegin, Step
<1>2. DiskOK'
  BY DEF IInv, TypeOK, DiskOK, PartBegin
<1>3. HistoryOK'
  BY DEF IInv, TypeOK, HistoryOK, PartBegin, history
<1>4. \A v \in Upload \ {u} : Same(v) /\ file'[Target[v]] = file[Target[v]]
  BY <1>1 DEF IInv, TypeOK, DiskOK, HistoryOK, Same, PartBegin, history
<1>5. Good(u)'
  BY NoneAssumption DEF IInv, TypeOK, DiskOK, ProcessOK, HistoryOK, PartBegin, Ready,
         history, Step, Good, PartsInv, HandlerInv, ReplyInv, LinkInv, Holding, Unfinished,
         InState, PartsVerified, AllRecorded, DigestAgrees
<1> QED BY <1>1, <1>2, <1>3, <1>4, <1>5, Frame DEF IInv, TypeOK

LEMMA PartReceiveStep ==
    ASSUME IInv, NEW u \in Upload, NEW body \in Data, PartReceive(u, body) PROVE IInv'
<1>1. /\ ProcessOK'
      /\ \A v \in Upload \ {u} : pc'[v] = pc[v] /\ op'[v] = op[v] /\ arg'[v] = arg[v]
  BY GotoMoves DEF IInv, TypeOK, PartReceive, Step
<1>2. DiskOK'
  BY NoneAssumption DEF IInv, TypeOK, DiskOK, PartReceive, ProcessOK, Good, HandlerInv
<1>3. HistoryOK'
  BY DEF IInv, TypeOK, HistoryOK, PartReceive, history
<1>4. \A v \in Upload \ {u} : Same(v) /\ file'[Target[v]] = file[Target[v]]
  BY <1>1 DEF IInv, TypeOK, DiskOK, HistoryOK, Same, PartReceive, history
<1>5. Good(u)'
  BY GotoMoves, NoneAssumption DEF IInv, TypeOK, DiskOK, ProcessOK, HistoryOK, PartReceive,
         history, Step, Good, PartsInv, HandlerInv, ReplyInv, LinkInv, Holding, Unfinished,
         InState, PartsVerified, AllRecorded, DigestAgrees
<1> QED BY <1>1, <1>2, <1>3, <1>4, <1>5, Frame DEF IInv, TypeOK

\* What a handler about to record a part knows.
LEMMA RecordingKnows ==
    ASSUME IInv, NEW u \in Upload, pc[u] = "recording"
    PROVE  /\ manifest[u] # None /\ manifest[u].state = "active"
           /\ arg[u].part \in Part /\ arg[u].digest \in Data
           /\ manifest[u].parts[arg[u].part] = None
           /\ partFile[u][arg[u].part] = arg[u].digest
           /\ \A p \in Part : manifest[u].parts[p] # None => partFile[u][p] = manifest[u].parts[p]
BY DEF IInv, Good, PartsInv, HandlerInv, InState, Unfinished, PartsVerified, Holding, Step

\* The manifest with the new part describes the part files.
LEMMA WithPartVerified ==
    ASSUME IInv, NEW u \in Upload, pc[u] = "recording"
    PROVE  \A p \in Part : WithPart(u).parts[p] # None => partFile[u][p] = WithPart(u).parts[p]
BY RecordingKnows, WithPartIs DEF IInv

LEMMA PartRecordStep ==
    ASSUME IInv, NEW u \in Upload, PartRecord(u) PROVE IInv'
<1>c. /\ WithPart(u) \in Manifest /\ WithPart(u) # None
       /\ WithPart(u).state = "active" /\ WithPart(u).expected = manifest[u].expected
       /\ \A p \in Part : WithPart(u).parts[p] =
             IF p = arg[u].part THEN arg[u].digest ELSE manifest[u].parts[p]
  BY WithPartIs DEF IInv, PartRecord, Good, HandlerInv, InState
<1>1. /\ ProcessOK'
      /\ \A v \in Upload \ {u} : pc'[v] = pc[v] /\ op'[v] = op[v] /\ arg'[v] = arg[v]
  BY ReturnMoves DEF IInv, TypeOK, PartRecord, Step
<1>2. DiskOK'
  BY <1>c DEF IInv, TypeOK, DiskOK, PartRecord, Saved, Refreshed
<1>3. HistoryOK'
  BY DEF IInv, TypeOK, HistoryOK, PartRecord, Acknowledge, Good, HandlerInv
<1>4. \A v \in Upload \ {u} : Same(v) /\ file'[Target[v]] = file[Target[v]]
  BY <1>1 DEF IInv, TypeOK, DiskOK, HistoryOK, Same, PartRecord, Saved, Refreshed,
         Acknowledge
<1>5. Good(u)'
  <2>0. /\ manifest'[u] = WithPart(u) /\ partFile'[u] = partFile[u] /\ dir'[u] = dir[u]
        /\ pc'[u] = "idle" /\ op'[u] = "none" /\ manifest[u] # None
    BY ReturnMoves, RecordingKnows DEF IInv, TypeOK, DiskOK, PartRecord, Saved
  <2>1. PartsInv(u)'
    BY <1>c, <2>0, WithPartVerified DEF PartRecord, PartsInv, Unfinished, InState, PartsVerified
  <2>2. HandlerInv(u)'
    BY <1>c, <2>0 DEF IInv, Good, HandlerInv
  <2>3. ReplyInv(u)'
    <3>1. \A p \in Part : acked'[u][p] = IF p = arg[u].part THEN arg[u].digest ELSE acked[u][p]
      BY RecordingKnows DEF IInv, TypeOK, HistoryOK, PartRecord, Acknowledge
    <3>2. done'[u] = done[u] /\ ~done[u]
      BY RecordingKnows DEF IInv, Good, ReplyInv, PartRecord, InState
    <3>3. \A p \in Part : acked'[u][p] # None => WithPart(u).parts[p] = acked'[u][p]
      BY <1>c, <3>1, RecordingKnows DEF IInv, Good, ReplyInv, Unfinished, PartRecord
    <3> QED BY <1>c, <2>0, <3>2, <3>3 DEF ReplyInv, Unfinished, InState
  <2>4. LinkInv(u)'
    BY <1>c, ReturnMoves, NoneAssumption DEF IInv, TypeOK, DiskOK, ProcessOK, HistoryOK,
           PartRecord, Saved, Refreshed, Acknowledge, Step, Good, PartsInv, HandlerInv,
           LinkInv, InState, Holding, Unfinished
  <2> QED BY <2>1, <2>2, <2>3, <2>4 DEF Good
<1> QED BY <1>1, <1>2, <1>3, <1>4, <1>5, Frame DEF IInv, TypeOK

LEMMA PartRecordFailStep ==
    ASSUME IInv, NEW u \in Upload, PartRecordFail(u) PROVE IInv'
<1>c. /\ WithPart(u) \in Manifest /\ WithPart(u) # None
       /\ WithPart(u).state = "active" /\ WithPart(u).expected = manifest[u].expected
       /\ \A p \in Part : WithPart(u).parts[p] =
             IF p = arg[u].part THEN arg[u].digest ELSE manifest[u].parts[p]
  BY WithPartIs DEF IInv, PartRecordFail, Good, HandlerInv, InState
<1>1. /\ ProcessOK'
      /\ \A v \in Upload \ {u} : pc'[v] = pc[v] /\ op'[v] = op[v] /\ arg'[v] = arg[v]
  BY ReturnMoves DEF IInv, TypeOK, PartRecordFail, Step
<1>2. DiskOK'
  BY <1>c DEF IInv, TypeOK, DiskOK, PartRecordFail, SaveFailed, Saved, Refreshed
<1>3. HistoryOK'
  BY DEF IInv, TypeOK, HistoryOK, PartRecordFail, history
<1>4. \A v \in Upload \ {u} : Same(v) /\ file'[Target[v]] = file[Target[v]]
  BY <1>1 DEF IInv, TypeOK, DiskOK, HistoryOK, Same, PartRecordFail, SaveFailed, Saved,
         Refreshed, history
<1>5. Good(u)'
  <2>0. /\ manifest'[u] = WithPart(u) \/ manifest'[u] = manifest[u]
        /\ partFile'[u] = partFile[u] /\ pc'[u] = "idle" /\ manifest[u] # None
        /\ manifest[u].state = "active"
    BY ReturnMoves, RecordingKnows DEF IInv, TypeOK, DiskOK, PartRecordFail, SaveFailed, Saved
  <2>1. PartsInv(u)'
    BY <1>c, <2>0, WithPartVerified, RecordingKnows
       DEF PartRecordFail, PartsInv, Unfinished, InState, PartsVerified
  <2>2. HandlerInv(u)'
    BY <1>c, ReturnMoves, NoneAssumption DEF IInv, TypeOK, DiskOK, ProcessOK, HistoryOK,
           PartRecordFail, SaveFailed, Saved, Refreshed, history, Step, Good, PartsInv,
           HandlerInv, Unfinished, InState, AllRecorded, DigestAgrees, Holding
  <2>3. ReplyInv(u)'
    BY <1>c, ReturnMoves, NoneAssumption DEF IInv, TypeOK, DiskOK, ProcessOK, HistoryOK,
           PartRecordFail, SaveFailed, Saved, Refreshed, history, Step, Good, PartsInv,
           HandlerInv, ReplyInv, Unfinished, InState, Holding
  <2>4. LinkInv(u)'
    BY <1>c, ReturnMoves, NoneAssumption DEF IInv, TypeOK, DiskOK, ProcessOK, HistoryOK,
           PartRecordFail, SaveFailed, Saved, Refreshed, history, Step, Good, PartsInv,
           HandlerInv, LinkInv, InState, Holding, Unfinished
  <2> QED BY <2>1, <2>2, <2>3, <2>4 DEF Good
<1> QED BY <1>1, <1>2, <1>3, <1>4, <1>5, Frame DEF IInv, TypeOK

LEMMA CompleteBeginStep ==
    ASSUME IInv, NEW u \in Upload, CompleteBegin(u) PROVE IInv'
<1>1. /\ ProcessOK'
      /\ \A v \in Upload \ {u} : pc'[v] = pc[v] /\ op'[v] = op[v] /\ arg'[v] = arg[v]
  BY DEF IInv, TypeOK, ProcessOK, CompleteBegin, Enter, durable, Step
<1>2. DiskOK'
  BY DEF IInv, TypeOK, DiskOK, CompleteBegin, Enter, durable
<1>3. HistoryOK'
  BY DEF IInv, TypeOK, HistoryOK, CompleteBegin, Enter, history
<1>4. \A v \in Upload \ {u} : Same(v) /\ file'[Target[v]] = file[Target[v]]
  BY <1>1 DEF IInv, TypeOK, DiskOK, HistoryOK, Same, CompleteBegin, Enter, durable, history
<1>5. Good(u)'
  BY NoneAssumption DEF IInv, TypeOK, DiskOK, ProcessOK, HistoryOK, CompleteBegin, Ready,
         Enter, durable, history, Step, Good, PartsInv, HandlerInv, ReplyInv, LinkInv,
         Holding, Unfinished, InState, PartsVerified, AllRecorded, DigestAgrees
<1> QED BY <1>1, <1>2, <1>3, <1>4, <1>5, Frame DEF IInv, TypeOK

LEMMA CompleteRepeatedStep ==
    ASSUME IInv, NEW u \in Upload, CompleteRepeated(u) PROVE IInv'
<1>1. /\ ProcessOK'
      /\ \A v \in Upload \ {u} : pc'[v] = pc[v] /\ op'[v] = op[v] /\ arg'[v] = arg[v]
  BY DEF IInv, TypeOK, ProcessOK, CompleteRepeated, durable, volatile, Step
<1>2. DiskOK'
  BY DEF IInv, TypeOK, DiskOK, CompleteRepeated, durable, volatile
<1>3. HistoryOK'
  BY DEF IInv, TypeOK, HistoryOK, CompleteRepeated
<1>4. \A v \in Upload \ {u} : Same(v) /\ file'[Target[v]] = file[Target[v]]
  BY <1>1 DEF IInv, TypeOK, DiskOK, HistoryOK, Same, CompleteRepeated, durable, volatile
<1>5. Good(u)'
  BY NoneAssumption DEF IInv, TypeOK, DiskOK, ProcessOK, HistoryOK, CompleteRepeated, Ready,
         durable, volatile, Step, Good, PartsInv, HandlerInv, ReplyInv, LinkInv, Holding,
         Unfinished, InState, PartsVerified, AllRecorded, DigestAgrees
<1> QED BY <1>1, <1>2, <1>3, <1>4, <1>5, Frame DEF IInv, TypeOK

LEMMA PublishBeginStep ==
    ASSUME IInv, NEW u \in Upload, PublishBegin(u) PROVE IInv'
<1>c. /\ Finalizing(u) \in Manifest /\ Finalizing(u) # None
       /\ Finalizing(u).state = "finalizing" /\ Finalizing(u).parts = manifest[u].parts
       /\ Finalizing(u).expected = manifest[u].expected
  BY FinalizingIs DEF IInv, PublishBegin, Good, HandlerInv, InState
<1>1. /\ ProcessOK'
      /\ \A v \in Upload \ {u} : pc'[v] = pc[v] /\ op'[v] = op[v] /\ arg'[v] = arg[v]
  BY GotoMoves, ReturnMoves DEF IInv, TypeOK, PublishBegin, Step
<1>2. DiskOK'
  BY <1>c DEF IInv, TypeOK, DiskOK, PublishBegin, Saved, Refreshed, SaveFailed
<1>3. HistoryOK'
  BY DEF IInv, TypeOK, HistoryOK, PublishBegin, history
<1>4. \A v \in Upload \ {u} : Same(v) /\ file'[Target[v]] = file[Target[v]]
  BY <1>1 DEF IInv, TypeOK, DiskOK, HistoryOK, Same, PublishBegin, Saved, Refreshed,
         SaveFailed, history
<1>5. Good(u)'
  <2>1. pc[u] = "publishing" /\ Good(u) /\ pc'[u] \in {"opening", "idle"} /\ op'[u] \in {op[u], "none"}
    BY GotoMoves, ReturnMoves DEF IInv, TypeOK, PublishBegin, Step
  <2>2. manifest'[u] \in {manifest[u], Finalizing(u)} /\ (pc'[u] = "opening" => manifest'[u] = Finalizing(u))
    BY DEF IInv, TypeOK, DiskOK, PublishBegin, Saved, SaveFailed, Refreshed, Goto, Fail, Stop, Finish, ProcessOK
  <2>3. stale'[u] \in {stale[u], FALSE}
    BY DEF IInv, TypeOK, DiskOK, PublishBegin, SaveFailed, Refreshed
  <2>4. UNCHANGED <<dir, partFile, stage, file, acked, done, linked>>
    BY DEF PublishBegin, history
  <2>5. PartsInv(u)' /\ HandlerInv(u)'
    BY <1>c, <2>1, <2>2, <2>3, <2>4, NoneAssumption DEF Good, PartsInv, HandlerInv, Holding, Step,
       Unfinished, InState, PartsVerified, AllRecorded, DigestAgrees
  <2>6. ReplyInv(u)' /\ LinkInv(u)'
    BY <1>c, <2>1, <2>2, <2>4, NoneAssumption DEF Good, HandlerInv, ReplyInv, LinkInv, Unfinished, InState
  <2> QED BY <2>5, <2>6 DEF Good
<1> QED BY <1>1, <1>2, <1>3, <1>4, <1>5, Frame DEF IInv, TypeOK

LEMMA OpenStageStep ==
    ASSUME IInv, NEW u \in Upload, OpenStage(u) PROVE IInv'
<1>1. /\ ProcessOK'
      /\ \A v \in Upload \ {u} : pc'[v] = pc[v] /\ op'[v] = op[v] /\ arg'[v] = arg[v]
  BY GotoMoves DEF IInv, TypeOK, OpenStage, Step
<1>2. DiskOK'
  BY DEF IInv, TypeOK, DiskOK, OpenStage
<1>3. HistoryOK'
  BY DEF IInv, TypeOK, HistoryOK, OpenStage, history
<1>4. \A v \in Upload \ {u} : Same(v) /\ file'[Target[v]] = file[Target[v]]
  BY <1>1 DEF IInv, TypeOK, DiskOK, HistoryOK, Same, OpenStage, history
<1>5. Good(u)'
  BY GotoMoves, NoneAssumption DEF IInv, TypeOK, DiskOK, ProcessOK, HistoryOK, OpenStage,
         history, Step, Good, PartsInv, HandlerInv, ReplyInv, LinkInv, Holding, Unfinished,
         InState, PartsVerified, AllRecorded, DigestAgrees
<1> QED BY <1>1, <1>2, <1>3, <1>4, <1>5, Frame DEF IInv, TypeOK

LEMMA AssembleStep ==
    ASSUME IInv, NEW u \in Upload, Assemble(u) PROVE IInv'
<1>a. manifest[u] # None /\ AllRecorded(u) /\ PartsVerified(u)
  BY DEF IInv, Assemble, Good, PartsInv, HandlerInv, Holding, Step, Unfinished, InState
<1>b. partFile[u] = manifest[u].parts /\ partFile[u] \in Assembled /\ partFile[u] # None
  BY <1>a, WholeFile DEF IInv
<1>1. /\ ProcessOK'
      /\ \A v \in Upload \ {u} : pc'[v] = pc[v] /\ op'[v] = op[v] /\ arg'[v] = arg[v]
  BY GotoMoves DEF IInv, TypeOK, Assemble, Step
<1>2. DiskOK'
  BY <1>a, <1>b DEF IInv, TypeOK, DiskOK, Assemble
<1>3. HistoryOK'
  BY DEF IInv, TypeOK, HistoryOK, Assemble, history
<1>4. \A v \in Upload \ {u} : Same(v) /\ file'[Target[v]] = file[Target[v]]
  BY <1>1 DEF IInv, TypeOK, DiskOK, HistoryOK, Same, Assemble, history
<1>5. Good(u)'
  BY <1>a, <1>b, GotoMoves, NoneAssumption DEF IInv, TypeOK, DiskOK, ProcessOK, HistoryOK,
         Assemble, history, Step, Good, PartsInv, HandlerInv, ReplyInv, LinkInv, Holding,
         Unfinished, InState, PartsVerified, AllRecorded, DigestAgrees
<1> QED BY <1>1, <1>2, <1>3, <1>4, <1>5, Frame DEF IInv, TypeOK

LEMMA SealStageStep ==
    ASSUME IInv, NEW u \in Upload, SealStage(u) PROVE IInv'
<1>a. manifest[u] # None /\ AllRecorded(u) /\ PartsVerified(u)
  BY DEF IInv, SealStage, Good, PartsInv, HandlerInv, Holding, Step, Unfinished, InState
<1>b. partFile[u] = manifest[u].parts /\ partFile[u] \in Assembled /\ partFile[u] # None
  BY <1>a, WholeFile DEF IInv
<1>c. /\ Sealed(u) \in Manifest /\ Sealed(u) # None
       /\ Sealed(u).state = "finalizing" /\ Sealed(u).parts = manifest[u].parts
       /\ Sealed(u).expected = manifest[u].expected
  BY <1>a, <1>b, SealedIs DEF IInv, SealStage, Good, HandlerInv, InState
<1>1. /\ ProcessOK'
      /\ \A v \in Upload \ {u} : pc'[v] = pc[v] /\ op'[v] = op[v] /\ arg'[v] = arg[v]
  BY GotoMoves DEF IInv, TypeOK, SealStage, Step
<1>2. DiskOK'
  BY <1>a, <1>b, <1>c DEF IInv, TypeOK, DiskOK, SealStage, Saved
<1>3. HistoryOK'
  BY DEF IInv, TypeOK, HistoryOK, SealStage, history
<1>4. \A v \in Upload \ {u} : Same(v) /\ file'[Target[v]] = file[Target[v]]
  BY <1>1 DEF IInv, TypeOK, DiskOK, HistoryOK, Same, SealStage, Saved, history
<1>5. Good(u)'
  BY <1>a, <1>b, <1>c, GotoMoves, NoneAssumption DEF IInv, TypeOK, DiskOK, ProcessOK,
         HistoryOK, SealStage, Saved, history, Step, Good, PartsInv, HandlerInv, ReplyInv,
         LinkInv, Holding, Unfinished, InState, PartsVerified, AllRecorded, DigestAgrees
<1> QED BY <1>1, <1>2, <1>3, <1>4, <1>5, Frame DEF IInv, TypeOK

LEMMA LinkStep ==
    ASSUME IInv, NEW u \in Upload, Link(u) PROVE IInv'
<1>a. manifest[u] # None /\ AllRecorded(u) /\ PartsVerified(u)
  BY DEF IInv, Link, Good, PartsInv, HandlerInv, Holding, Step, Unfinished, InState
<1>b. partFile[u] = manifest[u].parts /\ partFile[u] \in Assembled /\ stage[u] = partFile[u]
  BY <1>a, WholeFile DEF IInv, Link, Good, HandlerInv
<1>n. Target[u] \in Name
  BY TargetAssumption
<1>f. file' \in [Name -> Content \cup {None}] /\ file'[Target[u]] = manifest[u].parts
  BY <1>b, <1>n DEF IInv, TypeOK, DiskOK, Link, Content
<1>1. /\ ProcessOK'
      /\ \A v \in Upload \ {u} : pc'[v] = pc[v] /\ op'[v] = op[v] /\ arg'[v] = arg[v]
  BY GotoMoves DEF IInv, TypeOK, Link, Step
<1>2. DiskOK'
  BY <1>f DEF IInv, TypeOK, DiskOK, Link
<1>3. HistoryOK'
  BY DEF IInv, TypeOK, HistoryOK, Link
<1>4. \A v \in Upload \ {u} : Same(v)
  BY <1>1 DEF IInv, TypeOK, DiskOK, HistoryOK, Same, Link
<1>5. Good(u)'
  <2>1. PartsInv(u)' /\ HandlerInv(u)' /\ ReplyInv(u)'
    BY <1>a, <1>b, GotoMoves DEF IInv, TypeOK, DiskOK, ProcessOK, HistoryOK, Link, Step, Good,
           PartsInv, HandlerInv, ReplyInv, Holding, Unfinished, InState, PartsVerified,
           AllRecorded, DigestAgrees
  <2>2. LinkInv(u)'
    BY <1>f, GotoMoves DEF IInv, TypeOK, DiskOK, ProcessOK, HistoryOK, Link, Step, Good,
           HandlerInv, LinkInv, InState
  <2> QED BY <2>1, <2>2 DEF Good
\* The name was free, so no other transfer's link is there.
<1>6. \A v \in Upload \ {u} :
         file'[Target[v]] = file[Target[v]] \/ ~(linked[v] /\ InState(v, "finalizing"))
  <2> SUFFICES ASSUME NEW v \in Upload \ {u}, linked[v], InState(v, "finalizing")
               PROVE  file'[Target[v]] = file[Target[v]]
    OBVIOUS
  <2>1. file[Target[v]] # None
    BY LinkedIsThere DEF IInv
  <2>2. Target[v] # Target[u]
    BY <2>1 DEF Link
  <2> QED BY <2>2, <1>n, TargetAssumption DEF IInv, TypeOK, DiskOK, Link
<1> QED BY <1>1, <1>2, <1>3, <1>4, <1>5, <1>6, Frame DEF IInv, TypeOK

LEMMA SyncDestinationStep ==
    ASSUME IInv, NEW u \in Upload, SyncDestination(u) PROVE IInv'
<1>1. /\ ProcessOK'
      /\ \A v \in Upload \ {u} : pc'[v] = pc[v] /\ op'[v] = op[v] /\ arg'[v] = arg[v]
  BY GotoMoves DEF IInv, TypeOK, SyncDestination, durable, Step
<1>2. DiskOK'
  BY DEF IInv, TypeOK, DiskOK, SyncDestination, durable
<1>3. HistoryOK'
  BY DEF IInv, TypeOK, HistoryOK, SyncDestination, history
<1>4. \A v \in Upload \ {u} : Same(v) /\ file'[Target[v]] = file[Target[v]]
  BY <1>1 DEF IInv, TypeOK, DiskOK, HistoryOK, Same, SyncDestination, durable, history
<1>5. Good(u)'
  BY GotoMoves, NoneAssumption DEF IInv, TypeOK, DiskOK, ProcessOK, HistoryOK,
         SyncDestination, durable, history, Step, Good, PartsInv, HandlerInv, ReplyInv,
         LinkInv, Holding, Unfinished, InState, PartsVerified, AllRecorded, DigestAgrees
<1> QED BY <1>1, <1>2, <1>3, <1>4, <1>5, Frame DEF IInv, TypeOK

LEMMA PublishErrorStep ==
    ASSUME IInv, NEW u \in Upload, PublishError(u) PROVE IInv'
<1>1. /\ ProcessOK'
      /\ \A v \in Upload \ {u} : pc'[v] = pc[v] /\ op'[v] = op[v] /\ arg'[v] = arg[v]
  BY GotoMoves DEF IInv, TypeOK, PublishError, durable, Step
<1>2. DiskOK'
  BY DEF IInv, TypeOK, DiskOK, PublishError, durable
<1>3. HistoryOK'
  BY DEF IInv, TypeOK, HistoryOK, PublishError, history
<1>4. \A v \in Upload \ {u} : Same(v) /\ file'[Target[v]] = file[Target[v]]
  BY <1>1 DEF IInv, TypeOK, DiskOK, HistoryOK, Same, PublishError, durable, history
<1>5. Good(u)'
  BY GotoMoves, NoneAssumption DEF IInv, TypeOK, DiskOK, ProcessOK, HistoryOK, PublishError,
         durable, history, Step, Good, PartsInv, HandlerInv, ReplyInv, LinkInv, Holding,
         Unfinished, InState, PartsVerified, AllRecorded, DigestAgrees
<1> QED BY <1>1, <1>2, <1>3, <1>4, <1>5, Frame DEF IInv, TypeOK

LEMMA ResetStageStep ==
    ASSUME IInv, NEW u \in Upload, ResetStage(u) PROVE IInv'
<1>1. /\ ProcessOK'
      /\ \A v \in Upload \ {u} : pc'[v] = pc[v] /\ op'[v] = op[v] /\ arg'[v] = arg[v]
  BY GotoMoves DEF IInv, TypeOK, ResetStage, Step
<1>2. DiskOK'
  BY DEF IInv, TypeOK, DiskOK, ResetStage, StageRemoved
<1>3. HistoryOK'
  BY DEF IInv, TypeOK, HistoryOK, ResetStage, StageRemoved, history
<1>4. \A v \in Upload \ {u} : Same(v) /\ file'[Target[v]] = file[Target[v]]
  BY <1>1 DEF IInv, TypeOK, DiskOK, HistoryOK, Same, ResetStage, StageRemoved, history
<1>5. Good(u)'
  BY GotoMoves, NoneAssumption DEF IInv, TypeOK, DiskOK, ProcessOK, HistoryOK, ResetStage,
         history, Step, Good, PartsInv, HandlerInv, ReplyInv, LinkInv, Holding, Unfinished,
         InState, PartsVerified, AllRecorded, DigestAgrees
<1> QED BY <1>1, <1>2, <1>3, <1>4, <1>5, Frame DEF IInv, TypeOK

LEMMA ReactivateStep ==
    ASSUME IInv, NEW u \in Upload, Reactivate(u) PROVE IInv'
<1>c. /\ Reactivated(u) \in Manifest /\ Reactivated(u) # None
       /\ Reactivated(u).state = "active" /\ Reactivated(u).parts = manifest[u].parts
       /\ Reactivated(u).expected = manifest[u].expected
  BY ReactivatedIs DEF IInv, Reactivate, Good, HandlerInv, InState
<1>1. /\ ProcessOK'
      /\ \A v \in Upload \ {u} : pc'[v] = pc[v] /\ op'[v] = op[v] /\ arg'[v] = arg[v]
  BY ReturnMoves DEF IInv, TypeOK, Reactivate, Step
<1>2. DiskOK'
  BY <1>c DEF IInv, TypeOK, DiskOK, Reactivate, Saved, Refreshed, SaveFailed
<1>3. HistoryOK'
  BY DEF IInv, TypeOK, HistoryOK, Reactivate, history
<1>4. \A v \in Upload \ {u} : Same(v) /\ file'[Target[v]] = file[Target[v]]
  BY <1>1 DEF IInv, TypeOK, DiskOK, HistoryOK, Same, Reactivate, Saved, Refreshed,
         SaveFailed, history
<1>5. Good(u)'
  BY <1>c, ReturnMoves, NoneAssumption DEF IInv, TypeOK, DiskOK, ProcessOK, HistoryOK,
         Reactivate, Saved, Refreshed, SaveFailed, history, Step, Good, PartsInv,
         HandlerInv, ReplyInv, LinkInv, Holding, Unfinished, InState, PartsVerified,
         AllRecorded, DigestAgrees
<1> QED BY <1>1, <1>2, <1>3, <1>4, <1>5, Frame DEF IInv, TypeOK

LEMMA MarkCompletedStep ==
    ASSUME IInv, NEW u \in Upload, MarkCompleted(u) PROVE IInv'
<1>a. manifest[u] # None /\ AllRecorded(u) /\ PartsVerified(u)
  BY DEF IInv, MarkCompleted, Good, PartsInv, HandlerInv, Holding, Step, Unfinished, InState
<1>b. partFile[u] = manifest[u].parts /\ partFile[u] \in Assembled /\ partFile[u] # None
  BY <1>a, WholeFile DEF IInv
<1>c. /\ Completed(u) \in Manifest /\ Completed(u) # None
       /\ Completed(u).state = "completed" /\ Completed(u).final = partFile[u]
       /\ Completed(u).expected = manifest[u].expected
  BY <1>a, <1>b, CompletedIs DEF IInv, MarkCompleted, Good, HandlerInv, InState
<1>1. /\ ProcessOK'
      /\ \A v \in Upload \ {u} : pc'[v] = pc[v] /\ op'[v] = op[v] /\ arg'[v] = arg[v]
  BY GotoMoves, ReturnMoves DEF IInv, TypeOK, MarkCompleted, Step
<1>2. DiskOK'
  BY <1>a, <1>b, <1>c, NoPartsIs DEF IInv, TypeOK, DiskOK, MarkCompleted, Saved, Refreshed,
         SaveFailed
<1>3. HistoryOK'
  BY DEF IInv, TypeOK, HistoryOK, MarkCompleted, history
<1>4. \A v \in Upload \ {u} : Same(v) /\ file'[Target[v]] = file[Target[v]]
  BY <1>1 DEF IInv, TypeOK, DiskOK, HistoryOK, Same, MarkCompleted, Saved, Refreshed,
         SaveFailed, history
<1>5. Good(u)'
  BY <1>a, <1>b, <1>c, GotoMoves, ReturnMoves, NoPartsIs, NoneAssumption DEF IInv, TypeOK,
         DiskOK, ProcessOK, HistoryOK, MarkCompleted, Saved, Refreshed, SaveFailed, history,
         Step, Good, PartsInv, HandlerInv, ReplyInv, LinkInv, Holding, Unfinished, InState,
         PartsVerified, AllRecorded, DigestAgrees
<1> QED BY <1>1, <1>2, <1>3, <1>4, <1>5, Frame DEF IInv, TypeOK

LEMMA CleanupCompletedStep ==
    ASSUME IInv, NEW u \in Upload, CleanupCompleted(u) PROVE IInv'
<1>1. /\ ProcessOK'
      /\ \A v \in Upload \ {u} : pc'[v] = pc[v] /\ op'[v] = op[v] /\ arg'[v] = arg[v]
  BY GotoMoves DEF IInv, TypeOK, CleanupCompleted, Step
<1>2. DiskOK'
  BY NoPartsIs DEF IInv, TypeOK, DiskOK, CleanupCompleted
<1>3. HistoryOK'
  BY DEF IInv, TypeOK, HistoryOK, CleanupCompleted, history
<1>4. \A v \in Upload \ {u} : Same(v) /\ file'[Target[v]] = file[Target[v]]
  BY <1>1 DEF IInv, TypeOK, DiskOK, HistoryOK, Same, CleanupCompleted, history
<1>5. Good(u)'
  BY GotoMoves, NoPartsIs, NoneAssumption DEF IInv, TypeOK, DiskOK, ProcessOK, HistoryOK,
         CleanupCompleted, history, Step, Good, PartsInv, HandlerInv, ReplyInv, LinkInv,
         Holding, Unfinished, InState, PartsVerified, AllRecorded, DigestAgrees
<1> QED BY <1>1, <1>2, <1>3, <1>4, <1>5, Frame DEF IInv, TypeOK

LEMMA RemoveStageStep ==
    ASSUME IInv, NEW u \in Upload, RemoveStage(u) PROVE IInv'
<1>1. /\ ProcessOK'
      /\ \A v \in Upload \ {u} : pc'[v] = pc[v] /\ op'[v] = op[v] /\ arg'[v] = arg[v]
  BY ReturnMoves DEF IInv, TypeOK, RemoveStage, Step
<1>2. DiskOK'
  BY DEF IInv, TypeOK, DiskOK, RemoveStage, StageRemoved
<1>3. HistoryOK'
  BY DEF IInv, TypeOK, HistoryOK, RemoveStage, StageRemoved
<1>4. \A v \in Upload \ {u} : Same(v) /\ file'[Target[v]] = file[Target[v]]
  BY <1>1 DEF IInv, TypeOK, DiskOK, HistoryOK, Same, RemoveStage, StageRemoved
<1>5. Good(u)'
  BY ReturnMoves, NoneAssumption DEF IInv, TypeOK, DiskOK, ProcessOK, HistoryOK,
         RemoveStage, Step, Good, PartsInv, HandlerInv, ReplyInv, LinkInv, Holding,
         Unfinished, InState, PartsVerified, AllRecorded, DigestAgrees
<1> QED BY <1>1, <1>2, <1>3, <1>4, <1>5, Frame DEF IInv, TypeOK

LEMMA AdoptDestinationStep ==
    ASSUME IInv, NEW u \in Upload, AdoptDestination(u) PROVE IInv'
<1>a. manifest[u] # None /\ AllRecorded(u) /\ PartsVerified(u)
  BY DEF IInv, AdoptDestination, Reconcilable, Good, PartsInv, HandlerInv, Holding, Step,
         Unfinished, InState
<1>b. partFile[u] = manifest[u].parts /\ partFile[u] \in Assembled /\ partFile[u] # None
  BY <1>a, WholeFile DEF IInv
<1>1. /\ ProcessOK'
      /\ \A v \in Upload \ {u} : pc'[v] = pc[v] /\ op'[v] = op[v] /\ arg'[v] = arg[v]
  BY GotoMoves DEF IInv, TypeOK, AdoptDestination, durable, Step
<1>2. DiskOK'
  BY <1>a, <1>b DEF IInv, TypeOK, DiskOK, AdoptDestination, durable
<1>3. HistoryOK'
  BY DEF IInv, TypeOK, HistoryOK, AdoptDestination, history
<1>4. \A v \in Upload \ {u} : Same(v) /\ file'[Target[v]] = file[Target[v]]
  BY <1>1 DEF IInv, TypeOK, DiskOK, HistoryOK, Same, AdoptDestination, durable, history
<1>5. Good(u)'
  BY <1>a, <1>b, GotoMoves, NoneAssumption DEF IInv, TypeOK, DiskOK, ProcessOK, HistoryOK,
         AdoptDestination, durable, history, Reconcilable, Step, Good, PartsInv, HandlerInv,
         ReplyInv, LinkInv, Holding, Unfinished, InState, PartsVerified, AllRecorded,
         DigestAgrees
<1> QED BY <1>1, <1>2, <1>3, <1>4, <1>5, Frame DEF IInv, TypeOK

LEMMA DiscardStageStep ==
    ASSUME IInv, NEW u \in Upload, DiscardStage(u) PROVE IInv'
<1>a. manifest[u] # None /\ AllRecorded(u) /\ PartsVerified(u)
  BY DEF IInv, DiscardStage, Reconcilable, Good, PartsInv, HandlerInv, Holding, Step,
         Unfinished, InState
<1>b. partFile[u] = manifest[u].parts /\ partFile[u] \in Assembled /\ partFile[u] # None
  BY <1>a, WholeFile DEF IInv
<1>1. /\ ProcessOK'
      /\ \A v \in Upload \ {u} : pc'[v] = pc[v] /\ op'[v] = op[v] /\ arg'[v] = arg[v]
  BY GotoMoves DEF IInv, TypeOK, DiscardStage, durable, Step
<1>2. DiskOK'
  BY <1>a, <1>b DEF IInv, TypeOK, DiskOK, DiscardStage, StageRemoved, durable
<1>3. HistoryOK'
  BY DEF IInv, TypeOK, HistoryOK, DiscardStage, StageRemoved, history
<1>4. \A v \in Upload \ {u} : Same(v) /\ file'[Target[v]] = file[Target[v]]
  BY <1>1 DEF IInv, TypeOK, DiskOK, HistoryOK, Same, DiscardStage, StageRemoved, durable, history
<1>5. Good(u)'
  BY <1>a, <1>b, GotoMoves, NoneAssumption, SMTT(30) DEF IInv, TypeOK, DiskOK, ProcessOK, HistoryOK,
         DiscardStage, durable, history, Reconcilable, Step, Good, PartsInv, HandlerInv,
         ReplyInv, LinkInv, Holding, Unfinished, InState, PartsVerified, AllRecorded,
         DigestAgrees
<1> QED BY <1>1, <1>2, <1>3, <1>4, <1>5, Frame DEF IInv, TypeOK

LEMMA RefuseToReconcileStep ==
    ASSUME IInv, NEW u \in Upload, RefuseToReconcile(u) PROVE IInv'
<1>a. manifest[u] # None /\ AllRecorded(u) /\ PartsVerified(u)
  BY DEF IInv, RefuseToReconcile, Reconcilable, Good, PartsInv, HandlerInv, Holding, Step,
         Unfinished, InState
<1>b. partFile[u] = manifest[u].parts /\ partFile[u] \in Assembled /\ partFile[u] # None
  BY <1>a, WholeFile DEF IInv
<1>1. /\ ProcessOK'
      /\ \A v \in Upload \ {u} : pc'[v] = pc[v] /\ op'[v] = op[v] /\ arg'[v] = arg[v]
  BY ReturnMoves DEF IInv, TypeOK, RefuseToReconcile, durable, Step
<1>2. DiskOK'
  BY <1>a, <1>b DEF IInv, TypeOK, DiskOK, RefuseToReconcile, durable
<1>3. HistoryOK'
  BY DEF IInv, TypeOK, HistoryOK, RefuseToReconcile, history
<1>4. \A v \in Upload \ {u} : Same(v) /\ file'[Target[v]] = file[Target[v]]
  BY <1>1 DEF IInv, TypeOK, DiskOK, HistoryOK, Same, RefuseToReconcile, durable, history
<1>5. Good(u)'
  BY <1>a, <1>b, ReturnMoves, NoneAssumption DEF IInv, TypeOK, DiskOK, ProcessOK, HistoryOK,
         RefuseToReconcile, durable, history, Reconcilable, Step, Good, PartsInv,
         HandlerInv, ReplyInv, LinkInv, Holding, Unfinished, InState, PartsVerified,
         AllRecorded, DigestAgrees
<1> QED BY <1>1, <1>2, <1>3, <1>4, <1>5, Frame DEF IInv, TypeOK

LEMMA ReviveStep ==
    ASSUME IInv, NEW u \in Upload, Revive(u) PROVE IInv'
<1>c. /\ Reactivated(u) \in Manifest /\ Reactivated(u) # None
       /\ Reactivated(u).state = "active" /\ Reactivated(u).parts = manifest[u].parts
       /\ Reactivated(u).expected = manifest[u].expected
  BY ReactivatedIs DEF IInv, Revive, Good, HandlerInv, InState
<1>1. /\ ProcessOK'
      /\ \A v \in Upload \ {u} : pc'[v] = pc[v] /\ op'[v] = op[v] /\ arg'[v] = arg[v]
  BY GotoMoves, ReturnMoves DEF IInv, TypeOK, Revive, Step
<1>2. DiskOK'
  BY <1>c DEF IInv, TypeOK, DiskOK, Revive, Saved, Refreshed, SaveFailed
<1>3. HistoryOK'
  BY DEF IInv, TypeOK, HistoryOK, Revive, history
<1>4. \A v \in Upload \ {u} : Same(v) /\ file'[Target[v]] = file[Target[v]]
  BY <1>1 DEF IInv, TypeOK, DiskOK, HistoryOK, Same, Revive, Saved, Refreshed, SaveFailed,
         history
<1>5. Good(u)'
  BY <1>c, GotoMoves, ReturnMoves, NoneAssumption, SMTT(30) DEF IInv, TypeOK, DiskOK, ProcessOK,
         HistoryOK, Revive, Saved, Refreshed, SaveFailed, history, Step, Good, PartsInv,
         HandlerInv, ReplyInv, LinkInv, Holding, Unfinished, InState, PartsVerified,
         AllRecorded, DigestAgrees
<1> QED BY <1>1, <1>2, <1>3, <1>4, <1>5, Frame DEF IInv, TypeOK

LEMMA CancelBeginStep ==
    ASSUME IInv, NEW u \in Upload, CancelBegin(u) PROVE IInv'
<1>1. /\ ProcessOK'
      /\ \A v \in Upload \ {u} : pc'[v] = pc[v] /\ op'[v] = op[v] /\ arg'[v] = arg[v]
  BY DEF IInv, TypeOK, ProcessOK, CancelBegin, Enter, durable, Step
<1>2. DiskOK'
  BY DEF IInv, TypeOK, DiskOK, CancelBegin, Enter, durable
<1>3. HistoryOK'
  BY DEF IInv, TypeOK, HistoryOK, CancelBegin, Enter, history
<1>4. \A v \in Upload \ {u} : Same(v) /\ file'[Target[v]] = file[Target[v]]
  BY <1>1 DEF IInv, TypeOK, DiskOK, HistoryOK, Same, CancelBegin, Enter, durable, history
<1>5. Good(u)'
  BY NoneAssumption DEF IInv, TypeOK, DiskOK, ProcessOK, HistoryOK, CancelBegin, Ready,
         Enter, durable, history, Step, Good, PartsInv, HandlerInv, ReplyInv, LinkInv,
         Holding, Unfinished, InState, PartsVerified, AllRecorded, DigestAgrees
<1> QED BY <1>1, <1>2, <1>3, <1>4, <1>5, Frame DEF IInv, TypeOK

LEMMA CancelSaveStep ==
    ASSUME IInv, NEW u \in Upload, CancelSave(u) PROVE IInv'
<1>c. /\ Cancelled(u) \in Manifest /\ Cancelled(u) # None
       /\ Cancelled(u).state = "cancelled" /\ Cancelled(u).parts = manifest[u].parts
       /\ Cancelled(u).expected = manifest[u].expected
  BY CancelledIs DEF IInv, CancelSave, Good, HandlerInv, InState
<1>1. /\ ProcessOK'
      /\ \A v \in Upload \ {u} : pc'[v] = pc[v] /\ op'[v] = op[v] /\ arg'[v] = arg[v]
  BY GotoMoves, ReturnMoves DEF IInv, TypeOK, CancelSave, Step
<1>2. DiskOK'
  BY <1>c DEF IInv, TypeOK, DiskOK, CancelSave, Saved, Refreshed, SaveFailed
<1>3. HistoryOK'
  BY DEF IInv, TypeOK, HistoryOK, CancelSave, history
<1>4. \A v \in Upload \ {u} : Same(v) /\ file'[Target[v]] = file[Target[v]]
  BY <1>1 DEF IInv, TypeOK, DiskOK, HistoryOK, Same, CancelSave, Saved, Refreshed,
         SaveFailed, history
<1>5. Good(u)'
  BY <1>c, GotoMoves, ReturnMoves, NoneAssumption, SMTT(30) DEF IInv, TypeOK, DiskOK, ProcessOK,
         HistoryOK, CancelSave, Saved, Refreshed, SaveFailed, history, Step, Good, PartsInv,
         HandlerInv, ReplyInv, LinkInv, Holding, Unfinished, InState, PartsVerified,
         AllRecorded, DigestAgrees
<1> QED BY <1>1, <1>2, <1>3, <1>4, <1>5, Frame DEF IInv, TypeOK

LEMMA CleanupCancelledStep ==
    ASSUME IInv, NEW u \in Upload, CleanupCancelled(u) PROVE IInv'
<1>1. /\ ProcessOK'
      /\ \A v \in Upload \ {u} : pc'[v] = pc[v] /\ op'[v] = op[v] /\ arg'[v] = arg[v]
  BY ReturnMoves DEF IInv, TypeOK, CleanupCancelled, Step
<1>2. DiskOK'
  BY NoPartsIs DEF IInv, TypeOK, DiskOK, CleanupCancelled
<1>3. HistoryOK'
  BY DEF IInv, TypeOK, HistoryOK, CleanupCancelled, history
<1>4. \A v \in Upload \ {u} : Same(v) /\ file'[Target[v]] = file[Target[v]]
  BY <1>1 DEF IInv, TypeOK, DiskOK, HistoryOK, Same, CleanupCancelled, history
<1>5. Good(u)'
  BY ReturnMoves, NoPartsIs, NoneAssumption DEF IInv, TypeOK, DiskOK, ProcessOK, HistoryOK,
         CleanupCancelled, history, Step, Good, PartsInv, HandlerInv, ReplyInv, LinkInv,
         Holding, Unfinished, InState, PartsVerified, AllRecorded, DigestAgrees
<1> QED BY <1>1, <1>2, <1>3, <1>4, <1>5, Frame DEF IInv, TypeOK

LEMMA ReapBeginStep ==
    ASSUME IInv, NEW u \in Upload, ReapBegin(u) PROVE IInv'
<1>1. /\ ProcessOK'
      /\ \A v \in Upload \ {u} : pc'[v] = pc[v] /\ op'[v] = op[v] /\ arg'[v] = arg[v]
  BY DEF IInv, TypeOK, ProcessOK, ReapBegin, durable, Step
<1>2. DiskOK'
  BY DEF IInv, TypeOK, DiskOK, ReapBegin, durable
<1>3. HistoryOK'
  BY DEF IInv, TypeOK, HistoryOK, ReapBegin, history
<1>4. \A v \in Upload \ {u} : Same(v) /\ file'[Target[v]] = file[Target[v]]
  BY <1>1 DEF IInv, TypeOK, DiskOK, HistoryOK, Same, ReapBegin, durable, history
<1>5. Good(u)'
  BY NoneAssumption DEF IInv, TypeOK, DiskOK, ProcessOK, HistoryOK, ReapBegin, durable,
         history, Step, Good, PartsInv, HandlerInv, ReplyInv, LinkInv, Holding, Unfinished,
         InState, PartsVerified, AllRecorded, DigestAgrees
<1> QED BY <1>1, <1>2, <1>3, <1>4, <1>5, Frame DEF IInv, TypeOK

LEMMA ReapEntryStep ==
    ASSUME IInv, NEW u \in Upload, ReapEntry(u) PROVE IInv'
<1>1. /\ ProcessOK'
      /\ \A v \in Upload \ {u} : pc'[v] = pc[v] /\ op'[v] = op[v] /\ arg'[v] = arg[v]
  BY DEF IInv, TypeOK, ProcessOK, ReapEntry, volatile, Step
<1>2. DiskOK'
  BY NoPartsIs DEF IInv, TypeOK, DiskOK, ReapEntry, volatile
<1>3. HistoryOK'
  BY DEF IInv, TypeOK, HistoryOK, ReapEntry, history
<1>4. \A v \in Upload \ {u} : Same(v) /\ file'[Target[v]] = file[Target[v]]
  BY <1>1 DEF IInv, TypeOK, DiskOK, HistoryOK, Same, ReapEntry, volatile, history
<1>5. Good(u)'
  BY NoPartsIs, NoneAssumption DEF IInv, TypeOK, DiskOK, ProcessOK, HistoryOK, ReapEntry,
         volatile, history, Step, Good, PartsInv, HandlerInv, ReplyInv, LinkInv, Holding,
         Unfinished, InState, PartsVerified, AllRecorded, DigestAgrees
<1> QED BY <1>1, <1>2, <1>3, <1>4, <1>5, Frame DEF IInv, TypeOK

LEMMA ReapDirectoryStep ==
    ASSUME IInv, NEW u \in Upload, ReapDirectory(u) PROVE IInv'
<1>1. /\ ProcessOK'
      /\ \A v \in Upload \ {u} : pc'[v] = pc[v] /\ op'[v] = op[v] /\ arg'[v] = arg[v]
  BY ReturnMoves DEF IInv, TypeOK, ReapDirectory, Step
<1>2. DiskOK'
  BY NoPartsIs DEF IInv, TypeOK, DiskOK, ReapDirectory
<1>3. HistoryOK'
  BY DEF IInv, TypeOK, HistoryOK, ReapDirectory, history
<1>4. \A v \in Upload \ {u} : Same(v) /\ file'[Target[v]] = file[Target[v]]
  BY <1>1 DEF IInv, TypeOK, DiskOK, HistoryOK, Same, ReapDirectory, history
<1>5. Good(u)'
  BY ReturnMoves, NoPartsIs, NoneAssumption DEF IInv, TypeOK, DiskOK, ProcessOK, HistoryOK,
         ReapDirectory, history, Step, Good, PartsInv, HandlerInv, ReplyInv, LinkInv,
         Holding, Unfinished, InState, PartsVerified, AllRecorded, DigestAgrees
<1> QED BY <1>1, <1>2, <1>3, <1>4, <1>5, Frame DEF IInv, TypeOK

LEMMA GiveUpStep ==
    ASSUME IInv, NEW u \in Upload, GiveUp(u) PROVE IInv'
<1>1. /\ ProcessOK'
      /\ \A v \in Upload \ {u} : pc'[v] = pc[v] /\ op'[v] = op[v] /\ arg'[v] = arg[v]
  BY ReturnMoves DEF IInv, TypeOK, GiveUp, durable, Step
<1>2. DiskOK'
  BY DEF IInv, TypeOK, DiskOK, GiveUp, durable
<1>3. HistoryOK'
  BY DEF IInv, TypeOK, HistoryOK, GiveUp, history
<1>4. \A v \in Upload \ {u} : Same(v) /\ file'[Target[v]] = file[Target[v]]
  BY <1>1 DEF IInv, TypeOK, DiskOK, HistoryOK, Same, GiveUp, durable, history
<1>5. Good(u)'
  BY ReturnMoves, NoneAssumption DEF IInv, TypeOK, DiskOK, ProcessOK, HistoryOK, GiveUp,
         durable, history, Step, Good, PartsInv, HandlerInv, ReplyInv, LinkInv, Holding,
         Unfinished, InState, PartsVerified, AllRecorded, DigestAgrees
<1> QED BY <1>1, <1>2, <1>3, <1>4, <1>5, Frame DEF IInv, TypeOK

LEMMA RecoverTerminalStep ==
    ASSUME IInv, NEW u \in Upload, RecoverTerminal(u) PROVE IInv'
<1>1. /\ ProcessOK'
      /\ \A v \in Upload \ {u} : pc'[v] = pc[v] /\ op'[v] = op[v] /\ arg'[v] = arg[v]
  BY DEF IInv, TypeOK, ProcessOK, RecoverTerminal, Recovering, Step
<1>2. DiskOK'
  BY NoPartsIs DEF IInv, TypeOK, DiskOK, RecoverTerminal
<1>3. HistoryOK'
  BY DEF IInv, TypeOK, HistoryOK, RecoverTerminal, history
<1>4. \A v \in Upload \ {u} : Same(v) /\ file'[Target[v]] = file[Target[v]]
  BY <1>1 DEF IInv, TypeOK, DiskOK, HistoryOK, Same, RecoverTerminal, history
<1>5. Good(u)'
  BY NoPartsIs, NoneAssumption DEF IInv, TypeOK, DiskOK, ProcessOK, HistoryOK,
         RecoverTerminal, Recovering, history, Step, Good, PartsInv, HandlerInv, ReplyInv,
         LinkInv, Holding, Unfinished, InState, PartsVerified, AllRecorded, DigestAgrees
<1> QED BY <1>1, <1>2, <1>3, <1>4, <1>5, Frame DEF IInv, TypeOK

LEMMA RecoverUnfinishedStep ==
    ASSUME IInv, NEW u \in Upload, RecoverUnfinished(u) PROVE IInv'
<1>1. /\ ProcessOK'
      /\ \A v \in Upload \ {u} : pc'[v] = pc[v] /\ op'[v] = op[v] /\ arg'[v] = arg[v]
  BY DEF IInv, TypeOK, ProcessOK, RecoverUnfinished, Recovering, durable, Step
<1>2. DiskOK'
  BY DEF IInv, TypeOK, DiskOK, RecoverUnfinished, durable
<1>3. HistoryOK'
  BY DEF IInv, TypeOK, HistoryOK, RecoverUnfinished, history
<1>4. \A v \in Upload \ {u} : Same(v) /\ file'[Target[v]] = file[Target[v]]
  BY <1>1 DEF IInv, TypeOK, DiskOK, HistoryOK, Same, RecoverUnfinished, durable, history
<1>5. Good(u)'
  BY NoneAssumption DEF IInv, TypeOK, DiskOK, ProcessOK, HistoryOK, RecoverUnfinished,
         Recovering, durable, history, Step, Good, PartsInv, HandlerInv, ReplyInv, LinkInv,
         Holding, Unfinished, InState, PartsVerified, AllRecorded, DigestAgrees
<1> QED BY <1>1, <1>2, <1>3, <1>4, <1>5, Frame DEF IInv, TypeOK

LEMMA RecoverRefuseStep ==
    ASSUME IInv, NEW u \in Upload, RecoverRefuse(u) PROVE IInv'
<1>1. /\ ProcessOK'
      /\ \A v \in Upload \ {u} : pc'[v] = pc[v] /\ op'[v] = op[v] /\ arg'[v] = arg[v]
  BY DEF IInv, TypeOK, ProcessOK, RecoverRefuse, Recovering, durable, Step
<1>2. DiskOK'
  BY DEF IInv, TypeOK, DiskOK, RecoverRefuse, durable
<1>3. HistoryOK'
  BY DEF IInv, TypeOK, HistoryOK, RecoverRefuse, history
<1>4. \A v \in Upload \ {u} : Same(v) /\ file'[Target[v]] = file[Target[v]]
  BY <1>1 DEF IInv, TypeOK, DiskOK, HistoryOK, Same, RecoverRefuse, durable, history
<1>5. Good(u)'
  BY NoneAssumption DEF IInv, TypeOK, DiskOK, ProcessOK, HistoryOK, RecoverRefuse,
         Recovering, durable, history, Step, Good, PartsInv, HandlerInv, ReplyInv, LinkInv,
         Holding, Unfinished, InState, PartsVerified, AllRecorded, DigestAgrees
<1> QED BY <1>1, <1>2, <1>3, <1>4, <1>5, Frame DEF IInv, TypeOK

LEMMA ExpireStep ==
    ASSUME IInv, NEW u \in Upload, Expire(u) PROVE IInv'
<1>1. /\ ProcessOK'
      /\ \A v \in Upload \ {u} : pc'[v] = pc[v] /\ op'[v] = op[v] /\ arg'[v] = arg[v]
  BY DEF IInv, TypeOK, ProcessOK, Expire, volatile, Step
<1>2. DiskOK'
  BY DEF IInv, TypeOK, DiskOK, Expire, volatile
<1>3. HistoryOK'
  BY DEF IInv, TypeOK, HistoryOK, Expire, history
<1>4. \A v \in Upload \ {u} : Same(v) /\ file'[Target[v]] = file[Target[v]]
  BY <1>1 DEF IInv, TypeOK, DiskOK, HistoryOK, Same, Expire, volatile, history
<1>5. Good(u)'
  BY NoneAssumption DEF IInv, TypeOK, DiskOK, ProcessOK, HistoryOK, Expire, volatile,
         history, Step, Good, PartsInv, HandlerInv, ReplyInv, LinkInv, Holding, Unfinished,
         InState, PartsVerified, AllRecorded, DigestAgrees
<1> QED BY <1>1, <1>2, <1>3, <1>4, <1>5, Frame DEF IInv, TypeOK

LEMMA CrashStep == ASSUME IInv, Crash PROVE IInv'
<1>1. NoArg \in [part : Part \cup {None}, digest : Data \cup {None}] /\ "idle" \in Step
  BY DEF NoArg, Step
<1>2. TypeOK'
  BY <1>1 DEF IInv, TypeOK, DiskOK, ProcessOK, HistoryOK, Crash, durable, history
<1>3. ASSUME NEW u \in Upload PROVE Good(u)'
  BY DEF IInv, Good, PartsInv, HandlerInv, ReplyInv, LinkInv, Crash, durable, history,
         Holding, Unfinished, InState, PartsVerified, AllRecorded, DigestAgrees
<1> QED BY <1>2, <1>3 DEF IInv

LEMMA StartStep == ASSUME IInv, Start PROVE IInv'
<1>1. TypeOK'
  BY DEF IInv, TypeOK, DiskOK, ProcessOK, HistoryOK, Start, durable, history
<1>2. \A u \in Upload : Same(u) /\ file'[Target[u]] = file[Target[u]]
  BY DEF Start, Same, durable, history
<1> QED BY <1>1, <1>2, Frame DEF IInv

LEMMA RecoverDoneStep == ASSUME IInv, RecoverDone PROVE IInv'
<1>1. TypeOK'
  BY DEF IInv, TypeOK, DiskOK, ProcessOK, HistoryOK, RecoverDone, durable, history
<1>2. \A u \in Upload : Same(u) /\ file'[Target[u]] = file[Target[u]]
  BY DEF RecoverDone, Same, durable, history
<1> QED BY <1>1, <1>2, Frame DEF IInv

LEMMA UserFileStep == ASSUME IInv, NEW n \in Name, UserFile(n) PROVE IInv'
<1>1. file' \in [Name -> Content \cup {None}] /\ \A m \in Name \ {n} : file'[m] = file[m]
  BY DEF IInv, TypeOK, DiskOK, UserFile, Content
<1>2. linked' \in [Upload -> BOOLEAN]
  BY DEF IInv, TypeOK, HistoryOK, UserFile
<1>3. TypeOK'
  BY <1>1, <1>2 DEF IInv, TypeOK, DiskOK, ProcessOK, HistoryOK, UserFile, volatile
<1>4. ASSUME NEW u \in Upload PROVE Good(u)'
  <2>1. Target[u] \in Name
    BY TargetAssumption
  <2>2. linked'[u] => linked[u] /\ file'[Target[u]] = file[Target[u]]
    BY <1>1, <2>1 DEF UserFile
  <2>3. Good(u)
    BY DEF IInv
  <2>4. UNCHANGED <<dir, manifest, partFile, stage, stale, server, todo, pc, op, arg, acked, done>>
    BY DEF UserFile, volatile
  <2>5. PartsInv(u)' /\ HandlerInv(u)'
    BY <2>3, <2>4 DEF Good, PartsInv, HandlerInv, Holding, Unfinished, InState, PartsVerified,
       AllRecorded, DigestAgrees
  <2>6. ReplyInv(u)' /\ LinkInv(u)'
    BY <2>2, <2>3, <2>4 DEF Good, ReplyInv, LinkInv, Unfinished, InState
  <2> QED BY <2>5, <2>6 DEF Good
<1> QED BY <1>3, <1>4 DEF IInv

LEMMA FolderLeavesStep == ASSUME IInv, NEW n \in Name, FolderLeaves(n) PROVE IInv'
<1>1. TypeOK'
  BY DEF IInv, TypeOK, DiskOK, ProcessOK, HistoryOK, FolderLeaves, volatile, history
<1>2. \A u \in Upload : Same(u) /\ file'[Target[u]] = file[Target[u]]
  BY DEF FolderLeaves, Same, volatile, history
<1> QED BY <1>1, <1>2, Frame DEF IInv

LEMMA FolderReturnsStep == ASSUME IInv, NEW n \in Name, FolderReturns(n) PROVE IInv'
<1>1. /\ file' \in [Name -> Content \cup {None}] /\ \A m \in Name \ {n} : file'[m] = file[m]
      /\ stage' \in [Upload -> Assembled \cup {Torn, None}]
      /\ \A u \in Upload : stage'[u] \in {stage[u], None}
  BY DEF IInv, TypeOK, DiskOK, FolderReturns
<1>2. linked' \in [Upload -> BOOLEAN]
  BY DEF IInv, TypeOK, HistoryOK, FolderReturns
<1>3. TypeOK'
  BY <1>1, <1>2 DEF IInv, TypeOK, DiskOK, ProcessOK, HistoryOK, FolderReturns, volatile
<1>4. ASSUME NEW u \in Upload PROVE Good(u)'
  <2>1. Target[u] \in Name
    BY TargetAssumption
  <2>2. linked'[u] => linked[u] /\ file'[Target[u]] = file[Target[u]]
    BY <1>1, <2>1 DEF FolderReturns
  <2>3. Good(u)
    BY DEF IInv
  <2>4. UNCHANGED <<dir, manifest, partFile, stale, server, todo, pc, op, arg, acked, done>>
    BY DEF FolderReturns, volatile
  <2>5. PartsInv(u)' /\ HandlerInv(u)'
    BY <1>1, <2>3, <2>4 DEF Good, PartsInv, HandlerInv, Holding, Unfinished, InState, PartsVerified,
       AllRecorded, DigestAgrees
  <2>6. ReplyInv(u)' /\ LinkInv(u)'
    BY <2>2, <2>3, <2>4 DEF Good, ReplyInv, LinkInv, Unfinished, InState
  <2> QED BY <2>5, <2>6 DEF Good
<1> QED BY <1>3, <1>4 DEF IInv

LEMMA StutterStep == ASSUME IInv, UNCHANGED vars PROVE IInv'
<1>1. TypeOK'
  BY DEF IInv, TypeOK, DiskOK, ProcessOK, HistoryOK, vars, durable, volatile, history
<1>2. \A u \in Upload : Same(u) /\ file'[Target[u]] = file[Target[u]]
  BY DEF Same, vars, durable, volatile, history
<1> QED BY <1>1, <1>2, Frame DEF IInv

LEMMA RequestStep == ASSUME IInv, NEW u \in Upload, Request(u) PROVE IInv'
BY CreateBeginStep, PartRepeatedStep, PartBeginStep, CompleteBeginStep, CompleteRepeatedStep,
   CancelBeginStep DEF Request

LEMMA ProceedStep == ASSUME IInv, NEW u \in Upload, Proceed(u) PROVE IInv'
BY CreateSaveStep, CreateFailStep, PartReceiveStep, PartRecordStep, PartRecordFailStep,
   PublishBeginStep, OpenStageStep, AssembleStep, SealStageStep, LinkStep, SyncDestinationStep,
   PublishErrorStep, ResetStageStep, ReactivateStep, MarkCompletedStep, CleanupCompletedStep,
   RemoveStageStep, AdoptDestinationStep, DiscardStageStep, RefuseToReconcileStep, ReviveStep,
   CancelSaveStep, CleanupCancelledStep, ReapEntryStep, ReapDirectoryStep, GiveUpStep DEF Proceed

LEMMA NextInv == IInv /\ [Next]_vars => IInv'
<1> SUFFICES ASSUME IInv, [Next]_vars PROVE IInv'
  OBVIOUS
<1>1. CASE \E u \in Upload : Request(u) \/ Proceed(u)
  BY <1>1, RequestStep, ProceedStep
<1>2. CASE \E u \in Upload : ReapBegin(u) \/ Recover(u) \/ Expire(u)
  BY <1>2, ReapBeginStep, RecoverTerminalStep, RecoverUnfinishedStep, RecoverRefuseStep,
     ExpireStep DEF Recover
<1>3. CASE Start \/ RecoverDone \/ Crash
  BY <1>3, StartStep, RecoverDoneStep, CrashStep
<1>4. CASE \E n \in Name : UserFile(n) \/ FolderLeaves(n) \/ FolderReturns(n)
  BY <1>4, UserFileStep, FolderLeavesStep, FolderReturnsStep
<1>5. CASE UNCHANGED vars
  BY <1>5, StutterStep
<1> QED BY <1>1, <1>2, <1>3, <1>4, <1>5 DEF Next

LEMMA SpecIInv == Spec => []IInv
BY InitInv, NextInv, PTL DEF Spec

-----------------------------------------------------------------------------
(* Theorems *)

\* Whatever the handlers, crashes and recovery do, the disk holds well-formed
\* manifests and whole files, and every handler is at a known step.
THEOREM TypeCorrect == Spec => []TypeOK
<1>1. IInv => TypeOK
  BY DEF IInv
<1> QED BY <1>1, SpecIInv, PTL

\* A transfer a client may still use has every part its manifest records.
THEOREM PartsIntact == Spec => []RecordedPartsIntact
<1>1. IInv => RecordedPartsIntact
  BY DEF IInv, Good, PartsInv, RecordedPartsIntact
<1> QED BY <1>1, SpecIInv, PTL

\* A confirmed part stays in the manifest and ends up in the published file.
THEOREM AcknowledgementsStand == Spec => []AckedPartsSurvive
<1>1. IInv => AckedPartsSurvive
  BY DEF IInv, Good, ReplyInv, AckedPartsSurvive
<1> QED BY <1>1, SpecIInv, PTL

\* A transfer whose link still stands is neither cancelled nor open to parts.
THEOREM PublicationIsRemembered == Spec => []PublicationRemembered
<1>1. IInv => PublicationRemembered
  BY DEF IInv, Good, LinkInv, PublicationRemembered
<1> QED BY <1>1, SpecIInv, PTL

\* A confirmed completion is never taken back.
THEOREM CompletionStands == Spec => []ConfirmedCompletionStands
<1>1. IInv => ConfirmedCompletionStands
  BY DEF IInv, Good, ReplyInv, ConfirmedCompletionStands
<1> QED BY <1>1, SpecIInv, PTL

\* Only the link and the users change the user's directory.
LEMMA OnlyLinkChangesFiles ==
    ASSUME Next, file' # file
    PROVE  (\E u \in Upload : Link(u)) \/ (\E n \in Name : UserFile(n) \/ FolderReturns(n))
<1>1. ASSUME NEW u \in Upload, Request(u) PROVE file' = file
  BY <1>1 DEF Request, CreateBegin, PartRepeated, PartBegin, CompleteBegin, CompleteRepeated,
     CancelBegin, Enter, durable
<1>2. ASSUME NEW u \in Upload, Proceed(u), ~Link(u) PROVE file' = file
  <2>1. CASE CreateSave(u) \/ CreateFail(u) \/ (\E body \in Data : PartReceive(u, body))
             \/ PartRecord(u) \/ PartRecordFail(u)
    BY <2>1 DEF CreateSave, CreateFail, PartReceive, PartRecord, PartRecordFail
  <2>2. CASE PublishBegin(u) \/ OpenStage(u) \/ Assemble(u) \/ SealStage(u)
             \/ SyncDestination(u) \/ PublishError(u) \/ ResetStage(u) \/ Reactivate(u)
    BY <2>2 DEF PublishBegin, OpenStage, Assemble, SealStage, SyncDestination, PublishError,
       ResetStage, Reactivate, durable
  <2>3. CASE MarkCompleted(u) \/ CleanupCompleted(u) \/ RemoveStage(u) \/ AdoptDestination(u)
             \/ DiscardStage(u) \/ RefuseToReconcile(u) \/ Revive(u)
    BY <2>3 DEF MarkCompleted, CleanupCompleted, RemoveStage, AdoptDestination, DiscardStage,
       RefuseToReconcile, Revive, durable
  <2>4. CASE CancelSave(u) \/ CleanupCancelled(u) \/ ReapEntry(u) \/ ReapDirectory(u) \/ GiveUp(u)
    BY <2>4 DEF CancelSave, CleanupCancelled, ReapEntry, ReapDirectory, GiveUp, durable
  <2> QED BY <1>2, <2>1, <2>2, <2>3, <2>4 DEF Proceed
<1>3. ASSUME NEW u \in Upload, ReapBegin(u) \/ Recover(u) \/ Expire(u) PROVE file' = file
  BY <1>3 DEF ReapBegin, Recover, RecoverTerminal, RecoverUnfinished, RecoverRefuse, Expire, durable
<1>4. ASSUME Start \/ RecoverDone \/ Crash \/ \E n \in Name : FolderLeaves(n) PROVE file' = file
  BY <1>4 DEF Start, RecoverDone, Crash, FolderLeaves, durable
<1> QED BY <1>1, <1>2, <1>3, <1>4 DEF Next

\* The store only ever adds the whole promised file, under a free name.
THEOREM PublicationIsExact == Spec => PublishesExactly
<1>1. ASSUME IInv, Next, NEW n \in Name, file'[n] # file[n], ~UserFile(n), ~FolderReturns(n)
      PROVE  /\ file[n] = None
             /\ \E u \in Upload : /\ Target[u] = n /\ InState(u, "finalizing")
                                  /\ file'[n] = manifest[u].parts
                                  /\ DigestAgrees(u, file'[n])
  <2>1. ~ \E m \in Name : UserFile(m) \/ FolderReturns(m)
    <3>1. ASSUME NEW m \in Name, UserFile(m) \/ FolderReturns(m), m # n PROVE FALSE
      BY <1>1, <3>1 DEF UserFile, FolderReturns, IInv, TypeOK, DiskOK
    <3> QED BY <1>1, <3>1
  <2>2. PICK u \in Upload : Link(u)
    BY <1>1, <2>1, OnlyLinkChangesFiles
  <2>3. Target[u] = n /\ file[n] = None /\ file'[n] = stage[u]
    BY <1>1, <2>2, TargetAssumption DEF Link, IInv, TypeOK, DiskOK
  <2>4. /\ InState(u, "finalizing") /\ stage[u] = partFile[u] /\ DigestAgrees(u, partFile[u])
        /\ AllRecorded(u) /\ PartsVerified(u) /\ manifest[u] # None
    <3>1. pc[u] = "linking" /\ HandlerInv(u) /\ PartsInv(u) /\ TypeOK
      BY <1>1, <2>2 DEF Link, IInv, Good
    <3>2. InState(u, "finalizing") /\ stage[u] = partFile[u] /\ DigestAgrees(u, partFile[u])
      BY <2>2, <3>1 DEF HandlerInv, Link
    <3>3. AllRecorded(u) /\ PartsVerified(u) /\ manifest[u] # None
      BY <3>1, <3>2 DEF PartsInv, InState, Unfinished, Holding, Step
    <3> QED BY <3>2, <3>3
  <2>5. partFile[u] = manifest[u].parts
    <3>1. TypeOK
      BY <1>1 DEF IInv
    <3> QED BY <3>1, <2>4, WholeFile
  <2> QED BY <2>3, <2>4, <2>5
<1>2. IInv /\ [Next]_vars =>
        [\A n \in Name : file'[n] # file[n] =>
          \/ UserFile(n) \/ FolderReturns(n)
          \/ /\ file[n] = None
             /\ \E u \in Upload : /\ Target[u] = n /\ InState(u, "finalizing")
                                  /\ file'[n] = manifest[u].parts
                                  /\ DigestAgrees(u, file'[n])]_vars
  BY <1>1
<1> QED BY <1>2, SpecIInv, PTL DEF Spec, PublishesExactly

\* A manifest changes only in the hands of its own handler.
LEMMA ManifestMoves ==
    ASSUME IInv, Next, NEW v \in Upload, manifest'[v] # manifest[v]
    PROVE  Proceed(v)
<1>1. ASSUME NEW u \in Upload, Request(u) PROVE manifest' = manifest
  BY <1>1 DEF Request, CreateBegin, PartRepeated, PartBegin, CompleteBegin, CompleteRepeated,
     CancelBegin, Enter, durable
<1>2. ASSUME NEW u \in Upload, Proceed(u), u # v PROVE manifest'[v] = manifest[v]
  <2>1. CASE CreateSave(u) \/ CreateFail(u) \/ (\E body \in Data : PartReceive(u, body))
             \/ PartRecord(u) \/ PartRecordFail(u)
    BY <1>2, <2>1 DEF IInv, TypeOK, DiskOK, Saved, SaveFailed, CreateSave, CreateFail, PartReceive,
       PartRecord, PartRecordFail
  <2>2. CASE PublishBegin(u) \/ OpenStage(u) \/ Assemble(u) \/ SealStage(u) \/ Link(u)
             \/ SyncDestination(u) \/ PublishError(u) \/ ResetStage(u) \/ Reactivate(u)
    BY <1>2, <2>2 DEF IInv, TypeOK, DiskOK, Saved, SaveFailed, PublishBegin, OpenStage, Assemble,
       SealStage, Link, SyncDestination, PublishError, ResetStage, Reactivate, durable
  <2>3. CASE MarkCompleted(u) \/ CleanupCompleted(u) \/ RemoveStage(u) \/ AdoptDestination(u)
             \/ DiscardStage(u) \/ RefuseToReconcile(u) \/ Revive(u)
    BY <1>2, <2>3 DEF IInv, TypeOK, DiskOK, Saved, SaveFailed, MarkCompleted, CleanupCompleted,
       RemoveStage, AdoptDestination, DiscardStage, RefuseToReconcile, Revive, durable
  <2>4. CASE CancelSave(u) \/ CleanupCancelled(u) \/ ReapEntry(u) \/ ReapDirectory(u) \/ GiveUp(u)
    BY <1>2, <2>4 DEF IInv, TypeOK, DiskOK, Saved, SaveFailed, CancelSave, CleanupCancelled,
       ReapEntry, ReapDirectory, GiveUp, durable
  <2> QED BY <1>2, <2>1, <2>2, <2>3, <2>4 DEF Proceed
<1>3. ASSUME NEW u \in Upload, ReapBegin(u) \/ Recover(u) \/ Expire(u) PROVE manifest' = manifest
  BY <1>3 DEF ReapBegin, Recover, RecoverTerminal, RecoverUnfinished, RecoverRefuse, Expire, durable
<1>4. ASSUME Start \/ RecoverDone \/ Crash
             \/ \E n \in Name : UserFile(n) \/ FolderLeaves(n) \/ FolderReturns(n)
      PROVE  manifest' = manifest
  BY <1>4 DEF Start, RecoverDone, Crash, UserFile, FolderLeaves, FolderReturns, durable
<1> QED BY <1>1, <1>2, <1>3, <1>4 DEF Next

\* A completed or cancelled transfer keeps its manifest until it has expired.
THEOREM TerminalStays == Spec => TerminalIsFinal
<1>1. ASSUME IInv, Next, NEW u \in Upload, InState(u, "completed") \/ InState(u, "cancelled"),
             manifest'[u] # manifest[u]
      PROVE  manifest'[u] = None /\ stale[u]
  <2>1. Proceed(u)
    BY <1>1, ManifestMoves
  <2>2. HandlerInv(u) /\ PartsInv(u)
    BY <1>1 DEF IInv, Good
  <2>3. CASE CreateSave(u) \/ CreateFail(u) \/ (\E body \in Data : PartReceive(u, body))
             \/ PartRecord(u) \/ PartRecordFail(u)
    BY <1>1, <2>2, <2>3 DEF HandlerInv, InState, CreateSave, CreateFail, PartReceive,
       PartRecord, PartRecordFail
  <2>4. CASE PublishBegin(u) \/ OpenStage(u) \/ Assemble(u) \/ SealStage(u) \/ Link(u)
             \/ SyncDestination(u) \/ PublishError(u) \/ ResetStage(u) \/ Reactivate(u)
    BY <1>1, <2>2, <2>4 DEF HandlerInv, InState, PublishBegin, OpenStage, Assemble,
       SealStage, Link, SyncDestination, PublishError, ResetStage, Reactivate, durable
  <2>5. CASE MarkCompleted(u) \/ CleanupCompleted(u) \/ RemoveStage(u) \/ AdoptDestination(u)
             \/ DiscardStage(u) \/ RefuseToReconcile(u) \/ Revive(u)
    BY <1>1, <2>2, <2>5 DEF HandlerInv, InState, MarkCompleted, CleanupCompleted,
       RemoveStage, AdoptDestination, DiscardStage, RefuseToReconcile, Revive, durable
  <2>6. CASE CancelSave(u) \/ CleanupCancelled(u) \/ ReapDirectory(u) \/ GiveUp(u)
    BY <1>1, <2>2, <2>6 DEF HandlerInv, InState, CancelSave, CleanupCancelled, ReapDirectory,
       GiveUp, durable
  <2>7. CASE ReapEntry(u)
    BY <1>1, <2>2, <2>7 DEF PartsInv, ReapEntry, IInv, TypeOK, DiskOK
  <2> QED BY <2>1, <2>3, <2>4, <2>5, <2>6, <2>7 DEF Proceed
<1>2. IInv /\ [Next]_vars =>
        [\A u \in Upload : InState(u, "completed") \/ InState(u, "cancelled") =>
          manifest'[u] = manifest[u] \/ (manifest'[u] = None /\ stale[u])]_vars
  BY <1>1
<1> QED BY <1>2, SpecIInv, PTL DEF Spec, TerminalIsFinal

-----------------------------------------------------------------------------
(* The promise to the client.  A step of a transfer changes what the client *)
(* is promised in one way, or not at all.                                   *)

Elsewhere(u) == \A v \in Upload \ {u} :
    manifest'[v] = manifest[v] /\ pc'[v] = pc[v] /\ linked'[v] = linked[v]

LEMMA NothingPromised ==
    StatusOf(None) = "none" /\ DigestOf(None) = None /\ PartsOf(None) = NoParts
BY DEF StatusOf, DigestOf, PartsOf

\* What the client sees of one transfer, before a step and after it.
LEMMA PromisedNow ==
    ASSUME TypeOK, NEW u \in Upload
    PROVE  /\ promisedStatus[u] = StatusOf(manifest[u]) /\ promisedDigest[u] = DigestOf(manifest[u])
           /\ receivedParts[u] = PartsOf(manifest[u])
           /\ ownFile[u] = IF manifest[u] = None THEN FALSE ELSE linked[u]
           /\ seenThere[u] = IF pc[u] \in {"syncing", "marking"} THEN TRUE ELSE FALSE
<1>1. ownFile[u] = IF manifest[u] = None THEN FALSE ELSE linked[u]
  <2>1. linked[u] \in BOOLEAN
    BY DEF TypeOK, HistoryOK
  <2> QED BY <2>1 DEF ownFile
<1>2. seenThere[u] = IF pc[u] \in {"syncing", "marking"} THEN TRUE ELSE FALSE
  <2>1. seenThere[u] = (pc[u] \in {"syncing", "marking"})
    BY DEF seenThere
  <2>2. (pc[u] \in {"syncing", "marking"}) = TRUE \/ (pc[u] \in {"syncing", "marking"}) = FALSE
    OBVIOUS
  <2> QED BY <2>1, <2>2
<1> QED BY <1>1, <1>2 DEF promisedStatus, promisedDigest, receivedParts

LEMMA PromisedNext ==
    ASSUME TypeOK', NEW u \in Upload
    PROVE  /\ promisedStatus'[u] = StatusOf(manifest'[u]) /\ promisedDigest'[u] = DigestOf(manifest'[u])
           /\ receivedParts'[u] = PartsOf(manifest'[u])
           /\ ownFile'[u] = IF manifest'[u] = None THEN FALSE ELSE linked'[u]
           /\ seenThere'[u] = IF pc'[u] \in {"syncing", "marking"} THEN TRUE ELSE FALSE
<1>1. ownFile'[u] = IF manifest'[u] = None THEN FALSE ELSE linked'[u]
  <2>1. linked'[u] \in BOOLEAN
    BY DEF TypeOK, HistoryOK
  <2> QED BY <2>1 DEF ownFile
<1>2. seenThere'[u] = IF pc'[u] \in {"syncing", "marking"} THEN TRUE ELSE FALSE
  <2>1. seenThere'[u] = (pc'[u] \in {"syncing", "marking"})
    BY DEF seenThere
  <2>2. (pc'[u] \in {"syncing", "marking"}) = TRUE \/ (pc'[u] \in {"syncing", "marking"}) = FALSE
    OBVIOUS
  <2> QED BY <2>1, <2>2
<1> QED BY <1>1, <1>2 DEF promisedStatus, promisedDigest, receivedParts

LEMMA PromisedElsewhere ==
    ASSUME NEW u \in Upload, Elsewhere(u), NEW v \in Upload \ {u}
    PROVE  /\ promisedStatus'[v] = promisedStatus[v] /\ promisedDigest'[v] = promisedDigest[v]
           /\ receivedParts'[v] = receivedParts[v] /\ ownFile'[v] = ownFile[v]
           /\ seenThere'[v] = seenThere[v]
BY DEF Elsewhere, promisedStatus, promisedDigest, receivedParts, ownFile, seenThere

\* Functions of the transfers that differ in one place, or in none.
LEMMA Differ ==
    ASSUME NEW f, NEW g, f = [v \in Upload |-> f[v]], g = [v \in Upload |-> g[v]],
           NEW u \in Upload, \A v \in Upload \ {u} : g[v] = f[v]
    PROVE  /\ g = [f EXCEPT ![u] = g[u]]
           /\ g[u] = f[u] => g = f
OBVIOUS

LEMMA Constantly ==
    ASSUME NEW c, NEW f \in [Upload -> {c}]
    PROVE  f = [v \in Upload |-> c]
OBVIOUS

LEMMA PromisedAreFunctions ==
    /\ promisedStatus = [v \in Upload |-> promisedStatus[v]]
    /\ promisedDigest = [v \in Upload |-> promisedDigest[v]]
    /\ receivedParts = [v \in Upload |-> receivedParts[v]]
    /\ ownFile = [v \in Upload |-> ownFile[v]]
    /\ seenThere = [v \in Upload |-> seenThere[v]]
BY DEF promisedStatus, promisedDigest, receivedParts, ownFile, seenThere

LEMMA PromisedMoves ==
    ASSUME NEW u \in Upload, Elsewhere(u)
    PROVE  /\ promisedStatus' = [promisedStatus EXCEPT ![u] = promisedStatus'[u]]
           /\ promisedStatus'[u] = promisedStatus[u] => promisedStatus' = promisedStatus
           /\ promisedDigest' = [promisedDigest EXCEPT ![u] = promisedDigest'[u]]
           /\ promisedDigest'[u] = promisedDigest[u] => promisedDigest' = promisedDigest
           /\ receivedParts' = [receivedParts EXCEPT ![u] = receivedParts'[u]]
           /\ receivedParts'[u] = receivedParts[u] => receivedParts' = receivedParts
           /\ ownFile' = [ownFile EXCEPT ![u] = ownFile'[u]]
           /\ ownFile'[u] = ownFile[u] => ownFile' = ownFile
           /\ seenThere' = [seenThere EXCEPT ![u] = seenThere'[u]]
           /\ seenThere'[u] = seenThere[u] => seenThere' = seenThere
<1>1. /\ promisedStatus' = [v \in Upload |-> promisedStatus'[v]]
      /\ promisedDigest' = [v \in Upload |-> promisedDigest'[v]]
      /\ receivedParts' = [v \in Upload |-> receivedParts'[v]]
      /\ ownFile' = [v \in Upload |-> ownFile'[v]]
      /\ seenThere' = [v \in Upload |-> seenThere'[v]]
  BY DEF promisedStatus, promisedDigest, receivedParts, ownFile, seenThere
<1>2. promisedStatus' = [promisedStatus EXCEPT ![u] = promisedStatus'[u]]
      /\ (promisedStatus'[u] = promisedStatus[u] => promisedStatus' = promisedStatus)
  BY <1>1, PromisedElsewhere, PromisedAreFunctions, Differ
<1>3. promisedDigest' = [promisedDigest EXCEPT ![u] = promisedDigest'[u]]
      /\ (promisedDigest'[u] = promisedDigest[u] => promisedDigest' = promisedDigest)
  BY <1>1, PromisedElsewhere, PromisedAreFunctions, Differ
<1>4. receivedParts' = [receivedParts EXCEPT ![u] = receivedParts'[u]]
      /\ (receivedParts'[u] = receivedParts[u] => receivedParts' = receivedParts)
  BY <1>1, PromisedElsewhere, PromisedAreFunctions, Differ
<1>5. ownFile' = [ownFile EXCEPT ![u] = ownFile'[u]] /\ (ownFile'[u] = ownFile[u] => ownFile' = ownFile)
  BY <1>1, PromisedElsewhere, PromisedAreFunctions, Differ
<1>6. seenThere' = [seenThere EXCEPT ![u] = seenThere'[u]]
      /\ (seenThere'[u] = seenThere[u] => seenThere' = seenThere)
  BY <1>1, PromisedElsewhere, PromisedAreFunctions, Differ
<1> QED BY <1>2, <1>3, <1>4, <1>5, <1>6

LEMMA PromiseInit == Init => Promise!Init
<1> SUFFICES ASSUME Init PROVE Promise!Init
  OBVIOUS
<1>1. TypeOK
  BY InitInv DEF IInv
<1>2. \A u \in Upload : manifest[u] = None /\ pc[u] = "idle"
  BY DEF Init
<1>3. promisedStatus \in [Upload -> {"none"}] /\ promisedDigest \in [Upload -> {None}]
  BY <1>2, NothingPromised DEF promisedStatus, promisedDigest
<1>4. receivedParts \in [Upload -> {NoParts}]
  BY <1>2, NothingPromised DEF receivedParts
<1>5. ownFile = [u \in Upload |-> FALSE]
  <2>1. \A u \in Upload : (linked[u] /\ manifest[u] # None) = FALSE
    BY <1>2
  <2> QED BY <2>1, Zenon DEF ownFile
<1>6. seenThere = [u \in Upload |-> FALSE]
  <2>1. \A u \in Upload : (pc[u] \in {"syncing", "marking"}) = FALSE
    BY <1>2
  <2> QED BY <2>1, Zenon DEF seenThere
<1>7. /\ promisedStatus = [u \in Upload |-> "none"] /\ promisedDigest = [u \in Upload |-> None]
      /\ receivedParts = [u \in Upload |-> NoParts]
  BY <1>3, <1>4, Constantly
<1> QED BY <1>5, <1>6, <1>7 DEF Init, Promise!Init, Promise!NoParts, NoParts

\* A transfer steps and its client sees nothing of it.
Unseen(u) ==
    /\ Elsewhere(u) /\ file' = file /\ manifest'[u] = manifest[u]
    /\ linked'[u] = linked[u] \/ manifest[u] = None
    /\ pc'[u] \in {"syncing", "marking"} <=> pc[u] \in {"syncing", "marking"}

LEMMA UnseenStep ==
    ASSUME TypeOK, TypeOK', NEW u \in Upload, Unseen(u)
    PROVE  UNCHANGED Promise!vars
<1>1. Elsewhere(u) /\ file' = file
  BY DEF Unseen
<1>2. /\ promisedStatus'[u] = promisedStatus[u] /\ promisedDigest'[u] = promisedDigest[u]
      /\ receivedParts'[u] = receivedParts[u] /\ ownFile'[u] = ownFile[u]
      /\ seenThere'[u] = seenThere[u]
  BY DEF Unseen, promisedStatus, promisedDigest, receivedParts, ownFile, seenThere
<1> QED BY <1>1, <1>2, PromisedMoves DEF Promise!vars

\* A manifest is saved that promises the same.
LEMMA SamePromiseStep ==
    ASSUME TypeOK, TypeOK', NEW u \in Upload, Elsewhere(u), file' = file, linked'[u] = linked[u],
           Unfinished(u), Unfinished(u)',
           manifest'[u].parts = manifest[u].parts, manifest'[u].expected = manifest[u].expected,
           pc[u] \notin {"syncing", "marking"}, pc'[u] \notin {"syncing", "marking"}
    PROVE  UNCHANGED Promise!vars
<1>1. /\ promisedStatus'[u] = "active" /\ promisedStatus[u] = "active"
      /\ promisedDigest'[u] = promisedDigest[u] /\ receivedParts'[u] = receivedParts[u]
      /\ ownFile'[u] = ownFile[u] /\ seenThere'[u] = seenThere[u]
  BY PromisedNow, PromisedNext DEF StatusOf, DigestOf, PartsOf, InState, Unfinished
<1> QED BY <1>1, PromisedMoves DEF Promise!vars

LEMMA RequestUnseen ==
    ASSUME IInv, NEW u \in Upload, Request(u)
    PROVE  Unseen(u)
<1>1. TypeOK /\ HandlerInv(u)
  BY DEF IInv, Good
<1>2. CASE CreateBegin(u)
  <2>1. pc'[u] = "creating" /\ \A v \in Upload \ {u} : pc'[v] = pc[v]
    BY <1>1, <1>2, GotoMoves DEF CreateBegin, TypeOK, Step
  <2>2. pc[u] = "idle" /\ manifest[u] = None
    BY <1>1, <1>2 DEF CreateBegin, HandlerInv
  <2>3. manifest' = manifest /\ file' = file /\ \A v \in Upload \ {u} : linked'[v] = linked[v]
    BY <1>1, <1>2 DEF CreateBegin, TypeOK, HistoryOK
  <2> QED BY <2>1, <2>2, <2>3 DEF Unseen, Elsewhere
<1>3. CASE \E p \in Part : PartRepeated(u, p)
  BY <1>3 DEF PartRepeated, durable, volatile, Unseen, Elsewhere
<1>4. ASSUME NEW p \in Part, NEW d \in Data, PartBegin(u, p, d) PROVE Unseen(u)
  BY <1>1, <1>4 DEF PartBegin, Ready, history, TypeOK, ProcessOK, Unseen, Elsewhere
<1>5. CASE CompleteBegin(u) \/ CancelBegin(u)
  <2>1. /\ manifest' = manifest /\ file' = file /\ linked' = linked /\ pc[u] = "idle"
        /\ pc' = [pc EXCEPT ![u] = pc'[u]] /\ pc'[u] \in {"recovering", "publishing", "cancelling"}
    BY <1>1, <1>5 DEF CompleteBegin, CancelBegin, Enter, Ready, durable, history, TypeOK, ProcessOK
  <2> QED BY <1>1, <2>1 DEF Unseen, Elsewhere, TypeOK, ProcessOK
<1>6. CASE CompleteRepeated(u)
  BY <1>6 DEF CompleteRepeated, durable, volatile, Unseen, Elsewhere
<1> QED BY <1>2, <1>3, <1>4, <1>5, <1>6 DEF Request

\* Steps of a handler that save no manifest, and leave the name alone.
Working(u) ==
    \/ \E body \in Data : PartReceive(u, body)
    \/ OpenStage(u) \/ Assemble(u) \/ SyncDestination(u) \/ PublishError(u) \/ ResetStage(u)
    \/ CleanupCompleted(u) \/ RemoveStage(u) \/ DiscardStage(u) \/ RefuseToReconcile(u)
    \/ CleanupCancelled(u) \/ ReapDirectory(u)

LEMMA WorkingUnseen ==
    ASSUME IInv, NEW u \in Upload, Working(u)
    PROVE  Unseen(u)
<1>1. TypeOK
  BY DEF IInv
<1>2. file' = file /\ manifest' = manifest /\ linked' = linked
  BY DEF Working, PartReceive, OpenStage, Assemble, SyncDestination, PublishError, ResetStage,
     CleanupCompleted, RemoveStage, DiscardStage, RefuseToReconcile, CleanupCancelled,
     ReapDirectory, durable, history
<1>3. \/ \E s \in Step : Goto(u, s) /\ (s \in {"syncing", "marking"} <=> pc[u] \in {"syncing", "marking"})
      \/ (Return(u) \/ Fail(u) \/ Refuse(u)) /\ pc[u] \notin {"syncing", "marking"}
  BY DEF Working, PartReceive, OpenStage, Assemble, SyncDestination, PublishError, ResetStage,
     CleanupCompleted, RemoveStage, DiscardStage, RefuseToReconcile, CleanupCancelled,
     ReapDirectory, Step
<1>4. /\ \A v \in Upload \ {u} : pc'[v] = pc[v]
      /\ pc'[u] \in {"syncing", "marking"} <=> pc[u] \in {"syncing", "marking"}
  <2>1. CASE (Return(u) \/ Fail(u) \/ Refuse(u)) /\ pc[u] \notin {"syncing", "marking"}
    BY <1>1, <2>1, ReturnMoves DEF TypeOK
  <2>2. ASSUME NEW s \in Step, Goto(u, s), s \in {"syncing", "marking"} <=> pc[u] \in {"syncing", "marking"}
        PROVE  <1>4!1
    BY <1>1, <2>2, GotoMoves DEF TypeOK
  <2> QED BY <1>1, <1>3, <2>1, <2>2, GotoMoves DEF TypeOK
<1> QED BY <1>2, <1>4 DEF Unseen, Elsewhere

\* The fate of a save in the hands of a handler, whatever becomes of the handler.
Saves(u, m) ==
    /\ manifest' = [manifest EXCEPT ![u] = m] \/ manifest' = manifest
    /\ file' = file /\ linked' = linked
    /\ \A v \in Upload \ {u} : pc'[v] = pc[v]

LEMMA SavesElsewhere ==
    ASSUME IInv, NEW u \in Upload, NEW m, Saves(u, m)
    PROVE  Elsewhere(u) /\ (manifest'[u] = m \/ manifest'[u] = manifest[u])
BY DEF IInv, TypeOK, DiskOK, Saves, Elsewhere

\* Unfinished transfers change between active and finalizing unseen.
LEMMA PublishingUnseen ==
    ASSUME IInv, TypeOK', NEW u \in Upload,
           PublishBegin(u) \/ SealStage(u) \/ Reactivate(u) \/ Revive(u)
    PROVE  UNCHANGED Promise!vars
<1>1. TypeOK /\ HandlerInv(u) /\ PartsInv(u)
  BY DEF IInv, Good
<1>2. Unfinished(u) /\ manifest[u] # None /\ pc[u] \notin {"syncing", "marking"}
  BY <1>1 DEF PublishBegin, SealStage, Reactivate, Revive, HandlerInv, Unfinished, InState
<1>3. pc'[u] \notin {"syncing", "marking"} /\ \A v \in Upload \ {u} : pc'[v] = pc[v]
  <2>1. \/ \E s \in Step \ {"syncing", "marking"} : Goto(u, s)
        \/ Return(u) \/ Fail(u)
    BY DEF PublishBegin, SealStage, Reactivate, Revive, Step
  <2> QED BY <1>1, <2>1, GotoMoves, ReturnMoves DEF TypeOK
<1>4. \/ Saves(u, Finalizing(u)) \/ Saves(u, Reactivated(u))
      \/ Saves(u, Sealed(u)) /\ pc[u] = "sealing"
  <2>1. file' = file /\ linked' = linked
    BY DEF PublishBegin, SealStage, Reactivate, Revive, history
  <2>2. CASE PublishBegin(u)
    BY <1>3, <2>1, <2>2 DEF PublishBegin, Saved, SaveFailed, Saves
  <2>3. CASE SealStage(u)
    BY <1>3, <2>1, <2>3 DEF SealStage, Saved, Saves
  <2>4. CASE Reactivate(u) \/ Revive(u)
    BY <1>3, <2>1, <2>4 DEF Reactivate, Revive, Saved, SaveFailed, Saves
  <2> QED BY <2>2, <2>3, <2>4
<1>5. PICK m : /\ Saves(u, m)
               /\ m \in {Finalizing(u), Reactivated(u)} \/ (m = Sealed(u) /\ pc[u] = "sealing")
  BY <1>4
<1>6. CASE manifest'[u] = manifest[u]
  BY <1>1, <1>2, <1>3, <1>5, <1>6, SavesElsewhere, SamePromiseStep DEF Saves, Unfinished
<1>7. CASE manifest'[u] = m
  <2>1. pc[u] = "sealing" => partFile[u] \in Assembled
    <3>1. pc[u] = "sealing" => PartsVerified(u) /\ AllRecorded(u)
      BY <1>1, <1>2 DEF HandlerInv, PartsInv, Holding, Step
    <3> QED BY <1>1, <1>2, <1>5, <3>1, WholeFile
  <2>2. /\ m # None /\ m.state \in {"active", "finalizing"}
        /\ m.parts = manifest[u].parts /\ m.expected = manifest[u].expected
    BY <1>1, <1>2, <1>5, <2>1, FinalizingIs, SealedIs, ReactivatedIs
  <2> QED BY <1>1, <1>2, <1>3, <1>5, <1>7, <2>2, SavesElsewhere, SamePromiseStep
          DEF Saves, Unfinished
<1> QED BY <1>5, <1>6, <1>7, SavesElsewhere

LEMMA CreateSeen ==
    ASSUME IInv, TypeOK', NEW u \in Upload, CreateSave(u) \/ CreateFail(u)
    PROVE  (\E e \in Announced : Promise!Create(u, e)) \/ UNCHANGED Promise!vars
<1>1. TypeOK /\ HandlerInv(u) /\ LinkInv(u)
  BY DEF IInv, Good
<1>2. pc[u] = "creating" /\ manifest[u] = None /\ linked[u] = FALSE
  BY <1>1 DEF CreateSave, CreateFail, HandlerInv, LinkInv, TypeOK, HistoryOK
<1>3. pc'[u] = "idle" /\ \A v \in Upload \ {u} : pc'[v] = pc[v]
  BY <1>1, ReturnMoves DEF CreateSave, CreateFail, TypeOK
<1>4. /\ file' = file /\ linked' = linked
      /\ \/ manifest' = manifest
         \/ \E e \in Announced : manifest' = [manifest EXCEPT ![u] = NewManifest(e)]
  BY DEF CreateSave, CreateFail, Saved, SaveFailed, history
<1>5. CASE manifest' = manifest
  BY <1>1, <1>2, <1>3, <1>4, <1>5, UnseenStep DEF Unseen, Elsewhere
<1>6. ASSUME NEW e \in Announced, manifest' = [manifest EXCEPT ![u] = NewManifest(e)]
      PROVE  Promise!Create(u, e)
  <2>1. Elsewhere(u)
    BY <1>1, <1>3, <1>4, <1>6 DEF Elsewhere, TypeOK, DiskOK
  <2>2. manifest'[u] = NewManifest(e) /\ linked'[u] = FALSE
    BY <1>1, <1>2, <1>4, <1>6 DEF TypeOK, DiskOK
  <2>3. /\ NewManifest(e) # None /\ NewManifest(e).state = "active"
        /\ NewManifest(e).parts = NoParts /\ NewManifest(e).expected = e
    BY NewManifestIs, NoPartsIs, RecordIs DEF NewManifest
  <2>4. promisedStatus[u] = "none" /\ receivedParts[u] = NoParts /\ ownFile[u] = FALSE /\ seenThere[u] = FALSE
    BY <1>1, <1>2, PromisedNow, NothingPromised
  <2>5. /\ promisedStatus'[u] = "active" /\ receivedParts'[u] = NoParts /\ promisedDigest'[u] = e
        /\ ownFile'[u] = FALSE /\ seenThere'[u] = FALSE
    BY <1>3, <2>2, <2>3, PromisedNext DEF StatusOf, DigestOf, PartsOf
  <2>6. receivedParts' = receivedParts /\ ownFile' = ownFile /\ seenThere' = seenThere
    BY <2>1, <2>4, <2>5, PromisedMoves
  <2>7. /\ promisedStatus' = [promisedStatus EXCEPT ![u] = "active"]
        /\ promisedDigest' = [promisedDigest EXCEPT ![u] = e]
    BY <2>1, <2>5, PromisedMoves
  <2> QED BY <1>4, <2>4, <2>6, <2>7 DEF Promise!Create
<1> QED BY <1>4, <1>5, <1>6

\* A recorded part is accepted, unless the save that failed left no trace.
LEMMA PartSeen ==
    ASSUME IInv, TypeOK', NEW u \in Upload, PartRecord(u) \/ PartRecordFail(u)
    PROVE  (\E p \in Part, d \in Data : Promise!Accept(u, p, d)) \/ UNCHANGED Promise!vars
<1>1. TypeOK /\ HandlerInv(u)
  BY DEF IInv, Good
<1>2. /\ pc[u] = "recording" /\ InState(u, "active") /\ manifest[u] # None
      /\ arg[u].part \in Part /\ arg[u].digest \in Data
      /\ manifest[u].parts[arg[u].part] = None
  BY <1>1 DEF PartRecord, PartRecordFail, HandlerInv, InState
<1>3. pc'[u] = "idle" /\ \A v \in Upload \ {u} : pc'[v] = pc[v]
  BY <1>1, ReturnMoves DEF PartRecord, PartRecordFail, TypeOK
<1>4. /\ Saves(u, WithPart(u)) /\ file' = file /\ linked' = linked
      /\ manifest' = manifest \/ manifest' = [manifest EXCEPT ![u] = WithPart(u)]
  BY <1>3 DEF PartRecord, PartRecordFail, Saved, SaveFailed, history, Saves
<1>5. CASE manifest' = manifest
  BY <1>1, <1>2, <1>3, <1>4, <1>5, UnseenStep, SavesElsewhere DEF Unseen
<1>6. CASE manifest' = [manifest EXCEPT ![u] = WithPart(u)]
  <2>1. Elsewhere(u) /\ manifest'[u] = WithPart(u) /\ linked'[u] = linked[u]
    BY <1>1, <1>4, <1>6, SavesElsewhere DEF TypeOK, DiskOK
  <2>2. WithPart(u).parts = [manifest[u].parts EXCEPT ![arg[u].part] = arg[u].digest]
    BY <1>1, <1>2, ManifestIs, RecordIs DEF WithPart
  <2>3. /\ WithPart(u) # None /\ WithPart(u).state = "active"
        /\ WithPart(u).expected = manifest[u].expected
    BY <1>1, <1>2, WithPartIs
  <2>4. /\ promisedStatus[u] = "active" /\ promisedDigest[u] = manifest[u].expected
        /\ receivedParts[u] = manifest[u].parts /\ seenThere[u] = FALSE
        /\ ownFile[u] = linked[u]
    BY <1>1, <1>2, PromisedNow DEF StatusOf, DigestOf, PartsOf, InState
  <2>5. /\ promisedStatus'[u] = "active" /\ promisedDigest'[u] = manifest[u].expected
        /\ receivedParts'[u] = WithPart(u).parts /\ seenThere'[u] = FALSE
        /\ ownFile'[u] = linked[u]
    BY <1>3, <2>1, <2>3, PromisedNext DEF StatusOf, DigestOf, PartsOf
  <2>6. /\ promisedStatus' = promisedStatus /\ promisedDigest' = promisedDigest
        /\ ownFile' = ownFile /\ seenThere' = seenThere
        /\ receivedParts' = [receivedParts EXCEPT ![u] = receivedParts'[u]]
    BY <2>1, <2>4, <2>5, PromisedMoves
  <2>7. receivedParts' = [receivedParts EXCEPT ![u][arg[u].part] = arg[u].digest]
    BY <2>2, <2>4, <2>5, <2>6
  <2>8. Promise!Accept(u, arg[u].part, arg[u].digest)
    BY <1>2, <1>4, <2>4, <2>6, <2>7 DEF Promise!Accept
  <2> QED BY <1>2, <2>8
<1> QED BY <1>4, <1>5, <1>6

\* A finalizing transfer whose parts are all there is promised whole.
LEMMA WholeSeen ==
    ASSUME TypeOK, NEW u \in Upload, InState(u, "finalizing"), AllRecorded(u), PartsVerified(u),
           DigestAgrees(u, partFile[u])
    PROVE  /\ promisedStatus[u] = "active" /\ receivedParts[u] = partFile[u]
           /\ Promise!Whole(u)
<1>1. manifest[u] # None /\ partFile[u] = manifest[u].parts
  BY WholeFile DEF InState
<1>2. /\ promisedStatus[u] = "active" /\ promisedDigest[u] = manifest[u].expected
      /\ receivedParts[u] = manifest[u].parts
  BY <1>1, PromisedNow DEF StatusOf, DigestOf, PartsOf, InState
<1> QED BY <1>1, <1>2 DEF Promise!Whole, AllRecorded, DigestAgrees

LEMMA LinkSeen ==
    ASSUME IInv, TypeOK', NEW u \in Upload, Link(u)
    PROVE  Promise!Publish(u)
<1>1. TypeOK /\ HandlerInv(u) /\ PartsInv(u)
  BY DEF IInv, Good
<1>2. /\ pc[u] = "linking" /\ InState(u, "finalizing") /\ manifest[u] # None
      /\ stage[u] = partFile[u] /\ DigestAgrees(u, partFile[u])
      /\ AllRecorded(u) /\ PartsVerified(u)
  BY <1>1 DEF Link, HandlerInv, PartsInv, InState, Unfinished, Holding, Step
<1>3. /\ promisedStatus[u] = "active" /\ receivedParts[u] = partFile[u] /\ Promise!Whole(u)
  BY <1>1, <1>2, WholeSeen
<1>4. pc'[u] = "syncing" /\ \A v \in Upload \ {u} : pc'[v] = pc[v]
  BY <1>1, GotoMoves DEF Link, TypeOK, Step
<1>5. /\ manifest' = manifest /\ linked'[u] = TRUE /\ Elsewhere(u)
  BY <1>1, <1>4 DEF Link, Elsewhere, TypeOK, HistoryOK
<1>6. ownFile'[u] = TRUE /\ seenThere'[u] = TRUE
  BY <1>2, <1>4, <1>5, PromisedNext
<1>7. /\ promisedStatus'[u] = promisedStatus[u] /\ promisedDigest'[u] = promisedDigest[u]
      /\ receivedParts'[u] = receivedParts[u]
  BY <1>1, <1>5, PromisedNow, PromisedNext
<1>8. /\ promisedStatus' = promisedStatus /\ promisedDigest' = promisedDigest
      /\ receivedParts' = receivedParts
      /\ ownFile' = [ownFile EXCEPT ![u] = TRUE] /\ seenThere' = [seenThere EXCEPT ![u] = TRUE]
  BY <1>5, <1>6, <1>7, PromisedMoves
<1> QED BY <1>2, <1>3, <1>8 DEF Link, Promise!Publish

LEMMA AdoptSeen ==
    ASSUME IInv, TypeOK', NEW u \in Upload, AdoptDestination(u)
    PROVE  Promise!Observe(u)
<1>1. TypeOK /\ HandlerInv(u)
  BY DEF IInv, Good
<1>2. /\ InState(u, "finalizing") /\ AllRecorded(u) /\ PartsVerified(u)
      /\ DigestAgrees(u, partFile[u]) /\ file[Target[u]] = partFile[u]
  BY <1>1 DEF AdoptDestination, HandlerInv, Reconcilable
<1>3. /\ promisedStatus[u] = "active" /\ receivedParts[u] = partFile[u] /\ Promise!Whole(u)
  BY <1>1, <1>2, WholeSeen
<1>4. pc'[u] = "marking" /\ \A v \in Upload \ {u} : pc'[v] = pc[v]
  BY <1>1, GotoMoves DEF AdoptDestination, TypeOK, Step
<1>5. manifest' = manifest /\ linked' = linked /\ file' = file /\ Elsewhere(u)
  BY <1>4 DEF AdoptDestination, Elsewhere, durable, history
<1>6. /\ promisedStatus'[u] = promisedStatus[u] /\ promisedDigest'[u] = promisedDigest[u]
      /\ receivedParts'[u] = receivedParts[u] /\ ownFile'[u] = ownFile[u]
      /\ seenThere'[u] = TRUE
  BY <1>1, <1>4, <1>5, PromisedNow, PromisedNext
<1>7. /\ promisedStatus' = promisedStatus /\ promisedDigest' = promisedDigest
      /\ receivedParts' = receivedParts /\ ownFile' = ownFile
      /\ seenThere' = [seenThere EXCEPT ![u] = TRUE]
  BY <1>5, <1>6, PromisedMoves
<1> QED BY <1>2, <1>3, <1>5, <1>7 DEF Promise!Observe

\* The server forgets, for the transfers in lost, that it saw the file.
LEMMA ForgetSeen ==
    ASSUME TypeOK, TypeOK', NEW lost \in SUBSET Upload,
           manifest' = manifest, file' = file, linked' = linked,
           \A v \in Upload : pc'[v] \in {"syncing", "marking"} <=>
               pc[v] \in {"syncing", "marking"} /\ v \notin lost
    PROVE  Promise!Forget(lost)
<1>1. /\ promisedStatus' = promisedStatus /\ promisedDigest' = promisedDigest
      /\ receivedParts' = receivedParts /\ ownFile' = ownFile
  BY DEF promisedStatus, promisedDigest, receivedParts, ownFile
<1>2. \A v \in Upload : (pc'[v] \in {"syncing", "marking"}) = (seenThere[v] /\ v \notin lost)
  <2>1. ASSUME NEW v \in Upload
        PROVE  pc'[v] \in {"syncing", "marking"} <=> seenThere[v] /\ v \notin lost
    <3>1. seenThere[v] = (pc[v] \in {"syncing", "marking"})
      BY DEF seenThere
    <3> QED BY <3>1
  <2> QED BY <2>1
<1>3. seenThere' = [v \in Upload |-> seenThere[v] /\ v \notin lost]
  <2>1. seenThere' = [v \in Upload |-> pc'[v] \in {"syncing", "marking"}]
    BY DEF seenThere
  <2> QED BY <1>2, <2>1, Zenon
<1> QED BY <1>1, <1>3 DEF Promise!Forget

LEMMA MarkSeen ==
    ASSUME IInv, TypeOK', NEW u \in Upload, MarkCompleted(u)
    PROVE  Promise!Conclude(u) \/ Promise!Forget({u})
<1>1. TypeOK /\ HandlerInv(u) /\ PartsInv(u)
  BY DEF IInv, Good
<1>2. /\ pc[u] = "marking" /\ InState(u, "finalizing") /\ manifest[u] # None
      /\ AllRecorded(u) /\ PartsVerified(u)
  BY <1>1 DEF MarkCompleted, HandlerInv, PartsInv, InState, Unfinished, Holding, Step
<1>3. pc'[u] \in {"clearing", "idle"} /\ \A v \in Upload \ {u} : pc'[v] = pc[v]
  <2>1. Goto(u, "clearing") \/ Fail(u)
    BY DEF MarkCompleted
  <2> QED BY <1>1, <2>1, GotoMoves, ReturnMoves DEF TypeOK, Step
<1>4. /\ Saves(u, Completed(u)) /\ file' = file /\ linked' = linked
      /\ manifest' = manifest \/ manifest' = [manifest EXCEPT ![u] = Completed(u)]
  BY <1>3 DEF MarkCompleted, Saved, SaveFailed, history, Saves
<1>5. CASE manifest' = manifest
  BY <1>1, <1>2, <1>3, <1>4, <1>5, ForgetSeen
<1>6. CASE manifest' = [manifest EXCEPT ![u] = Completed(u)]
  <2>1. Elsewhere(u) /\ manifest'[u] = Completed(u) /\ linked'[u] = linked[u]
    BY <1>1, <1>4, <1>6, SavesElsewhere DEF TypeOK, DiskOK
  <2>2. partFile[u] = manifest[u].parts /\ partFile[u] \in Assembled
    BY <1>1, <1>2, WholeFile
  <2>3. /\ Completed(u) # None /\ Completed(u).state = "completed"
        /\ Completed(u).final = partFile[u] /\ Completed(u).expected = manifest[u].expected
    BY <1>1, <1>2, <2>2, CompletedIs
  <2>4. /\ promisedStatus[u] = "active" /\ promisedDigest[u] = manifest[u].expected
        /\ receivedParts[u] = manifest[u].parts /\ seenThere[u] = TRUE
        /\ ownFile[u] = linked[u]
    BY <1>1, <1>2, PromisedNow DEF StatusOf, DigestOf, PartsOf, InState
  <2>5. /\ promisedStatus'[u] = "completed" /\ promisedDigest'[u] = manifest[u].expected
        /\ receivedParts'[u] = manifest[u].parts /\ seenThere'[u] = FALSE
        /\ ownFile'[u] = linked[u]
    BY <1>3, <2>1, <2>2, <2>3, PromisedNext DEF StatusOf, DigestOf, PartsOf
  <2>6. /\ promisedStatus' = [promisedStatus EXCEPT ![u] = "completed"]
        /\ promisedDigest' = promisedDigest /\ receivedParts' = receivedParts
        /\ ownFile' = ownFile /\ seenThere' = [seenThere EXCEPT ![u] = FALSE]
    BY <2>1, <2>4, <2>5, PromisedMoves
  <2> QED BY <1>4, <2>4, <2>6 DEF Promise!Conclude
<1> QED BY <1>4, <1>5, <1>6

LEMMA CancelSeen ==
    ASSUME IInv, TypeOK', NEW u \in Upload, CancelSave(u)
    PROVE  Promise!Cancel(u) \/ UNCHANGED Promise!vars
<1>1. TypeOK /\ HandlerInv(u) /\ LinkInv(u)
  BY DEF IInv, Good
<1>2. /\ pc[u] = "cancelling" /\ InState(u, "active") /\ manifest[u] # None
      /\ linked[u] = FALSE
  BY <1>1 DEF CancelSave, HandlerInv, LinkInv, InState, TypeOK, HistoryOK
<1>3. pc'[u] \in {"emptying", "idle"} /\ \A v \in Upload \ {u} : pc'[v] = pc[v]
  <2>1. Goto(u, "emptying") \/ Fail(u)
    BY DEF CancelSave
  <2> QED BY <1>1, <2>1, GotoMoves, ReturnMoves DEF TypeOK, Step
<1>4. /\ Saves(u, Cancelled(u)) /\ file' = file /\ linked' = linked
      /\ manifest' = manifest \/ manifest' = [manifest EXCEPT ![u] = Cancelled(u)]
  BY <1>3 DEF CancelSave, Saved, SaveFailed, history, Saves
<1>5. CASE manifest' = manifest
  BY <1>1, <1>2, <1>3, <1>4, <1>5, UnseenStep, SavesElsewhere DEF Unseen
<1>6. CASE manifest' = [manifest EXCEPT ![u] = Cancelled(u)]
  <2>1. Elsewhere(u) /\ manifest'[u] = Cancelled(u) /\ linked'[u] = FALSE
    BY <1>1, <1>2, <1>4, <1>6, SavesElsewhere DEF TypeOK, DiskOK
  <2>2. /\ Cancelled(u) # None /\ Cancelled(u).state = "cancelled"
        /\ Cancelled(u).parts = manifest[u].parts /\ Cancelled(u).expected = manifest[u].expected
    BY <1>1, <1>2, CancelledIs
  <2>3. /\ promisedStatus[u] = "active" /\ promisedDigest[u] = manifest[u].expected
        /\ receivedParts[u] = manifest[u].parts /\ seenThere[u] = FALSE /\ ownFile[u] = FALSE
    BY <1>1, <1>2, PromisedNow DEF StatusOf, DigestOf, PartsOf, InState
  <2>4. /\ promisedStatus'[u] = "cancelled" /\ promisedDigest'[u] = manifest[u].expected
        /\ receivedParts'[u] = manifest[u].parts /\ seenThere'[u] = FALSE /\ ownFile'[u] = FALSE
    BY <1>3, <2>1, <2>2, PromisedNext DEF StatusOf, DigestOf, PartsOf
  <2>5. /\ promisedStatus' = [promisedStatus EXCEPT ![u] = "cancelled"]
        /\ promisedDigest' = promisedDigest /\ receivedParts' = receivedParts
        /\ ownFile' = ownFile /\ seenThere' = seenThere
    BY <2>1, <2>3, <2>4, PromisedMoves
  <2> QED BY <1>4, <2>3, <2>5 DEF Promise!Cancel
<1> QED BY <1>4, <1>5, <1>6

LEMMA ReapSeen ==
    ASSUME IInv, TypeOK', NEW u \in Upload, ReapEntry(u)
    PROVE  Promise!Drop(u) \/ UNCHANGED Promise!vars
<1>1. TypeOK
  BY DEF IInv
<1>2. /\ pc[u] = "reaping" /\ pc' = pc /\ file' = file /\ linked' = linked
      /\ manifest' = manifest \/ manifest' = [manifest EXCEPT ![u] = None]
  BY DEF ReapEntry, volatile, history
<1>3. Elsewhere(u) /\ (manifest'[u] = None \/ manifest'[u] = manifest[u])
  BY <1>1, <1>2 DEF Elsewhere, TypeOK, DiskOK
<1>4. CASE manifest'[u] = manifest[u]
  BY <1>1, <1>2, <1>3, <1>4, UnseenStep DEF Unseen
<1>5. CASE manifest'[u] = None /\ manifest[u] # None
  <2>1. /\ promisedStatus[u] # "none" /\ seenThere[u] = FALSE
    BY <1>1, <1>2, <1>5, PromisedNow, ManifestIs DEF StatusOf
  <2>2. /\ promisedStatus'[u] = "none" /\ promisedDigest'[u] = None
        /\ receivedParts'[u] = NoParts /\ ownFile'[u] = FALSE /\ seenThere'[u] = FALSE
    BY <1>2, <1>5, PromisedNext, NothingPromised
  <2>3. /\ promisedStatus' = [promisedStatus EXCEPT ![u] = "none"]
        /\ promisedDigest' = [promisedDigest EXCEPT ![u] = None]
        /\ receivedParts' = [receivedParts EXCEPT ![u] = NoParts]
        /\ ownFile' = [ownFile EXCEPT ![u] = FALSE] /\ seenThere' = seenThere
    BY <1>3, <2>1, <2>2, PromisedMoves
  <2> QED BY <1>2, <2>1, <2>3 DEF Promise!Drop, Promise!NoParts, NoParts
<1> QED BY <1>3, <1>4, <1>5

LEMMA GiveUpSeen ==
    ASSUME IInv, TypeOK', NEW u \in Upload, GiveUp(u)
    PROVE  Promise!Forget({u})
<1>1. TypeOK
  BY DEF IInv
<1>2. pc'[u] = "idle" /\ \A v \in Upload \ {u} : pc'[v] = pc[v]
  BY <1>1, ReturnMoves DEF GiveUp, TypeOK
<1>3. manifest' = manifest /\ file' = file /\ linked' = linked
  BY DEF GiveUp, durable, history
<1> QED BY <1>1, <1>2, <1>3, ForgetSeen

LEMMA CrashSeen ==
    ASSUME IInv, TypeOK', Crash
    PROVE  Promise!Forget(Upload)
<1>1. manifest' = manifest /\ file' = file /\ linked' = linked
  BY DEF Crash, durable, history
<1>2. \A v \in Upload : pc'[v] = "idle"
  BY DEF Crash
<1> QED BY <1>1, <1>2, ForgetSeen DEF IInv

LEMMA UserSeen ==
    ASSUME IInv, TypeOK', NEW n \in Name, UserFile(n)
    PROVE  Promise!UserFile(n)
<1>1. /\ manifest' = manifest /\ pc' = pc
      /\ linked' = [u \in Upload |-> linked[u] /\ Target[u] # n]
      /\ \E c \in UserContent \cup {None} : file' = [file EXCEPT ![n] = c]
  BY DEF UserFile, volatile
<1>2. /\ promisedStatus' = promisedStatus /\ promisedDigest' = promisedDigest
      /\ receivedParts' = receivedParts /\ seenThere' = seenThere
  BY <1>1 DEF promisedStatus, promisedDigest, receivedParts, seenThere
<1>3. \A u \in Upload : (linked'[u] /\ manifest'[u] # None) = (ownFile[u] /\ Target[u] # n)
  BY <1>1 DEF ownFile
<1>4. ownFile' = [u \in Upload |-> ownFile[u] /\ Target[u] # n]
  <2>1. ownFile' = [u \in Upload |-> linked'[u] /\ manifest'[u] # None]
    BY DEF ownFile
  <2> QED BY <1>3, <2>1, Zenon
<1> QED BY <1>1, <1>2, <1>4 DEF Promise!UserFile

\* The folder comes back as it was, or without the file.
LEMMA FolderSeen ==
    ASSUME IInv, TypeOK', NEW n \in Name, FolderReturns(n)
    PROVE  Promise!UserFile(n) \/ UNCHANGED Promise!vars
<1>1. manifest' = manifest /\ pc' = pc
  BY DEF FolderReturns, volatile
<1>2. /\ promisedStatus' = promisedStatus /\ promisedDigest' = promisedDigest
      /\ receivedParts' = receivedParts /\ seenThere' = seenThere
  BY <1>1 DEF promisedStatus, promisedDigest, receivedParts, seenThere
<1>3. CASE UNCHANGED <<file, linked>>
  BY <1>1, <1>2, <1>3 DEF ownFile, Promise!vars
<1>4. CASE /\ file' = [file EXCEPT ![n] = None]
           /\ linked' = [u \in Upload |-> linked[u] /\ Target[u] # n]
  <2>1. \A u \in Upload : (linked'[u] /\ manifest'[u] # None) = (ownFile[u] /\ Target[u] # n)
    BY <1>1, <1>4 DEF ownFile
  <2>2. ownFile' = [u \in Upload |-> linked'[u] /\ manifest'[u] # None]
    BY DEF ownFile
  <2>3. ownFile' = [u \in Upload |-> ownFile[u] /\ Target[u] # n]
    BY <2>1, <2>2, Zenon
  <2> QED BY <1>2, <1>4, <2>3 DEF Promise!UserFile
<1> QED BY <1>3, <1>4 DEF FolderReturns

\* What the client cannot see: the reaper's choice, start-up, the clock.
LEMMA BackgroundUnseen ==
    ASSUME IInv, NEW u \in Upload, ReapBegin(u) \/ Recover(u) \/ Expire(u)
    PROVE  Unseen(u)
<1>1. TypeOK
  BY DEF IInv
<1>2. manifest' = manifest /\ file' = file /\ linked' = linked
  BY DEF ReapBegin, Recover, RecoverTerminal, RecoverUnfinished, RecoverRefuse, Expire,
     durable, volatile, history
<1>3. \/ pc' = pc
      \/ pc[u] = "idle" /\ pc' = [pc EXCEPT ![u] = "reaping"]
      \/ pc[u] = "idle" /\ pc' = [pc EXCEPT ![u] = "recovering"]
  BY DEF ReapBegin, Recover, RecoverTerminal, RecoverUnfinished, RecoverRefuse, Recovering,
     Expire, durable, volatile
<1>4. /\ \A v \in Upload \ {u} : pc'[v] = pc[v]
      /\ pc'[u] \in {"syncing", "marking"} <=> pc[u] \in {"syncing", "marking"}
  BY <1>1, <1>3 DEF TypeOK, ProcessOK
<1> QED BY <1>2, <1>4 DEF Unseen, Elsewhere

LEMMA PromiseStep == IInv /\ IInv' /\ [Next]_vars => [Promise!Next]_(Promise!vars)
<1> SUFFICES ASSUME IInv, IInv', [Next]_vars PROVE [Promise!Next]_(Promise!vars)
  OBVIOUS
<1>1. TypeOK /\ TypeOK'
  BY DEF IInv
<1>2. CASE UNCHANGED vars
  BY <1>2 DEF vars, durable, volatile, history, Promise!vars, promisedStatus, promisedDigest,
     receivedParts, ownFile, seenThere
<1>3. ASSUME NEW u \in Upload, Request(u) \/ ReapBegin(u) \/ Recover(u) \/ Expire(u)
      PROVE  UNCHANGED Promise!vars
  BY <1>1, <1>3, RequestUnseen, BackgroundUnseen, UnseenStep
<1>4. ASSUME NEW u \in Upload, Proceed(u)
      PROVE  [Promise!Next]_(Promise!vars)
  <2>1. CASE CreateSave(u) \/ CreateFail(u)
    BY <1>1, <2>1, CreateSeen DEF Promise!Next
  <2>2. CASE PartRecord(u) \/ PartRecordFail(u)
    BY <1>1, <2>2, PartSeen DEF Promise!Next
  <2>3. CASE PublishBegin(u) \/ SealStage(u) \/ Reactivate(u) \/ Revive(u)
    BY <1>1, <2>3, PublishingUnseen
  <2>4. CASE Link(u)
    BY <1>1, <2>4, LinkSeen DEF Promise!Next
  <2>5. CASE MarkCompleted(u)
    BY <1>1, <2>5, MarkSeen DEF Promise!Next
  <2>6. CASE AdoptDestination(u)
    BY <1>1, <2>6, AdoptSeen DEF Promise!Next
  <2>7. CASE CancelSave(u)
    BY <1>1, <2>7, CancelSeen DEF Promise!Next
  <2>8. CASE ReapEntry(u)
    BY <1>1, <2>8, ReapSeen DEF Promise!Next
  <2>9. CASE GiveUp(u)
    BY <1>1, <2>9, GiveUpSeen DEF Promise!Next
  <2>10. CASE Working(u)
    BY <1>1, <2>10, WorkingUnseen, UnseenStep
  <2> QED BY <1>4, <2>1, <2>2, <2>3, <2>4, <2>5, <2>6, <2>7, <2>8, <2>9, <2>10
          DEF Proceed, Working
<1>5. CASE Start \/ RecoverDone \/ \E n \in Name : FolderLeaves(n)
  BY <1>5 DEF Start, RecoverDone, FolderLeaves, durable, volatile, history, Promise!vars, promisedStatus,
     promisedDigest, receivedParts, ownFile, seenThere
<1>6. CASE Crash
  BY <1>1, <1>6, CrashSeen DEF Promise!Next
<1>7. ASSUME NEW n \in Name, UserFile(n) \/ FolderReturns(n) PROVE [Promise!Next]_(Promise!vars)
  BY <1>1, <1>7, UserSeen, FolderSeen DEF Promise!Next
<1> QED BY <1>2, <1>3, <1>4, <1>5, <1>6, <1>7 DEF Next

\* The detailed transfer implements the promise: for any transfers, parts and
\* names, whatever fails and whenever the process dies, a client sees parts
\* accepted once, a whole file published under a free name, a completion only
\* after the file was seen there, and no cancellation of a published file.
THEOREM PromiseIsKept == Spec => KeepsPromise
BY SpecIInv, PromiseInit, PromiseStep, PTL DEF Spec, KeepsPromise, Promise!Spec

-----------------------------------------------------------------------------
(* Start-up: whom recovery works for, and when it may give up.              *)

RecoverStep == {"recovering", "marking", "clearing", "unstaging", "discarding", "reviving", "reaping"}

\* Recovery visits directories that exist, one transfer at a time, and reaps
\* when it has visited all; nobody else is at work until the server is up.
StartInv ==
    /\ server # "recovering" => todo = {}
    /\ \A u \in todo : dir[u]
    /\ server \in {"down", "refused"} => \A u \in Upload : pc[u] = "idle"
    /\ \A u \in Upload : op[u] = "recover" => server = "recovering" /\ pc[u] \in RecoverStep
    /\ server = "recovering" => \A u \in Upload : pc[u] # "idle" =>
          /\ op[u] = "recover" /\ \A v \in Upload \ {u} : pc[v] = "idle"
          /\ IF pc[u] = "reaping" THEN todo = {} ELSE u \in todo

\* A handler goes from one step to the next.
LEMMA GotoStart ==
    ASSUME StartInv, TypeOK, NEW u \in Upload, NEW s \in Step \ {"idle", "reaping"}, Goto(u, s),
           pc[u] \notin {"idle", "reaping"}, op[u] = "recover" => s \in RecoverStep, dir' = dir
    PROVE  StartInv'
<1>1. pc'[u] = s /\ op' = op /\ \A v \in Upload \ {u} : pc'[v] = pc[v]
  BY GotoMoves DEF TypeOK
<1> QED BY <1>1 DEF Goto, StartInv

\* A handler returns, with or without an error.
LEMMA ReturnStart ==
    ASSUME StartInv, TypeOK, NEW u \in Upload, Return(u) \/ Fail(u) \/ Refuse(u), pc[u] # "idle",
           \A v \in Upload \ {u} : dir'[v] = dir[v]
    PROVE  StartInv'
<1>1. /\ pc'[u] = "idle" /\ op'[u] = "none"
      /\ \A v \in Upload \ {u} : pc'[v] = pc[v] /\ op'[v] = op[v]
  BY ReturnMoves DEF TypeOK
<1>2. CASE op[u] # "recover"
  <2>1. server' = server /\ todo' = todo /\ server # "recovering"
    BY <1>2 DEF Return, Fail, Refuse, Stop, StartInv
  <2> QED BY <1>1, <1>2, <2>1 DEF StartInv
<1>3. CASE op[u] = "recover"
  <2>1. server = "recovering" /\ \A v \in Upload : pc'[v] = "idle"
    BY <1>1, <1>3 DEF StartInv
  <2>2. \A v \in Upload : op'[v] # "recover"
    BY <1>1, <1>3, <2>1 DEF StartInv, RecoverStep
  <2>3. \/ server' = "recovering" /\ todo' = todo \ {u}
        \/ server' \in {"down", "refused"} /\ todo' = {}
    BY <1>3, <2>1 DEF Return, Fail, Refuse, Stop
  <2>4. \A v \in todo' : v \in todo /\ v # u /\ v \in Upload
    BY <2>3 DEF TypeOK, ProcessOK
  <2>5. \A v \in todo' : dir'[v]
    BY <2>4 DEF StartInv
  <2> QED BY <2>1, <2>2, <2>3, <2>5 DEF StartInv
<1> QED BY <1>2, <1>3

LEMMA RequestStart == ASSUME StartInv, TypeOK, NEW u \in Upload, Request(u) PROVE StartInv'
<1>1. /\ server = "up" /\ pc[u] = "idle" /\ server' = server /\ todo' = todo
      /\ \A v \in Upload : dir[v] => dir'[v]
  BY DEF Request, CreateBegin, PartRepeated, PartBegin, CompleteBegin, CompleteRepeated, CancelBegin,
     Ready, Enter, Goto, durable, volatile, TypeOK, DiskOK
<1>2. op[u] # "recover" /\ op'[u] # "recover" /\ \A v \in Upload \ {u} : op'[v] = op[v] /\ pc'[v] = pc[v]
  <2>1. op[u] # "recover"
    BY <1>1 DEF StartInv
  <2>2. CASE CreateBegin(u)
    BY <2>1, <2>2 DEF CreateBegin, Goto, TypeOK, ProcessOK
  <2>3. CASE (\E p \in Part : PartRepeated(u, p) \/ \E d \in Data : PartBegin(u, p, d)) \/ CompleteRepeated(u)
    BY <2>1, <2>3 DEF PartRepeated, PartBegin, CompleteRepeated, volatile, TypeOK, ProcessOK
  <2>4. CASE CompleteBegin(u) \/ CancelBegin(u)
    BY <2>1, <2>4 DEF CompleteBegin, CancelBegin, Enter, TypeOK, ProcessOK
  <2> QED BY <2>1, <2>2, <2>3, <2>4 DEF Request
<1>3. todo = {}
  BY <1>1 DEF StartInv
<1> QED BY <1>1, <1>2, <1>3 DEF StartInv

LEMMA ProceedStart == ASSUME StartInv, IInv, NEW u \in Upload, Proceed(u) PROVE StartInv'
<1>1. TypeOK /\ HandlerInv(u)
  BY DEF IInv, Good
<1>2. pc[u] # "idle"
  BY DEF Proceed, CreateSave, CreateFail, PartReceive, PartRecord, PartRecordFail, PublishBegin,
     OpenStage, Assemble, SealStage, Link, SyncDestination, PublishError, ResetStage, Reactivate,
     MarkCompleted, CleanupCompleted, RemoveStage, AdoptDestination, DiscardStage,
     RefuseToReconcile, Revive, CancelSave, CleanupCancelled, ReapEntry, ReapDirectory, GiveUp
<1>3. op[u] = "recover" => pc[u] \in RecoverStep
  BY DEF StartInv
<1>4. CASE (Return(u) \/ Fail(u) \/ Refuse(u)) /\ \A v \in Upload \ {u} : dir'[v] = dir[v]
  BY <1>1, <1>2, <1>4, ReturnStart
<1>5. CASE CreateSave(u) \/ CreateFail(u) \/ (\E body \in Data : PartReceive(u, body))
           \/ PartRecord(u) \/ PartRecordFail(u)
  <2>1. (\E body \in Data : PartReceive(u, body)) => StartInv'
    BY <1>1, <1>3, GotoStart DEF PartReceive, Step, RecoverStep
  <2> QED BY <1>1, <1>4, <1>5, <2>1
          DEF CreateSave, CreateFail, PartRecord, PartRecordFail, TypeOK, DiskOK
<1>6. CASE PublishBegin(u)
  <2>1. Goto(u, "opening") \/ Fail(u)
    BY <1>6 DEF PublishBegin
  <2>2. dir' = dir /\ pc[u] = "publishing"
    BY <1>6 DEF PublishBegin
  <2> QED BY <1>1, <1>3, <1>4, <2>1, <2>2, GotoStart DEF Step, RecoverStep
<1>7. CASE OpenStage(u) \/ Assemble(u) \/ SealStage(u) \/ Link(u) \/ SyncDestination(u)
           \/ PublishError(u) \/ ResetStage(u)
  <2>1. /\ dir' = dir /\ pc[u] \in {"opening", "assembling", "sealing", "linking", "syncing", "resetting"}
        /\ \E s \in {"assembling", "sealing", "resetting", "linking", "syncing", "marking", "reactivating"} :
              Goto(u, s)
    BY <1>7 DEF OpenStage, Assemble, SealStage, Link, SyncDestination, PublishError, ResetStage, durable
  <2> QED BY <1>1, <1>3, <2>1, GotoStart DEF Step, RecoverStep
<1>8. CASE MarkCompleted(u) \/ CleanupCompleted(u) \/ AdoptDestination(u) \/ DiscardStage(u)
  <2>1. /\ dir' = dir /\ pc[u] \in {"marking", "clearing", "recovering", "discarding"}
        /\ \/ \E s \in {"clearing", "unstaging", "marking", "discarding", "reviving"} : Goto(u, s)
           \/ Fail(u)
    BY <1>8 DEF MarkCompleted, CleanupCompleted, AdoptDestination, DiscardStage, durable
  <2> QED BY <1>1, <1>3, <1>4, <2>1, GotoStart DEF Step, RecoverStep
<1>9. CASE Revive(u)
  <2>1. /\ dir' = dir /\ pc[u] = "reviving"
        /\ \/ op[u] # "recover" /\ \E s \in {"publishing", "cancelling"} : Goto(u, s)
           \/ Return(u) \/ Fail(u)
    BY <1>9 DEF Revive
  <2> QED BY <1>1, <1>3, <1>4, <2>1, GotoStart DEF Step, RecoverStep
<1>10. CASE CancelSave(u)
  <2>1. /\ dir' = dir /\ pc[u] = "cancelling" /\ (Goto(u, "emptying") \/ Fail(u))
    BY <1>10 DEF CancelSave
  <2> QED BY <1>1, <1>3, <1>4, <2>1, GotoStart DEF Step, RecoverStep
<1>11. CASE ReapEntry(u)
  BY <1>11 DEF ReapEntry, volatile, StartInv
<1>12. CASE Reactivate(u) \/ RemoveStage(u) \/ RefuseToReconcile(u) \/ CleanupCancelled(u)
            \/ ReapDirectory(u) \/ GiveUp(u)
  BY <1>1, <1>4, <1>12 DEF Reactivate, RemoveStage, RefuseToReconcile, CleanupCancelled,
     ReapDirectory, GiveUp, durable, TypeOK, DiskOK
<1> QED BY <1>5, <1>6, <1>7, <1>8, <1>9, <1>10, <1>11, <1>12 DEF Proceed

LEMMA NextStart == IInv /\ StartInv /\ [Next]_vars => StartInv'
<1> SUFFICES ASSUME IInv, StartInv, [Next]_vars PROVE StartInv'
  OBVIOUS
<1>1. TypeOK
  BY DEF IInv
<1>2. ASSUME NEW u \in Upload, Request(u) \/ Proceed(u) PROVE StartInv'
  BY <1>1, <1>2, RequestStart, ProceedStart
<1>3. ASSUME NEW u \in Upload, ReapBegin(u) PROVE StartInv'
  <2>1. /\ pc[u] = "idle" /\ pc' = [pc EXCEPT ![u] = "reaping"] /\ server' = server /\ todo' = todo /\ dir' = dir
        /\ op' = [op EXCEPT ![u] = IF server = "up" THEN "reap" ELSE "recover"]
        /\ server = "up" \/ (server = "recovering" /\ todo = {})
        /\ \A v \in Upload : pc[v] # "reaping"
    BY <1>3 DEF ReapBegin, ScanReaches, durable
  <2>2. CASE server = "up"
    BY <1>1, <2>1, <2>2 DEF StartInv, TypeOK, ProcessOK
  <2>3. CASE server = "recovering" /\ todo = {}
    <3>1. \A v \in Upload : pc[v] = "idle"
      BY <2>1, <2>3 DEF StartInv
    <3> QED BY <1>1, <2>1, <2>3, <3>1 DEF StartInv, TypeOK, ProcessOK, RecoverStep
  <2> QED BY <2>1, <2>2, <2>3
<1>4. ASSUME NEW u \in Upload, Recover(u) PROVE StartInv'
  <2>1. /\ server = "recovering" /\ u \in todo /\ \A v \in Upload : pc[v] = "idle"
        /\ dir' = dir
    BY <1>4 DEF Recover, RecoverTerminal, RecoverUnfinished, RecoverRefuse, Recovering, durable
  <2>2. \A v \in Upload : op[v] # "recover"
    BY <2>1 DEF StartInv, RecoverStep
  <2>3. CASE pc' = pc /\ op' = op /\ ((server' = server /\ todo' = todo \ {u}) \/ (server' \in {"down", "refused"} /\ todo' = {}))
    BY <2>1, <2>2, <2>3 DEF StartInv
  <2>4. CASE /\ pc' = [pc EXCEPT ![u] = "recovering"] /\ op' = [op EXCEPT ![u] = "recover"]
             /\ server' = server /\ todo' = todo
    BY <1>1, <2>1, <2>2, <2>4 DEF StartInv, TypeOK, ProcessOK, RecoverStep
  <2> QED BY <1>4, <2>3, <2>4 DEF Recover, RecoverTerminal, RecoverUnfinished, RecoverRefuse, durable
<1>5. ASSUME NEW u \in Upload, Expire(u) PROVE StartInv'
  BY <1>5 DEF Expire, volatile, StartInv
<1>6. CASE Start
  BY <1>6 DEF Start, durable, StartInv, RecoverStep
<1>7. CASE RecoverDone
  BY <1>7 DEF RecoverDone, durable, StartInv, RecoverStep
<1>8. CASE Crash
  BY <1>8 DEF Crash, durable, StartInv
<1>9. ASSUME NEW n \in Name, UserFile(n) \/ FolderLeaves(n) \/ FolderReturns(n) PROVE StartInv'
  BY <1>9 DEF UserFile, FolderLeaves, FolderReturns, volatile, StartInv
<1>10. CASE UNCHANGED vars
  BY <1>10 DEF vars, durable, volatile, StartInv
<1> QED BY <1>2, <1>3, <1>4, <1>5, <1>6, <1>7, <1>8, <1>9, <1>10 DEF Next

LEMMA SpecStart == Spec => [](IInv /\ StartInv)
<1>1. Init => StartInv
  BY DEF Init, StartInv
<1> QED BY <1>1, NextStart, SpecIInv, PTL DEF Spec

\* Only recovery itself, its recoverFinalizing, and a folder that left between
\* two of its steps can refuse a start-up.
LEMMA WhoRefuses ==
    ASSUME StartInv, Next, server # "refused", server' = "refused"
    PROVE  \E u \in Upload :
              \/ RefuseToReconcile(u) \/ RecoverRefuse(u)
              \/ GiveUp(u) /\ pc[u] \in {"marking", "discarding"} /\ ~Reachable(u)
<1>1. ASSUME NEW u \in Upload, Goto(u, pc'[u]) \/ Return(u) \/ Fail(u) PROVE server' \in {server, "down"}
  BY <1>1 DEF Goto, Return, Fail, Stop
<1>2. ASSUME NEW u \in Upload, Proceed(u), ~RefuseToReconcile(u), ~GiveUp(u) PROVE server' # "refused"
  <2>1. server' \in {server, "down"}
    <3>1. CASE CreateSave(u) \/ CreateFail(u) \/ (\E body \in Data : PartReceive(u, body))
               \/ PartRecord(u) \/ PartRecordFail(u)
      BY <3>1 DEF CreateSave, CreateFail, PartReceive, PartRecord, PartRecordFail, Return, Goto, Fail, Stop
    <3>2. CASE PublishBegin(u) \/ OpenStage(u) \/ Assemble(u) \/ SealStage(u) \/ Link(u)
               \/ SyncDestination(u) \/ PublishError(u) \/ ResetStage(u) \/ Reactivate(u)
      BY <3>2 DEF PublishBegin, OpenStage, Assemble, SealStage, Link, SyncDestination,
         PublishError, ResetStage, Reactivate, Goto, Fail, Stop
    <3>3. CASE MarkCompleted(u) \/ CleanupCompleted(u) \/ RemoveStage(u) \/ AdoptDestination(u)
               \/ DiscardStage(u) \/ Revive(u)
      BY <3>3 DEF MarkCompleted, CleanupCompleted, RemoveStage, AdoptDestination, DiscardStage,
         Revive, Goto, Return, Fail, Stop
    <3>4. CASE CancelSave(u) \/ CleanupCancelled(u) \/ ReapEntry(u) \/ ReapDirectory(u)
      BY <3>4 DEF CancelSave, CleanupCancelled, ReapEntry, ReapDirectory, Goto, Return, Fail, Stop,
         volatile
    <3> QED BY <1>2, <3>1, <3>2, <3>3, <3>4 DEF Proceed
  <2> QED BY <2>1
<1>3. ASSUME NEW u \in Upload, GiveUp(u)
      PROVE  pc[u] \in {"marking", "discarding"} /\ ~Reachable(u)
  <2>1. /\ op[u] = "recover" /\ Refuse(u)
        /\ \/ pc[u] = "receiving"
           \/ pc[u] = "publishing" /\ file[Target[u]] # None
           \/ pc[u] \in {"publishing", "opening", "syncing", "marking", "discarding"} /\ ~Reachable(u)
    BY <1>3 DEF GiveUp, Refuse, Fail, Stop
  <2>2. pc[u] \in RecoverStep
    BY <2>1 DEF StartInv
  <2> QED BY <2>1, <2>2 DEF RecoverStep
<1>4. ASSUME NEW u \in Upload, Request(u) \/ ReapBegin(u) \/ Expire(u) PROVE server' = server
  BY <1>4 DEF Request, CreateBegin, PartRepeated, PartBegin, CompleteBegin, CompleteRepeated,
     CancelBegin, Enter, Goto, ReapBegin, Expire, volatile
<1>5. ASSUME NEW u \in Upload, Recover(u), ~RecoverRefuse(u) PROVE server' = server
  BY <1>5 DEF Recover, RecoverTerminal, RecoverUnfinished
<1>6. ASSUME Start \/ RecoverDone \/ Crash
             \/ \E n \in Name : UserFile(n) \/ FolderLeaves(n) \/ FolderReturns(n)
      PROVE server' # "refused" \/ server' = server
  BY <1>6 DEF Start, RecoverDone, Crash, UserFile, FolderLeaves, FolderReturns, volatile
<1> QED BY <1>2, <1>3, <1>4, <1>5, <1>6 DEF Next

\* Whatever failed before, start-up refuses what it finds only for a directory
\* whose manifest is missing, an expired transfer half removed, or an unfinished
\* publication whose folder is away or that contradicts the name or the announced
\* digest.
THEOREM RefusalIsExplained == Spec => RefusalExplained
<1> DEFINE Explains(u) ==
        \/ manifest[u] = None
        \/ Unfinished(u) /\ stale[u] /\ ~PartsVerified(u)
        \/ /\ InState(u, "finalizing") /\ PartsVerified(u)
           /\ \/ ~Reachable(u)
              \/ file[Target[u]] \notin {None, manifest[u].parts}
              \/ ~DigestAgrees(u, manifest[u].parts)
<1>1. ASSUME IInv, StartInv, Next, server # "refused", server' = "refused"
      PROVE  \E u \in Upload : dir[u] /\ Explains(u)
  <2>1. PICK u \in Upload : \/ RefuseToReconcile(u) \/ RecoverRefuse(u)
                            \/ pc[u] \in {"marking", "discarding"} /\ ~Reachable(u)
    BY <1>1, WhoRefuses
  <2>2. TypeOK /\ HandlerInv(u) /\ PartsInv(u)
    BY <1>1 DEF IInv, Good
  <2>3. CASE RefuseToReconcile(u)
    <3>1. /\ pc[u] = "recovering" /\ InState(u, "finalizing") /\ manifest[u] # None
          /\ AllRecorded(u) /\ PartsVerified(u)
      BY <2>2, <2>3 DEF RefuseToReconcile, HandlerInv, PartsInv, InState, Unfinished, Holding, Step
    <3>2. dir[u] /\ partFile[u] = manifest[u].parts
      BY <2>2, <3>1, WholeFile DEF HandlerInv
    <3> QED BY <2>3, <3>1, <3>2 DEF RefuseToReconcile, Reconcilable
  <2>4. CASE RecoverRefuse(u)
    <3>1. dir[u] /\ (manifest[u] = None \/ (Unfinished(u) /\ ~PartsVerified(u)))
      BY <1>1, <2>4 DEF RecoverRefuse, Recovering, StartInv
    <3>2. Unfinished(u) /\ ~PartsVerified(u) => stale[u]
      BY <2>2 DEF PartsInv, TypeOK, DiskOK
    <3> QED BY <3>1, <3>2
  <2>5. CASE pc[u] \in {"marking", "discarding"} /\ ~Reachable(u)
    <3>1. InState(u, "finalizing") /\ manifest[u] # None /\ PartsVerified(u)
      BY <2>2, <2>5 DEF HandlerInv, PartsInv, InState, Unfinished, Holding, Step
    <3>2. dir[u]
      BY <2>2, <3>1 DEF HandlerInv
    <3> QED BY <2>5, <3>1, <3>2
  <2> QED BY <2>1, <2>3, <2>4, <2>5
<1>2. IInv /\ StartInv /\ [Next]_vars =>
        [server # "refused" /\ server' = "refused" => \E u \in Upload : dir[u] /\ Explains(u)]_vars
  BY <1>1
<1> QED BY <1>2, SpecStart, PTL DEF Spec, RefusalExplained

-----------------------------------------------------------------------------
(* Start-up: what it has seen to.                                           *)

\* A directory that recovery has visited and left is reconciled, and stays so
\* until the server is up.
ReconciledInv ==
    /\ \A u \in Upload : pc[u] = "unstaging" => partFile[u] = NoParts
    /\ server = "recovering" => \A u \in Upload :
          dir[u] /\ u \notin todo /\ pc[u] = "idle" => Reconciled(u)

\* What is another transfer's stays as it is.
LEMMA ProceedElsewhere ==
    ASSUME IInv, NEW u \in Upload, Proceed(u), NEW v \in Upload, v # u
    PROVE  /\ dir'[v] = dir[v] /\ partFile'[v] = partFile[v] /\ manifest'[v] = manifest[v]
           /\ pc'[v] = pc[v]
<1>1. TypeOK
  BY DEF IInv
<1>2. pc'[v] = pc[v]
  <2>1. \/ \E s \in Step : Goto(u, s)
        \/ Return(u) \/ Fail(u) \/ Refuse(u) \/ pc' = pc
    <3>1. CASE CreateSave(u) \/ CreateFail(u) \/ (\E body \in Data : PartReceive(u, body))
               \/ PartRecord(u) \/ PartRecordFail(u) \/ PublishBegin(u)
      BY <3>1 DEF CreateSave, CreateFail, PartReceive, PartRecord, PartRecordFail, PublishBegin, Step
    <3>2. CASE OpenStage(u) \/ Assemble(u) \/ SealStage(u) \/ Link(u)
               \/ SyncDestination(u) \/ PublishError(u) \/ ResetStage(u) \/ Reactivate(u)
      BY <3>2 DEF OpenStage, Assemble, SealStage, Link, SyncDestination,
         PublishError, ResetStage, Reactivate, Step
    <3>3. CASE MarkCompleted(u) \/ CleanupCompleted(u) \/ RemoveStage(u) \/ AdoptDestination(u)
               \/ DiscardStage(u) \/ RefuseToReconcile(u) \/ Revive(u)
      BY <3>3 DEF MarkCompleted, CleanupCompleted, RemoveStage, AdoptDestination, DiscardStage,
         RefuseToReconcile, Revive, Step
    <3>4. CASE CancelSave(u) \/ CleanupCancelled(u) \/ ReapEntry(u) \/ ReapDirectory(u) \/ GiveUp(u)
      BY <3>4 DEF CancelSave, CleanupCancelled, ReapEntry, ReapDirectory, GiveUp, volatile, Step
    <3> QED BY <3>1, <3>2, <3>3, <3>4 DEF Proceed
  <2> QED BY <1>1, <2>1, GotoMoves, ReturnMoves DEF TypeOK
<1>3. dir'[v] = dir[v] /\ partFile'[v] = partFile[v] /\ manifest'[v] = manifest[v]
  <2>1. CASE CreateSave(u) \/ CreateFail(u) \/ (\E body \in Data : PartReceive(u, body))
             \/ PartRecord(u) \/ PartRecordFail(u) \/ PublishBegin(u)
    BY <1>1, <2>1 DEF TypeOK, DiskOK, Saved, SaveFailed, CreateSave, CreateFail, PartReceive,
       PartRecord, PartRecordFail, PublishBegin
  <2>2. CASE OpenStage(u) \/ Assemble(u) \/ SealStage(u) \/ Link(u)
             \/ SyncDestination(u) \/ PublishError(u) \/ ResetStage(u) \/ Reactivate(u)
    BY <1>1, <2>2 DEF TypeOK, DiskOK, Saved, SaveFailed, OpenStage, Assemble,
       SealStage, Link, SyncDestination, PublishError, ResetStage, Reactivate, durable
  <2>3. CASE MarkCompleted(u) \/ CleanupCompleted(u) \/ RemoveStage(u) \/ AdoptDestination(u)
             \/ DiscardStage(u) \/ RefuseToReconcile(u) \/ Revive(u)
    BY <1>1, <2>3 DEF TypeOK, DiskOK, Saved, SaveFailed, MarkCompleted, CleanupCompleted,
       RemoveStage, AdoptDestination, DiscardStage, RefuseToReconcile, Revive, durable
  <2>4. CASE CancelSave(u) \/ CleanupCancelled(u) \/ ReapEntry(u) \/ ReapDirectory(u) \/ GiveUp(u)
    BY <1>1, <2>4 DEF TypeOK, DiskOK, Saved, SaveFailed, CancelSave, CleanupCancelled,
       ReapEntry, ReapDirectory, GiveUp, durable
  <2> QED BY <2>1, <2>2, <2>3, <2>4 DEF Proceed
<1> QED BY <1>2, <1>3

\* A handler reaches the removal of the stage past the removal of the parts.
LEMMA ProceedUnstaging ==
    ASSUME IInv, ReconciledInv, NEW u \in Upload, Proceed(u), pc'[u] = "unstaging"
    PROVE  partFile'[u] = NoParts
<1>1. TypeOK
  BY DEF IInv
<1>2. CleanupCompleted(u)
  <2>1. ASSUME NEW s \in Step \ {"unstaging"}, Goto(u, s) PROVE FALSE
    BY <1>1, <2>1, GotoMoves DEF TypeOK
  <2>2. ~Return(u) /\ ~Fail(u) /\ ~Refuse(u)
    BY <1>1, ReturnMoves DEF TypeOK
  <2>3. CASE CreateSave(u) \/ CreateFail(u) \/ (\E body \in Data : PartReceive(u, body))
             \/ PartRecord(u) \/ PartRecordFail(u) \/ PublishBegin(u)
    BY <2>1, <2>2, <2>3 DEF CreateSave, CreateFail, PartReceive, PartRecord, PartRecordFail, PublishBegin, Step
  <2>4. CASE OpenStage(u) \/ Assemble(u) \/ SealStage(u) \/ Link(u)
             \/ SyncDestination(u) \/ PublishError(u) \/ ResetStage(u) \/ Reactivate(u)
    BY <2>1, <2>2, <2>4 DEF OpenStage, Assemble, SealStage, Link, SyncDestination,
       PublishError, ResetStage, Reactivate, Step
  <2>5. CASE MarkCompleted(u) \/ RemoveStage(u) \/ AdoptDestination(u)
             \/ DiscardStage(u) \/ RefuseToReconcile(u) \/ Revive(u)
    BY <2>1, <2>2, <2>5 DEF MarkCompleted, RemoveStage, AdoptDestination, DiscardStage,
       RefuseToReconcile, Revive, Step
  <2>6. CASE CancelSave(u) \/ CleanupCancelled(u) \/ ReapEntry(u) \/ ReapDirectory(u) \/ GiveUp(u)
    BY <2>1, <2>2, <2>6 DEF CancelSave, CleanupCancelled, ReapEntry, ReapDirectory, GiveUp, volatile, Step
  <2> QED BY <2>3, <2>4, <2>5, <2>6 DEF Proceed
<1> QED BY <1>1, <1>2, NoPartsIs DEF CleanupCompleted, TypeOK, DiskOK

\* Recovery leaves a transfer reconciled: completed with its parts removed, made
\* active again, or removed.
LEMMA ProceedReconciles ==
    ASSUME IInv, StartInv, ReconciledInv, NEW u \in Upload, Proceed(u),
           server = "recovering", server' = "recovering", pc'[u] = "idle", dir'[u]
    PROVE  Reconciled(u)'
<1>1. TypeOK /\ Good(u)
  BY DEF IInv
<1>2. pc[u] # "idle"
  BY DEF Proceed, CreateSave, CreateFail, PartReceive, PartRecord, PartRecordFail, PublishBegin,
     OpenStage, Assemble, SealStage, Link, SyncDestination, PublishError, ResetStage, Reactivate,
     MarkCompleted, CleanupCompleted, RemoveStage, AdoptDestination, DiscardStage,
     RefuseToReconcile, Revive, CancelSave, CleanupCancelled, ReapEntry, ReapDirectory, GiveUp
<1>3. op[u] = "recover" /\ pc[u] \in RecoverStep
  BY <1>2 DEF StartInv
<1>4. ~Fail(u) /\ ~Refuse(u) /\ \A s \in Step \ {"idle"} : ~Goto(u, s)
  BY <1>1, <1>3, GotoMoves DEF Fail, Refuse, Stop, TypeOK
<1>5. RemoveStage(u) \/ Revive(u) \/ ReapDirectory(u)
  <2>1. CASE MarkCompleted(u) \/ CleanupCompleted(u) \/ AdoptDestination(u) \/ DiscardStage(u)
             \/ RefuseToReconcile(u) \/ ReapEntry(u) \/ GiveUp(u)
    BY <1>2, <1>4, <2>1 DEF MarkCompleted, CleanupCompleted, AdoptDestination, DiscardStage,
       RefuseToReconcile, ReapEntry, GiveUp, volatile, Step
  <2> QED BY <1>3, <2>1 DEF Proceed, RecoverStep, CreateSave, CreateFail, PartReceive, PartRecord,
      PartRecordFail, PublishBegin, OpenStage, Assemble, SealStage, Link, SyncDestination,
      PublishError, ResetStage, Reactivate, CancelSave, CleanupCancelled
<1>6. CASE RemoveStage(u)
  BY <1>1, <1>6 DEF RemoveStage, Good, HandlerInv, ReconciledInv, Reconciled, InState
<1>7. CASE Revive(u)
  <2>1. InState(u, "finalizing") /\ PartsVerified(u) /\ manifest[u] # None
    BY <1>1, <1>7 DEF Revive, Good, HandlerInv, PartsInv, Holding, Step, InState, Unfinished
  <2>2. manifest'[u] = Reactivated(u) /\ partFile' = partFile
    BY <1>1, <1>4, <1>7 DEF Revive, Saved, TypeOK, DiskOK
  <2>3. Reactivated(u) # None /\ Reactivated(u).state = "active" /\ Reactivated(u).parts = manifest[u].parts
    BY <1>1, <2>1, ReactivatedIs
  <2> QED BY <2>1, <2>2, <2>3 DEF Reconciled, InState, PartsVerified
<1>8. CASE ReapDirectory(u)
  BY <1>1, <1>8 DEF ReapDirectory, TypeOK, DiskOK
<1> QED BY <1>5, <1>6, <1>7, <1>8

LEMMA NextReconciled == IInv /\ StartInv /\ StartInv' /\ ReconciledInv /\ [Next]_vars => ReconciledInv'
<1> SUFFICES ASSUME IInv, StartInv, StartInv', ReconciledInv, [Next]_vars PROVE ReconciledInv'
  OBVIOUS
<1>1. TypeOK
  BY DEF IInv
<1>2. ASSUME NEW u \in Upload, Proceed(u) PROVE ReconciledInv'
  <2>1. \A v \in Upload \ {u} : /\ dir'[v] = dir[v] /\ partFile'[v] = partFile[v]
                                /\ manifest'[v] = manifest[v] /\ pc'[v] = pc[v]
    BY <1>2, ProceedElsewhere
  <2>2. ASSUME NEW v \in Upload, pc'[v] = "unstaging" PROVE partFile'[v] = NoParts
    BY <1>2, <2>1, <2>2, ProceedUnstaging DEF ReconciledInv
  <2>3. server' = "recovering" => server = "recovering" /\ \A v \in Upload \ {u} : v \in todo' <=> v \in todo
    <3>1. \/ \E s \in Step : Goto(u, s)
          \/ Return(u) \/ Fail(u) \/ Refuse(u) \/ UNCHANGED <<server, todo>>
      <4>1. CASE CreateSave(u) \/ CreateFail(u) \/ (\E body \in Data : PartReceive(u, body))
                 \/ PartRecord(u) \/ PartRecordFail(u) \/ PublishBegin(u)
        BY <4>1 DEF CreateSave, CreateFail, PartReceive, PartRecord, PartRecordFail, PublishBegin, Step
      <4>2. CASE OpenStage(u) \/ Assemble(u) \/ SealStage(u) \/ Link(u)
                 \/ SyncDestination(u) \/ PublishError(u) \/ ResetStage(u) \/ Reactivate(u)
        BY <4>2 DEF OpenStage, Assemble, SealStage, Link, SyncDestination,
           PublishError, ResetStage, Reactivate, Step
      <4>3. CASE MarkCompleted(u) \/ CleanupCompleted(u) \/ RemoveStage(u) \/ AdoptDestination(u)
                 \/ DiscardStage(u) \/ RefuseToReconcile(u) \/ Revive(u)
        BY <4>3 DEF MarkCompleted, CleanupCompleted, RemoveStage, AdoptDestination, DiscardStage,
           RefuseToReconcile, Revive, Step
      <4>4. CASE CancelSave(u) \/ CleanupCancelled(u) \/ ReapEntry(u) \/ ReapDirectory(u) \/ GiveUp(u)
        BY <4>4 DEF CancelSave, CleanupCancelled, ReapEntry, ReapDirectory, GiveUp, volatile, Step
      <4> QED BY <1>2, <4>1, <4>2, <4>3, <4>4 DEF Proceed
    <3> QED BY <3>1 DEF Goto, Return, Fail, Refuse, Stop
  <2>4. ASSUME server' = "recovering", NEW v \in Upload, dir'[v], v \notin todo', pc'[v] = "idle"
        PROVE  Reconciled(v)'
    <3>1. CASE v = u
      BY <1>2, <2>3, <2>4, <3>1, ProceedReconciles
    <3>2. CASE v # u
      BY <2>1, <2>3, <2>4, <3>2 DEF ReconciledInv, Reconciled, InState, PartsVerified
    <3> QED BY <3>1, <3>2
  <2> QED BY <2>2, <2>4 DEF ReconciledInv
<1>3. ASSUME NEW u \in Upload, Request(u) PROVE ReconciledInv'
  <2>1. server = "up" /\ server' = server /\ pc[u] = "idle"
    BY <1>3 DEF Request, CreateBegin, PartRepeated, PartBegin, CompleteBegin, CompleteRepeated, CancelBegin,
     Ready, Enter, Goto, volatile
  <2>2. \A v \in Upload : pc'[v] = "unstaging" => pc[v] = "unstaging" /\ partFile'[v] = partFile[v]
    <3>1. CASE CreateBegin(u)
      BY <1>1, <3>1 DEF CreateBegin, Goto, TypeOK, ProcessOK
    <3>2. CASE (\E p \in Part : PartRepeated(u, p)) \/ CompleteRepeated(u)
      BY <3>2 DEF PartRepeated, CompleteRepeated, durable, volatile
    <3>3. CASE \E p \in Part : \E d \in Data : PartBegin(u, p, d)
      BY <1>1, <2>1, <3>3 DEF PartBegin, TypeOK, ProcessOK, DiskOK
    <3>4. CASE CompleteBegin(u) \/ CancelBegin(u)
      BY <1>1, <3>4 DEF CompleteBegin, CancelBegin, Enter, durable, TypeOK, ProcessOK
    <3> QED BY <1>3, <3>1, <3>2, <3>3, <3>4 DEF Request
  <2> QED BY <2>1, <2>2 DEF ReconciledInv
<1>4. ASSUME NEW u \in Upload, ReapBegin(u) PROVE ReconciledInv'
  <2>1. /\ UNCHANGED <<dir, manifest, partFile, server, todo>>
        /\ \A v \in Upload : pc'[v] \in {pc[v], "reaping"}
    BY <1>1, <1>4 DEF ReapBegin, durable, TypeOK, ProcessOK
  <2> QED BY <2>1 DEF ReconciledInv, Reconciled, InState, PartsVerified
<1>5. ASSUME NEW u \in Upload, RecoverTerminal(u) PROVE ReconciledInv'
  <2>1. /\ UNCHANGED <<dir, manifest, pc>> /\ server = "recovering" /\ todo' = todo \ {u}
        /\ partFile' = [partFile EXCEPT ![u] = NoParts]
        /\ InState(u, "completed") \/ InState(u, "cancelled")
    BY <1>5 DEF RecoverTerminal, Recovering
  <2>2. partFile'[u] = NoParts /\ \A v \in Upload \ {u} : partFile'[v] = partFile[v]
    BY <1>1, <2>1 DEF TypeOK, DiskOK
  <2>3. Reconciled(u)'
    BY <2>1, <2>2 DEF Reconciled, InState
  <2> QED BY <2>1, <2>2, <2>3 DEF ReconciledInv, Reconciled, InState, PartsVerified
<1>6. ASSUME NEW u \in Upload, RecoverUnfinished(u) PROVE ReconciledInv'
  <2>1. UNCHANGED <<dir, manifest, partFile, server>> /\ server = "recovering"
    BY <1>6 DEF RecoverUnfinished, Recovering, durable
  <2>2. CASE InState(u, "active")
    <3>1. UNCHANGED pc /\ todo' = todo \ {u} /\ PartsVerified(u)
      BY <1>6, <2>2 DEF RecoverUnfinished
    <3> QED BY <2>1, <2>2, <3>1 DEF ReconciledInv, Reconciled, InState, PartsVerified
  <2>3. CASE ~InState(u, "active")
    <3>1. todo' = todo /\ \A v \in Upload : pc'[v] \in {pc[v], "recovering"}
      BY <1>1, <1>6, <2>3 DEF RecoverUnfinished, TypeOK, ProcessOK
    <3> QED BY <2>1, <3>1 DEF ReconciledInv, Reconciled, InState, PartsVerified
  <2> QED BY <2>2, <2>3
<1>7. ASSUME NEW u \in Upload, RecoverRefuse(u) PROVE ReconciledInv'
  BY <1>7 DEF RecoverRefuse, durable, ReconciledInv
<1>8. ASSUME NEW u \in Upload, Expire(u) PROVE ReconciledInv'
  BY <1>8 DEF Expire, volatile, ReconciledInv, Reconciled, InState, PartsVerified
<1>9. CASE Start
  BY <1>9 DEF Start, durable, ReconciledInv
<1>10. CASE RecoverDone \/ Crash
  BY <1>10 DEF RecoverDone, Crash, durable, ReconciledInv
<1>11. ASSUME NEW n \in Name, UserFile(n) \/ FolderLeaves(n) \/ FolderReturns(n) PROVE ReconciledInv'
  BY <1>11 DEF UserFile, FolderLeaves, FolderReturns, volatile, ReconciledInv, Reconciled, InState,
     PartsVerified
<1>12. CASE UNCHANGED vars
  BY <1>12 DEF vars, durable, volatile, ReconciledInv, Reconciled, InState, PartsVerified
<1> QED BY <1>2, <1>3, <1>4, <1>5, <1>6, <1>7, <1>8, <1>9, <1>10, <1>11, <1>12 DEF Next, Recover

\* A process that comes up has reconciled every transfer the last one left.
THEOREM StartupHasReconciled == Spec => StartupReconciles
<1>1. Init => ReconciledInv
  BY DEF Init, ReconciledInv
<1>2. ASSUME IInv, StartInv, ReconciledInv, Next, server # "up", server' = "up"
      PROVE  \A u \in Upload : dir[u] => Reconciled(u)
  <2>1. RecoverDone
    <3>1. ASSUME NEW u \in Upload, Request(u) \/ ReapBegin(u) \/ Expire(u) PROVE server' = server
      BY <3>1 DEF Request, CreateBegin, PartRepeated, PartBegin, CompleteBegin, CompleteRepeated,
         CancelBegin, Enter, Goto, ReapBegin, Expire, volatile
    <3>2. ASSUME NEW u \in Upload, Proceed(u) PROVE server' \in {server, "down", "refused"}
      <4>1. CASE CreateSave(u) \/ CreateFail(u) \/ (\E body \in Data : PartReceive(u, body))
                 \/ PartRecord(u) \/ PartRecordFail(u)
        BY <4>1 DEF CreateSave, CreateFail, PartReceive, PartRecord, PartRecordFail, Return, Goto, Fail, Stop
      <4>2. CASE PublishBegin(u) \/ OpenStage(u) \/ Assemble(u) \/ SealStage(u) \/ Link(u)
                 \/ SyncDestination(u) \/ PublishError(u) \/ ResetStage(u) \/ Reactivate(u)
        BY <4>2 DEF PublishBegin, OpenStage, Assemble, SealStage, Link, SyncDestination,
           PublishError, ResetStage, Reactivate, Goto, Fail, Stop
      <4>3. CASE MarkCompleted(u) \/ CleanupCompleted(u) \/ RemoveStage(u) \/ AdoptDestination(u)
                 \/ DiscardStage(u) \/ RefuseToReconcile(u) \/ Revive(u)
        BY <4>3 DEF MarkCompleted, CleanupCompleted, RemoveStage, AdoptDestination, DiscardStage,
           RefuseToReconcile, Revive, Goto, Return, Fail, Refuse, Stop
      <4>4. CASE CancelSave(u) \/ CleanupCancelled(u) \/ ReapEntry(u) \/ ReapDirectory(u) \/ GiveUp(u)
        BY <4>4 DEF CancelSave, CleanupCancelled, ReapEntry, ReapDirectory, GiveUp, Goto, Return,
           Fail, Refuse, Stop, volatile
      <4> QED BY <3>2, <4>1, <4>2, <4>3, <4>4 DEF Proceed
    <3>3. ASSUME NEW u \in Upload, Recover(u) PROVE server' # "up"
      BY <3>3 DEF Recover, RecoverTerminal, RecoverUnfinished, RecoverRefuse, Recovering
    <3>4. ASSUME Start \/ Crash \/ \E n \in Name : UserFile(n) \/ FolderLeaves(n) \/ FolderReturns(n)
          PROVE  server' # "up" \/ server' = server
      BY <3>4 DEF Start, Crash, UserFile, FolderLeaves, FolderReturns, volatile
    <3> QED BY <1>2, <3>1, <3>2, <3>3, <3>4 DEF Next
  <2> QED BY <1>2, <2>1 DEF RecoverDone, ReconciledInv
<1>3. IInv /\ StartInv /\ ReconciledInv /\ [Next]_vars =>
        [server # "up" /\ server' = "up" => \A u \in Upload : dir[u] => Reconciled(u)]_vars
  BY <1>2
<1> QED BY <1>1, <1>3, NextReconciled, SpecStart, PTL DEF Spec, StartupReconciles
=============================================================================
