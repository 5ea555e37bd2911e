# Verification of FileHarbor

FileHarbor is a single-administrator web file manager: one Go process serves a
managed directory over HTTP, keeps private state in a separate state directory,
and ships a browser client whose upload queue resumes interrupted uploads. This
directory holds TLA+ models of the server's core and of the client, the TLC runs
that check them, and the TLAPS proofs of what matters most.

## Inventory

| Component | State it keeps | Operations | How it interacts |
| --- | --- | --- | --- |
| Reliable uploads, durable part (`upload_store.go`, `upload_publish.go`) | per transfer: a private directory with `manifest.json` and part files, a hidden stage beside the destination | Create, WritePart, Complete (publish), Cancel, Status, the reaper, start-up recovery | writes the managed directory with a hard link; called by the HTTP handlers under a per-transfer lock |
| Reliable uploads, concurrency and quota (`upload_store.go`) | `reapMu`, 64 lock stripes, the part slots, the reservations read off the manifests | the same, seen as goroutines taking locks | the reaper goroutine, Create and start-up share `reapMu`; transfers share stripes |
| Part arithmetic (`upload_store.go`, `queue.ts`) | none | partCount, expectedPartSize, receivedRanges and what the page computes of its own | server and page never exchange the sizes of parts: each cuts the file for itself |
| Process lifecycle (`request_gate.go`, `state_lock.go`, `main.go`, `runtime.go`) | request gate, readiness flag, the lock on the state directory, audit log handle | start, admit a request, shutdown, forced exit | the gate keeps the state alive for admitted handlers; the lock excludes a second process |
| Audit log (`runtime.go`) | `audit.jsonl` and five rotations, a health flag | Record, rotate, repair at start-up | every mutation records an attempt before and an outcome after its effect |
| Authentication (`auth/`) | sessions, login attempts per address, listings, one-time archive tickets | Login, Logout, IssueListing, ReadListing, Issue/ConsumeArchiveTicket | in front of every route |
| File operations (`utils/operations.go`, `utils/editor.go`) | the managed directory, `operationMu` | rename, move, copy, batch copy/move/delete, make, save text | shares the managed directory with upload publication and `/do/rm`, which do not take `operationMu` |
| Archives and properties (`utils/archive.go`, `utils/properties.go`) | none | compress, extract, describe | read and write the managed directory |
| Legacy chunk upload (`main.go`) | `chunks/<id>/<index>`, `chunkMu` | check, upload, merge | cleared at start-up |
| Client upload queue (`web/src/uploads/`, the drawer) | queue items and their phases, runs, abort controllers, IndexedDB records | add, attach, pause, resume, cancel, remove, run, restore | drives the reliable upload protocol, behind a network that loses answers |
| Web interface: session, editor, page of a directory (`Workspace.tsx`, `EditorDialog.tsx`, `SessionProvider.tsx` and their parts) | the session shown and its token, the listing and its query, the selection, the open dialog, the operation under way, the editor's text and version | log in and out, refresh, select, the menu and its forms, single and batch operations, load, save and reload a text | its requests meet other pages, other programs and another session of the same browser |
| Web interface: appearance, language, build | none | - | no state of interest |
| Paths and listings (`utils/path.go`, `spa_api.go`) | none | resolve, contain, list | functions of the file system |
| Configuration, i18n and platform files | none that changes | - | read at start-up |

What makes the system hard is not one algorithm but the places where these parts
meet: a handler that dies between two writes and a start-up that has to judge the
remains; a quota counted over files that other goroutines rewrite; a reaper that
removes what a slow client may still continue; a shutdown that must wait for
handlers but not for ever; an audit log whose failure must stop every change; a page
whose answers arrive when the user has clicked on. `PROJECT.json` lists each of
these hazards at its line together with the properties that would catch it.

What correctness means, component by component:

- **durable transfer**: a confirmed part survives everything but expiry; the
  managed directory only ever gains whole files under free names; a completion,
  once confirmed, stands; expired transfers go away; a start-up that serves has
  settled what the last process left, and one that refuses has one of a few reasons;
- **locks, quota and slots**: the limits hold although they are counted without
  the transfers' locks; nobody meets a half-made transfer; no slot is lost; the
  reaper takes nothing from a request at work; nobody waits for ever;
- **process lifecycle**: one user of the state directory; admitted handlers keep
  their state; every effect is audited; a shutdown ends;
- **audit log**: what is left is always the gapless end of what was written, and
  start-up accepts it;
- **file operations**: whatever fails and wherever the process dies, a rename, a
  move or a copy loses nothing it was not asked to remove, and its answer is true;
- **part arithmetic**: server and page cut the same file into the same parts, and
  what the server lists as received names exactly the recorded ones;
- **client queue**: whatever the user clicks while requests are under way, only
  the original file is sent, only what is published is shown as completed, and
  nothing is cancelled, forgotten or left waiting unasked;
- **page and editor**: an operation acts on what the user saw, the page does not
  rest on a listing its own change has overtaken, and a save replaces nothing its
  text was not made from.

## Modules

| Module | Models | Uses |
| --- | --- | --- |
| `ReliableUpload` | the abstract promise of an upload to its client | - |
| `UploadTransfer` | the durable life of transfers, write by write | refines `ReliableUpload` |
| `UploadStore` | the same handlers as goroutines over locks, quota and slots | - |
| `ServerLifecycle` | processes, state lock, gate, audited requests, shutdown | - |
| `AuditLog` | rotation and repair of the audit log, file operation by file operation | - |
| `FileOperations` | rename, move, copy, batches and saves, one call of the file system at a time | - |
| `UploadPlan` | how a file is cut into parts, on both sides, and the list of received ranges | - |
| `UploadQueue` | the page's upload queue and drawer, its record in the browser, and the upload API as the page meets it | - |
| `Session` | the session a page shows, the browser's cookie, and the directory at the server | - |
| `Editor` | the text editor and the server's version check | extends `Session` |
| `Workspace` | the page of a directory, composed with the editor and the session | extends `Editor` |
| `PageFunctions` | addresses of directories and files, amounts of bytes | - |
| `MC...` | small instances for TLC | the module they are named after |
| `...Proofs` | the theorems and their proofs | the module they are named after |

The upload code is modelled twice because its two difficulties are independent.
`UploadTransfer` gives every transfer one program counter, which the striped
lock justifies, and spends its states on disk errors, crashes and recovery.
`UploadStore` leaves the disk whole and spends them on the order in which
goroutines take `reapMu`, the stripes and the slots. `UploadTransfer` assumes
that a transfer's handlers exclude each other and that a scan meets no
half-made transfer; `UploadStore` proves both (`PartialStaysPrivate`).
`ServerLifecycle` likewise treats a record in the audit log as one step that
may fail, and `AuditLog` shows what that step does to the files. `UploadQueue`
meets the server as what `UploadTransfer` and `UploadStore` show it to be: a
transfer that exists or not, takes parts while it is active, completes once and
goes away when nobody touches it. `Workspace` meets an operation on
one name as one step on the names of a directory and their versions, and a batch as
its looks, renames and removals name by name; `FileOperations` shows what all of
them do to the disk, call by call, and takes from `UploadTransfer` that a publication
is one link under a free name.

### UploadTransfer

| State | In the code |
| --- | --- |
| `dir`, `manifest`, `partFile` | `uploads/<id>/`, its `manifest.json`, its part files |
| `stage`, `file` | the hidden stage beside the destination; the destinations |
| `away` | the folders of destinations that users have removed, renamed or moved, and may bring back |
| `stale` | the clock against `ExpiresAt`; a save that refreshes it resets it |
| `server`, `todo` | start-up in `NewUploadStore` and the loop of `recoverLocked` |
| `pc`, `op`, `arg` | the handler that holds the transfer's lock, and its call |
| `acked`, `done`, `linked` | history: what clients were told, which link still stands |

Every handler is cut at its durable effects: one action per file written,
renamed, linked or removed, and one more where an error leads elsewhere.
`Create` is `CreateBegin`, `CreateSave`, `CreateFail`; `WritePart` is
`PartRepeated`, `PartBegin`, `PartReceive`, `PartRecord`; `Complete` runs from
`CompleteBegin` through `PublishBegin`, `OpenStage`, `Assemble`, `SealStage`,
`Link`, `SyncDestination` to `MarkCompleted` and the clean-up;
`recoverFinalizing`, which Complete, Cancel and start-up share, is
`AdoptDestination`, `DiscardStage`, `RefuseToReconcile`, `Revive`, returning
to its caller by `op`. `SaveFailed` stands for a save that reports an error
before or after its rename. `Crash` may happen in every state; `UserFile`,
`FolderLeaves` and `FolderReturns` let users change the managed directory under the
server at any time. Every step that resolves the destination's folder
(`ResolveDirectory`) asks whether it is `Reachable`: recoverFinalizing does so before
it looks at anything else (upload_store.go:296), and cannot go on without. `Movable`
says which folders can go away; the managed root cannot.

Where a handler ends with an error the model tells two kinds apart, for the sake of
start-up: `Refuse` when it does not accept what it has read, `Fail` when the disk
reported an error. `server` is `"refused"` after the first and `"down"` after the
second or a crash. Start-up and the reaper go through the directories in the order
of their listing (`Place`); both end at the first manifest they cannot read
(`Recovering`, `ScanReaches`), so a directory that an error has left without its
manifest keeps the reaper from all that are listed behind it.

A digest identifies its content, so contents are model values and an assembled
file is a function from parts to contents. In `publish` the shortcut for a
destination that exists already (upload_publish.go:27-30) is not an action of
its own: `Complete` calls `publish` with an active manifest only, whose final
digest is empty, so the shortcut is never taken. A step is taken to be durable
when it returns: the code syncs what it writes before it relies on it, but for
the directory of all uploads after Create, where a power failure costs a transfer
that the client creates again.

### UploadStore

`reapMu` and `locks` are the mutexes, `partSlots` the buffered channel; `state`
and `stale` are what a manifest says; `due`, `entries` and `counted` belong to
the scan of whoever holds `reapMu`. `LockReap` samples the clock and the
directory as `reapExpiredLocked` does; `VisitEntry` waits for the stripe of one
entry and judges it by that sample; `Count` reads one manifest without any lock
of the transfer; `Admit`, `Refuse` and `SaveNew` finish Create. `TakeSlot` does
not wait, as the `select` with `default` in `WritePart` does not.

### ServerLifecycle

`main[p]` follows `run` and `web` of a process from the state lock to the exit;
`accepting`, `active` and `drained` are the request gate; a request goes through
`Admit` (or `TurnAway`), `CheckReady`, `RequireAudit`, `Work`, `FinishMutation` and
`Leave`. A part upload has no audit record of its own. `DeadlinePasses` is the timer
of the shutdown and `ForceExit` what follows when handlers are still inside;
`ListenerFails` is the error path of `Serve`, and `DrainUnheeded` that error arriving
while a shutdown is draining, which ends `web` without a look at the gate.
`StateIsExclusive` excuses the last pass of a reaper whose process has released the
lock, since no code waits for it; `DrainedIsFinal` catches a channel closed too
early, not one closed twice.

### AuditLog

`log` and `rotated` are the files as sets of record numbers, `torn` a line cut
short at the end, `mangled` a line written behind such an end. `Record` decides
on a rotation; `RemoveOldest`, `Shift`, `Promote` and `Reopen` are its file
operations; `RotationFails`, `AppendFails` and `Stop` end it anywhere. The
log's mutex makes one writer of all handlers. Records are of one length, so
`maxAuditLogBytes` becomes `Capacity` records, and `Stat` of the open file does
not fail (the code would rotate early). Two remarks: a rotation cut short costs
up to one file of retention, because the oldest is removed first
(`FullRetention` says exactly that); and a record whose write or sync fails may
still be in the file.

### FileOperations

| State | In the code |
| --- | --- |
| `disk` | the entry at each path: none, a file, or a directory with its files |
| `op` | the operation that holds `operationMu`, and where it stands: the sources and destinations of its items, the item at hand, what `copyEntry` has still to write, what MoveItem has copied to its temporary directory, what is left to clean up, the answer |
| `known`, `given`, `exposed` | history: the contents the server was given, those a user has removed or overwritten, those uploaded to a path of the operation while it ran |

An operation makes its checks in one step (`Begins`) and then one call of the file
system at a time, each of which may fail: `Rename`, `OpenCopy`, `CopyContent`,
`PromoteCopied`, `PromoteMoved`, `Unlink`, `RemoveItem`, `Truncate`, `Write`. `MoveBack` is
the rollback of a batch move, `CleanUp` the removal of what a copy has made, by
name. `Crash` may come between any two calls. `Publish` and `PublishInto` are uploads,
`Delete` and `DeleteIn` are `/do/rm`: none of them takes `operationMu`. A file is a
content that is there in full or not at all; what is torn counts as empty. A path is
a name in a folder, or that name with the suffix a batch copy stages under, which an
upload can have too. Folders do not contain each other, so a move into itself,
which the code refuses, cannot come up; the version of an entry is the entry; the
temporary directory of a move is the move's alone, and what a crash leaves of it is
not read again; `RemoveAll` is one step that may stop at any part.

### UploadPlan

Pure functions, no state. `PartCount`, `ExpectedPartSize`, `ReceivedRanges` and
`LimitsValid` are the server's; `SliceStart`, `SliceEnd` and `ReceivedIndexes` the
page's. `Accepted` is the length check of `WritePart`, which reads one byte more
than it expects. All sums of the code stay within an int64 as long as
`upload-max-bytes` is a chunk below its end, so they are sums of integers here.

### UploadQueue

JavaScript runs one callback at a time: a step is what the code does between two
awaits, and the helpers `Update`, `Pump`, `Ends`, `Fails`, `CancelEnds` are
functions of the page's state because one callback runs several of them in
sequence.

| State | In the code |
| --- | --- |
| `item[u]` | the `QueueItem`: phase, file, known status, the controller, the promise being resolved, the cancellation under way, the files being hashed after a choice |
| `run[w]` | a call of `run` under the limit of workers, and where it awaits |
| `attachment` | the item the file chooser was opened for |
| `wanted`, `leaving` | what the page has asked IndexedDB to record and to forget |
| `stored` | the records in IndexedDB |
| `server`, `published` | the transfers at the server, the names it has given |
| `foreign`, `asked`, `lost` | history: wrong bytes sent; what the user wanted ended; records that had not landed when the page was closed |

`HashEnds` to `CompleteLost` are the continuations of `run`, `CancelLookup`,
`CancelDeletes` and `CancelChecks` those of `cancel`, `AttachEnds` that of
`attachFile`, and `Add` to `Reload` what the user does. `Arrives` and
`DeleteArrives` let a request take effect before, or without, its answer; `Reap` is
the server's reaper. A completion that fails on the server may leave a transfer
`finalizing` until it is asked for again (`Reconcile`). The page waits for none of
its writes to IndexedDB (`void putStoredUpload`, queue.ts:63): what it has asked for
lands later, by `RecordLands` and `EraseLands`, or never. A page that is loaded
again starts with the records that have landed. A request that was given up has had
its effect by then or has none: one that is delayed past its own abort and then acts
is not modelled. Progress, notices and the bytes under a digest are left out; a file
is the original or another of the same name, size and date.

### Session, Editor and Workspace

`disk` is the directory at the server: a version for each name, and every write
makes one that never was (`EntryVersion`, path.go:252, taken to be unique).
`cookie` is the session the browser's cookie stands for, `session` and `csrf` what
the page believes. `OtherLogin` and `OtherChange` are everybody else.

The editor compares its text with the one it loaded or saved last and with the
one a save is sending; `base` is the version a save will name, `origin` (history)
the one the text was made from. Reads and saves are answered in any order.

In `Workspace`, `fetch` is the listing's query (asked, answered at the server,
arrived), `selected` the versions of the ticked names, `dialog` the menu, form or
confirmation that is open, `call` the operation under way, `owed` (history) the
last change of the page's own that it has been told of and does not show yet.

A batch is validated when it comes (`BatchValid`, decodeBatch), looks at the versions
once more under `operationMu` (`BatchCopies`, `BatchBegins`: revalidateSelection) and then
acts one name at a time: `BatchMoves` renames without another look and, after a
failure, `BatchRollsBack` and `Undoes` rename back, over whatever has come; `BatchLooks`
looks at the version of one name and `BatchRemoves` removes what is there then.
Between any two of these steps others delete and create, as `/do/rm` and publications
do, which take no lock. `BatchIsSeen` says what is left of the promise: a batch
touches the version that was ticked, or something that came to the name after the
operation's own last look (`since`), and nothing else. A page that is left while
a batch acts does not stop it (`Unheard`).

Simplifications, each named where it is made: the user starts one operation at a
time; forms that are not about the selection are opened with nothing ticked
(`Unticked`); while a file is edited the rest of the page is at rest (`AtRest`, and
`UploadsComplete` comes with no editor open); a single request nobody waits for any
more has had its effect or has none; the answer to a batch is not lost before the
batch ends (`CallFails`), and a page loaded again meanwhile starts after its end
(`Start`); the session check of a single operation or a save and its act are one
step, a save's look at the version and its write too (editor.go:110-117, taken apart in
`FileOperations`); and a batch's token is the session the listing was made in.

### PageFunctions

`ItemUrl`, `DirectoryPathFromLocation`, `EditorPathFromLocation` and
`DirectoryPathForEditor` on addresses as sequences of decoded segments;
`FormatBytes` on exact fractions.

## Runs

| Run | Question | Bounds |
| --- | --- | --- |
| `transfer_one` | does one transfer keep its promises under failing operations, crashes, expiry and users, does it implement `ReliableUpload`, does a start-up settle what it finds, and is every refusal to start explained? | one transfer, two parts, two contents, announced digest of one assembly or none, a folder that may go away; about 242,000 states |
| `transfer_live` | are expired transfers reclaimed? | two transfers of one part racing for one name, one listed before the other, a user's file there, a folder that stays, no disk errors; about 181,000 states |
| `transfer_ambiguous` | is an unfinished publication the only ambiguous state, as a comment says? (it is not) | one transfer, no disk errors |
| `store_safety` | do limits, privacy and slots hold under all interleavings? | two requests at a time and the reaper, three transfers, two stripes, one slot |
| `store_live` | does every call end? | two requests at a time and the reaper, two transfers under one stripe |
| `lifecycle_safety` | two processes on one directory with signals, failing records and crashes | two processes, an audited mutation and a part upload |
| `lifecycle_live` | does a shutdown end, is an admitted request answered? | one process, two requests |
| `lifecycle_listener` | does the gate keep the state when `Serve` fails? (it does not) | one process, one request |
| `upload_queue` | what can runs, cancellations, choices of files, lost answers and reloads do to an upload? | one upload, two workers, two parts, two attempts, the original file and another; about 940,000 states |
| `workspace` | does the page act on what the user saw, and does a save replace only what its text was made from? | two names, three changes of the directory, two logins, two unanswered reads; about 1.9 million states |
| `file_operations` | what do failures, crashes, publications and deletions in the middle of an operation cost? | two folders on one device or two, two names, a file and a directory to begin with, a batch of both, two operations, two acts of others; about 1.4 million states |
| `audit_rotation` | what do interrupted rotations and torn lines leave? | five rotations as in the code, two records a file, twenty records |

Why the bounds are enough to be telling. Two parts are the fewest for which a
transfer can be partly uploaded and for which assembling can mix contents. Two
transfers on one name give every race for a destination, one of them finding what
the other published, and the scan reaches one only past the other; more transfers
only add bystanders. In the store two transfers share a stripe and the third does
not, all limits can be reached, and `Size` makes the limit on bytes bind where that
on the number does not. Two processes give every overlap of an old and a new one.
Twenty records overflow six files of two and leave room for interrupted rotations.
Two workers let one upload be run twice at a time, which is where the queue is hard;
a second upload only takes a worker away. Two attempts give the first, the retry and
the last failure. Two names let a batch lose one of its names to somebody else, and
three changes let a name be replaced after it was listed and once more after it was
validated; two logins are one page's and another's. In `file_operations` a batch of
a file and a directory has a first and a last item, two acts of others let one take
away a destination and another come to it, and the second operation meets what a
crash of the first has left. What holds for any number is the subject of the
theorems.

The functions of `UploadPlan` and `PageFunctions` are checked by assumptions of
`MCUploadQueue` (`SlicesChecked`, `PartsChecked`, `LimitsChecked`, `RangesChecked`)
and `MCWorkspace` (`LinksChecked`, `AmountsChecked`), over files of up to nine bytes
in parts of up to five, paths of up to three names under bases of up to three,
and amounts around every rounding of the first three units.

`CHECK_DEADLOCK FALSE` is set where a behaviour really may end: in the lifecycle
runs every process runs once and every request is sent once; the users of
`upload_queue`, `workspace` and `file_operations` may stop, when every upload is used
up or the bounds on changes, logins and operations are reached. Symmetry is used in
safety runs only, over clients, over processes and over contents.

Each property is tied in `PROJECT.json` to a seeded fault (the definitions
commented "Seeded fault") that a plausible mistake in the code would amount to
and that the run detects.

### Fairness

- `UploadTransfer!FairSpec`: weak fairness of the handler that holds a lock
  (bodies are bounded by the server's read timeout); strong
  fairness of `ReapBegin`, because the ticker fires for ever and Go's mutexes
  hand over to the longest waiter after a millisecond, so a lock that is free
  again and again is taken. No fairness of requests, users, crashes, restarts or
  start-up; `ExpiredIsReclaimed` is therefore conditional on a process that stays up.
- `UploadStore!FairSpec`: strong fairness of each goroutine, for the same two
  reasons. Nobody is obliged to call, and nothing obliges the clock to expire.
- `ServerLifecycle!FairSpec`: weak fairness of start-up, of the shutdown sequence,
  of the deadline's timer and of the handlers' steps, except `Work`: an
  operation may hang for ever, and the shutdown must end all the same.
- `UploadQueue` and `Workspace` have no fairness: a `fetch` without a timeout may
  never be answered, so no liveness holds of the page by its own code. What can
  be asked is that nobody waits for something that will not come, and that is
  the invariant `NobodyStranded`.

## Theorems

The proofs hold for all values of the constants that satisfy the named
assumptions of the modules (finiteness, a `None` that is none of the values,
limits in `Nat`), with no bound on transfers, parts, goroutines, processes,
requests, rotations or records.

- **UploadTransferProofs.** The properties are not inductive: that `Link` publishes
  the promised file is true only because of what `Assemble` verified and `SealStage`
  saved before. `IInv` says for each program counter what has been established
  (`HandlerInv`), when part files may be missing (`PartsInv`), what clients were
  told (`ReplyInv`) and what a standing link implies (`LinkInv`). It speaks of one
  transfer at a time; a frame lemma says that a step of one transfer leaves it for
  all others. `KeepsPromise` is the refinement of `ReliableUpload`: for each group
  of steps one lemma says what a client sees of it, most of them nothing, and the
  step that is seen is one of the abstract transfer. `RefusalExplained` and
  `StartupReconciles` rest on `StartInv`: recovery works on one directory at a time,
  one that exists, and reaps only after the last; the second adds `ReconciledInv`,
  that a directory recovery is done with is settled and stays so. Neither assumes a
  disk that works: whatever failed before, what recovery reads and does not accept
  is one of the listed states, a folder that a user has taken away among them.
- **UploadStoreProofs.** The quota is safe because `reapMu` lets one Create count
  at a time (`MutexInv`), because no transfer becomes unfinished but under
  `reapMu` (`MakingInv`), and because during a count an unfinished transfer is
  counted or still to be read (`CountInv`): transfers may leave while they are
  counted, none can join. All safety properties of `store_safety` follow.
  Two theorems go a part of the way to `CallsEnd`, for any number of goroutines and
  stripes. `LocksAreOrdered`: a goroutine that waits has a holder that can take a step,
  or that waits itself, as a Create or the reaper does with `reapMu` in hand, for a
  last one that can; nobody waits in a circle although stripes are shared.
  `CallsStayBounded`: what a call has left (`Left`) shrinks with each of its own steps
  and with nobody else's does it grow. What remains for TLC is that a lock which is
  free again and again is taken.
- **ServerLifecycleProofs.** The gate counts the handlers inside (`CountInv`), and
  where the main goroutine stands tells what the gate was seen to be (`LockInv`,
  `QuietInv`, `DrainInv`). `HandlersKeepState`, `DirectoryHasOneUser` and
  `NobodyIsKilled` assume `~ListenerMayFail`; the run `lifecycle_listener` shows
  that without it the first is false. The other theorems need no such assumption;
  among them is `DrainIsNoticed`, that no wake-up is lost: the shutdown that waits for
  the gate finds `drained` closed exactly when nobody is inside (`ShutInv` is the half
  of it that `DrainedIsFinal` leaves out).
- **AuditLogProofs.** The place a file is renamed to is free (`PlaceInv`), the
  files are in order (`FilesInOrder`), and a file that is rotated holds a record
  (`RotationInv`). `FullRetention` needs an account of the gaps that rotations cut
  short have left: a file's records are older than its number says of full files,
  less one file for each such rotation and one for the place that the rotation under
  way has still to fill (`AgeInv`).
- **UploadQueueProofs.** Everything the page does between two awaits is a function
  of its state, so the invariant is one of that state: `Sound` says for each item
  and each run what its phase, file, status and place imply, `ServerSound` what the
  server's transfers owe to the record, asked for or lost, and to the user's
  requests. One lemma for each helper says that it leads from a sound page to a
  sound page and touches only the runs named (`Leads`); the lemmas compose as the
  calls do, and each action is then a few lines. `asked` is needed in the invariant
  because a late run cancels on behalf of a request made long before.
  `NobodyStranded` has an invariant of its own, `Staffed`: an upload that is
  uploading has a run; the promise its item keeps, and the one a cancellation
  awaits, is of a run that is asking; a cancellation has at most one run that waits
  for it and one only while it is under way; and no item is ready while a worker is
  free. Between two calls of one step the last is off by one item or one worker
  (`NearlyTight`) until `pump` runs. A run may change what it does only once nobody
  counts on its question, so each helper's lemma also says that it makes nobody
  count on the question of another (`Spares`), and that of a cancellation's end that
  it lets go of the one it awaited (`Settles`).
- **WorkspaceProofs.** `SaveInv` ties the version a save names to the text it sends,
  `OwedInv` says that a query that may still come to rest was asked after the last
  change, `SeenInv` that what a call or a dialog names was listed as it was ticked,
  `TakeInv` that a name a batch has still to take held the ticked version at the
  operation's last look or holds what came after it, and the token is always that of
  the session shown (`TokenShown`).
- **FileOperationsProofs.** `NothingElseIsLost` needs to know, at every step, that what
  the next call may replace or remove is backed elsewhere: `MoveInv` says that a move
  goes to a path that holds nothing needed (`Spare`) and removes its source only when
  the destination has its content; `CopyInv` that whatever a copy has made or may
  clean up is `Backed` by the sources; `RemovalInv` that a removal takes what was
  listed. What others do in between keeps all three up to what is excused (`Drift`).
  `AnswersAreTrue` needs more than a bound on what is lost: for each item that nobody
  else has touched, `ExactInv` gives the entries at its source, its destination and its
  place of staging as a function of what was there before and of where the operation
  stands (`MoveExact`, `CopyExact`, `BatchExact`, `CleanExact`, `RemovalExact`);
  `BeforeInv` says what the checks have established of the entries before, and
  `ContentInv` that a file never holds two contents, which the assumption on `Found`
  states of the directory as it was found.
- **UploadPlanProofs.** The arithmetic of parts for all sizes: multiplication and
  division of naturals first, then each statement of `UploadPlan` but those about
  sums and ranges, which are folds.

Type correctness is proved rather than checked, but in `UploadQueue`, where it is both.

All safety properties of the passing runs are proved, invariants, action properties
and the refinement, but for the functions computed by folds: ranges, sums of bytes,
addresses and amounts. Those and liveness are only model-checked, but for the parts of
it that are invariants (`NobodyStranded`, `LocksAreOrdered`, `DrainIsNoticed`): what a fold
computes for every input needs induction over data, and fairness and ENABLED are out
of the prover's reach.

## Where the code and its comments disagree

- upload_store.go:281-282 calls an unfinished publication "the only ambiguous
  durable state". `transfer_ambiguous` shows a second one: a crash between the
  `Mkdir` of Create and its first manifest leaves a directory at which every later
  start-up refuses, until somebody removes it by hand.
- request_gate.go:9-10 says that the gate keeps the runtime state alive until each
  admitted handler has returned. `lifecycle_listener` shows that when `Serve`
  itself fails (main.go:1314-1319), `web` returns without stopping or draining the
  gate, and the audit log is closed and the state lock released under handlers.

## What else the models brought to light

Behaviour that contradicts no sentence of the code and that a maintainer may want
to know:

- *A completion whose answer is lost.* When all three answers to a completion are
  lost, or the page is loaded again at that point, the run that follows finds the
  upload completed with no parts received (upload_publish.go:150 clears them),
  sends a part, is refused with 409 and shows the item as failed, though the file
  is there (queue.ts:210-219). README.md:107 asks clients to read the completed
  result instead.
- *A pause that cancels.* A pause while a run asks for the upload's state makes the
  run cancel the upload at the server (queue.ts:205-206); the same click a moment
  later only pauses. `CancelledOnRequest` counts such a pause as a request.
- *A pause nobody notices.* A pause while a part's bytes are hashed has no request
  to abort: the part is sent all the same, and after the last part the upload is
  completed (queue.ts:212-219).
- *Two runs of one upload.* An item resumed before its aborted run has ended is run
  twice at a time. Nothing wrong is published, but one run may show as failed what
  the other completes.
- *A paused item whose transfer the server has reaped* cannot be resumed in the
  page: it looks up what it knows to be active and finds nothing.
- *A record that is not waited for.* The page sends the create request without
  waiting until its record is in the browser (queue.ts:63, storage.ts:33). When the page
  is closed in between, or the write fails, the transfer stays at the server until it
  expires and nothing in the browser can continue or cancel it; `lost` is the record
  of these.
- *A removal during a cancellation* does nothing; the item stays listed.
- *The editor.* A 401 to a save leaves the page with the draft; a save whose answer
  is lost shows the editor's own change as a conflict; a reload answered late
  replaces what has been typed since it was asked for.
- *The page.* When the query for a listing fails, the old listing stays with its
  buttons; the closing of the editor does not refresh it; a page whose cookie has
  become another session's fails with a notice at every change until it is loaded
  again (`ActsAsShown` says that it never succeeds).
- *A folder under an unfinished publication.* When the folder of a transfer left
  `finalizing` is removed, renamed or moved, no start-up gets past it
  (upload_store.go:296), not even after the transfer's expiry, until the folder is
  back or the transfer's directory is removed by hand. Until the restart only the
  calls for that transfer fail.
- *One directory that cannot be read*, as an error may leave, ends every pass of the
  reaper (upload_store.go:623-627), so that nothing listed behind it is reclaimed, and
  makes every Create fail, which sweeps first (346).
- *A reaper's last pass* may still be under way when its process has released the lock
  on the state directory, so a second process may recover beside it for a moment.
- *Uploads under an operation.* `RenameItem`, `MoveItem` and the batches may replace, and
  `CopyItem` and the clean-up of a batch may remove, a file that an upload publishes
  at their destination after their check, because publication does not take
  `operationMu`; an upload that has a staging name is promoted or removed as the
  batch's own. `exposed` is the record of these, and the theorem says that nothing
  else is lost.
- *A move to another device whose source cannot be removed.* The rollback
  (operations.go:264) renames to the other device again and so fails like the first
  rename; the answer is always `execution_partial`, with the entry in both places.
- *A failed save.* `os.WriteFile` empties the file first: when the write fails, or the
  process dies, the old text is lost with the new one (editor.go:117).
- *A batch move that fails at its first item* answers `execution_partial` although
  nothing has changed (operations.go:402).
- *A crash in a batch copy* leaves a staging name that makes later copies to that
  place fail as busy until it is removed by hand.
- *Changed limits.* A start-up judges every manifest, completed ones too, by the
  limits configured now (upload_store.go:787): after a change of
  `upload-chunk-bytes` it may refuse to start.

## Not modelled, and why

- **Authentication** (`auth/`). Sessions and listing tokens are modelled as the page
  meets them. The counting of login attempts, the bound on password checks and
  one-time tickets meet the rest of the system in the answer 401 only.
- **Archives and properties.** Formats and descriptions are data.
- **Legacy chunks** (`main.go`). Best effort by their own documentation, emptied at
  start-up, not used by the page.
- **Paths and listings** are functions of the file system at one moment; name
  validation, containment and symbolic links have no state of their own.
- **Appearance, language, configuration, platform files** keep no state that
  changes; HTTP headers, error texts and permissions are data no property here
  depends on.
- **Losses of unsynced writes** in a power failure: see `UploadTransfer`.
