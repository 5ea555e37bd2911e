----------------------------- MODULE Workspace -----------------------------
(***************************************************************************)
(* The page of one directory (src/web/src/components/Workspace.tsx and its *)
(* parts): the query for the listing, the selection, the menu, the forms   *)
(* and dialogs, the file operations they start, and the editor, while      *)
(* other pages and programs change the directory and the browser's cookie. *)
(* A request for one name acts at the server in one step and is answered   *)
(* in another; a batch is validated when it comes, looked at once more     *)
(* under the lock of the operations and then acts name by name, while      *)
(* deletions and uploads of others, which take no lock, go on.             *)
(***************************************************************************)
EXTENDS Editor, Sequences

CONSTANTS
    Attributes,  \* what the listing says of each name besides its version
    Mutable,     \* the capability mutate
    CanUpload,   \* the capability upload
    Folders,     \* the directories of the root, as paths
    Current      \* the page's own directory

Attribute == [kind : {"file", "directory"}, archive : BOOLEAN, previewable : BOOLEAN, editable : BOOLEAN]

ASSUME WorkspaceAssumption ==
    /\ Attributes \in [Name -> Attribute]
    /\ Mutable \in BOOLEAN /\ CanUpload \in BOOLEAN
    /\ Folders \subseteq Seq(Name) /\ <<>> \in Folders /\ Current \in Folders
    /\ \A f \in Folders : f # <<>> => SubSeq(f, 1, Len(f) - 1) \in Folders

VARIABLES
    listing,   \* the listing shown
    fetch,     \* the query for the listing
    selected,  \* the selection: the version a name had when it was ticked, or 0
    dialog,    \* the menu, form or dialog that is open
    call,      \* the file operation under way
    owed       \* history: the last change of the page's own it was told of and does not show yet

data == <<listing, fetch, selected>>
vars == <<site, who, editor, data, dialog, call, owed>>

Listing == [token : Sessions, entries : Versions]
NoListing == [token |-> 0, entries |-> NoVersions]
Fetch == [pc : {"idle", "asked", "answered", "failed"}, got : Listing, at : Version]
Query(pc) == [pc |-> pc, got |-> NoListing, at |-> 0]

Forms == {"create", "rename", "move", "copy", "batchMove", "batchCopy"}
Choosing == {"move", "copy", "batchMove", "batchCopy"}
Dialog == [kind : Forms \cup {"none", "menu", "delete", "batchDelete", "properties", "uploads"},
           entry : Name \cup {NoName}, entries : Versions, destination : Folders]
Show(kind, n) == [kind |-> kind, entry |-> n, entries |-> NoVersions, destination |-> Current]
NoDialog == Show("none", NoName)

Singles == {"create", "rename", "rm", "move", "copy", "zip", "unzip", "md5"}
Batches == {"batchDelete", "batchMove", "batchCopy", "batchZip"}
\* sent: what the page named.  ticked (history): what the user had ticked.
\* awaited: the page still waits for the answer.  Of a batch at the server: the
\* names it has left, the one it has looked at to delete it, those it has taken
\* away, and when it looked at what it takes away next, since.
Call == [pc : {"none", "sent", "valid", "acting", "undoing", "failed", "ok"},
         endpoint : Singles \cup Batches, name : Name \cup {NoName},
         sent : Versions, ticked : Versions, token : Sessions, at : Version, awaited : BOOLEAN,
         left : SUBSET Name, looked : Name \cup {NoName}, taken : Versions, since : Version]
NoCall == [pc |-> "none", endpoint |-> "md5", name |-> NoName, sent |-> NoVersions,
           ticked |-> NoVersions, token |-> 0, at |-> 0, awaited |-> TRUE,
           left |-> {}, looked |-> NoName, taken |-> NoVersions, since |-> 0]

Init ==
    /\ SessionInit /\ EditorInit
    /\ listing = NoListing /\ fetch = Query("idle") /\ selected = NoVersions
    /\ dialog = NoDialog /\ call = NoCall /\ owed = 0

-----------------------------------------------------------------------------
(* The page and its session.                                               *)

\* The server goes on with a batch whose answer nobody waits for any more.
Working == call.pc \in {"valid", "acting", "undoing"}
Unheard == call' = IF Working THEN [call EXCEPT !.awaited = FALSE] ELSE NoCall

\* A page that is left or loaded anew has lost all it knew, an edited text too.
Blank ==
    /\ editor' = NoEditor /\ listing' = NoListing /\ fetch' = Query("idle") /\ selected' = NoVersions
    /\ dialog' = NoDialog /\ Unheard /\ owed' = 0

\* The browser asks before it leaves a page with an edited text.
PageLoad == view = "in" /\ LoadPage /\ Blank /\ UNCHANGED site

\* Bound: a page that is loaded anew starts when the batch of the last one has ended.
Start == ~Working /\ GetSession /\ fetch' = Query("asked") /\ UNCHANGED <<editor, listing, selected, dialog, call, owed>>
StartFails == GetSessionFails /\ Blank
SignIn == Login /\ Blank

Waiting == fetch.pc = "asked" \/ call.pc = "sent" \/ editor.save = "sent" \/ \E i \in Load : editor.load[i] = "asked"
Unauthorized == view = "in" /\ cookie = 0 /\ Waiting /\ Unauthenticated /\ Blank

\* Without a listing the page shows nothing to work with, and an open dialog or
\* editor covers it.  Bound: the user waits for the end of an operation.
HasListing == listing # NoListing
Usable == view = "in" /\ HasListing /\ dialog = NoDialog /\ ~IsOpen /\ call = NoCall
Entries == {n \in Name : listing.entries[n] # 0}
SelectedEntries == {n \in Entries : selected[n] # 0}
\* Bound: dialogs that are not about the selection are opened when it is empty.
Unticked == Usable /\ selected = NoVersions

SignOut == Usable /\ Logout /\ Blank

-----------------------------------------------------------------------------
(* The listing.                                                            *)

Asked == fetch' = Query("asked") /\ selected' = NoVersions
\* Mutant: a refresh is content with a query that is already under way.
Refresh_Joins ==
    /\ fetch' = IF fetch.pc \in {"asked", "answered"} THEN fetch ELSE Query("asked")
    /\ selected' = NoVersions

\* refresh: an answer that is still to come would be from before the change.
Refresh == Asked

\* getListing, with a token for the operations on what it shows.
ListingServed ==
    /\ fetch.pc = "asked" /\ cookie # 0
    /\ fetch' = [pc |-> "answered", got |-> [token |-> cookie, entries |-> disk], at |-> clock]
    /\ UNCHANGED <<site, who, editor, listing, selected, dialog, call, owed>>

\* The editor of a file the page's address names is opened with the first listing.
Routed(n) == editor' = IF n = NoName THEN editor ELSE Opened(n)
Shown == owed' = IF fetch.at >= owed THEN 0 ELSE owed
\* Mutant: a new listing leaves the selection as it was.
ListingArrives_KeepsSelection(n) ==
    /\ view = "in" /\ fetch.pc = "answered" /\ (HasListing => n = NoName)
    /\ listing' = fetch.got /\ fetch' = Query("idle") /\ Routed(n) /\ Shown
    /\ UNCHANGED <<site, who, selected, dialog, call>>

\* A listing with a new token clears the selection.
ListingArrives(n) ==
    /\ view = "in" /\ fetch.pc = "answered" /\ (HasListing => n = NoName)
    /\ listing' = fetch.got /\ fetch' = Query("idle") /\ selected' = NoVersions /\ Routed(n) /\ Shown
    /\ UNCHANGED <<site, who, dialog, call>>

ListingFails ==
    /\ fetch.pc \in {"asked", "answered"}
    /\ fetch' = Query("failed")
    /\ UNCHANGED <<site, who, editor, listing, selected, dialog, call, owed>>

\* The error view without a listing, and the refresh button with one, which
\* does nothing while a query is under way.
Retry ==
    /\ view = "in" /\ ~HasListing /\ fetch.pc = "failed"
    /\ fetch' = Query("asked")
    /\ UNCHANGED <<site, who, editor, listing, selected, dialog, call, owed>>
ManualRefresh ==
    /\ Usable /\ fetch.pc \in {"idle", "failed"}
    /\ Asked
    /\ UNCHANGED <<site, who, editor, listing, dialog, call, owed>>

\* onAllComplete of the upload queue, which works on behind the other dialogs.
UploadsComplete ==
    /\ view = "in" /\ HasListing /\ CanUpload /\ ~IsOpen
    /\ Refresh
    /\ UNCHANGED <<site, who, editor, listing, dialog, call, owed>>

-----------------------------------------------------------------------------
(* The selection.                                                          *)

Selects(s) == selected' = s /\ UNCHANGED <<site, who, editor, listing, fetch, dialog, call, owed>>
Select(n) == Usable /\ n \in Entries /\ Selects([selected EXCEPT ![n] = IF @ = 0 THEN listing.entries[n] ELSE 0])
SelectAll == Usable /\ Selects(listing.entries)
ClearSelection == Usable /\ Selects(NoVersions)

-----------------------------------------------------------------------------
(* Operations: bound, one at a time.                                       *)

\* mutation.mutate names a path; batch.mutate names the entries of the listing
\* that are selected, with the versions it shows, and does nothing without any.
Sends(endpoint, n) ==
    call' = [NoCall EXCEPT !.pc = "sent", !.endpoint = endpoint, !.name = n]
DoBatch(endpoint) ==
    call' = IF SelectedEntries = {} THEN call
            ELSE [NoCall EXCEPT !.pc = "sent", !.endpoint = endpoint, !.token = listing.token,
                     !.sent = [n \in Name |-> IF selected[n] # 0 THEN listing.entries[n] ELSE 0],
                     !.ticked = selected]

\* What an operation on one name makes of the directory; what it makes elsewhere
\* is not seen here.  An archive is unpacked into one name.
Creates(n) == disk[n] = 0 /\ Writes(n)
Renamed(n, to) == clock' = clock + 1 /\ disk' = [disk EXCEPT ![n] = 0, ![to] = disk[n]]
SingleActs ==
    LET n == call.name  e == call.endpoint IN
    \/ e = "create" /\ \E to \in Name : Creates(to)
    \/ e \in {"zip", "unzip", "md5"} /\ disk[n] # 0 /\ \E to \in Name : Creates(to)
    \/ e = "rename" /\ disk[n] # 0 /\ clock < MaxClock /\ \E to \in Name : disk[to] = 0 /\ Renamed(n, to)
    \/ e \in {"rm", "move"} /\ Removes(n)
    \/ e = "copy" /\ disk[n] # 0 /\ UNCHANGED files
Succeeds(at) == [NoCall EXCEPT !.pc = "ok", !.endpoint = call.endpoint, !.at = at]
ServerStep == UNCHANGED <<cookie, logins, who, editor, data, dialog, owed>>
SingleServed ==
    /\ call.pc = "sent" /\ Authorized /\ call.endpoint \in Singles /\ SingleActs
    /\ call' = Succeeds(clock')
    /\ ServerStep

-----------------------------------------------------------------------------
(* A batch at the server.                                                  *)

Named == {n \in Name : call.sent[n] # 0}
Unchanged == {n \in Named : disk[n] = call.sent[n]}
Validated == call' = [call EXCEPT !.pc = "valid", !.token = 0] /\ UNCHANGED <<site, who, editor, data, dialog, owed>>
\* Mutant: a token shows a listing of anybody.
BatchValid_AnyToken ==
    /\ call.pc = "sent" /\ cookie # 0 /\ call.endpoint \in Batches /\ Named \subseteq Unchanged
    /\ Validated

\* decodeBatch: ReadListing and ValidateSelection.
BatchValid ==
    /\ call.pc = "sent" /\ Authorized /\ call.endpoint \in Batches
    /\ call.token = cookie /\ Named \subseteq Unchanged
    /\ Validated

\* The answer, if the page still waits for one.
Fails == [NoCall EXCEPT !.pc = "failed"]
Answers(c) == call' = IF call.awaited THEN c ELSE NoCall
Takes(S, looked) == call' = [call EXCEPT !.pc = "acting", !.left = S, !.since = looked]

\* revalidateSelection: a copy, which changes nothing here, or a move goes on only
\* if nothing has changed, a deletion without what has.  The names of the folder
\* to move or copy to, or the audit log, may refuse the batch.
BatchCopies ==
    /\ call.pc = "valid" /\ call.endpoint \in {"batchCopy", "batchZip"} /\ Named \subseteq Unchanged
    /\ Answers(Succeeds(clock)) /\ UNCHANGED files /\ ServerStep
BatchRefused == call.pc = "valid" /\ Answers(Fails) /\ UNCHANGED files /\ ServerStep
\* Mutant: what was valid when the request came is acted on.
BatchBegins_Trusts ==
    /\ call.pc = "valid" /\ call.endpoint \in {"batchMove", "batchDelete"}
    /\ Takes(Named, clock) /\ UNCHANGED files /\ ServerStep
BatchBegins ==
    /\ call.pc = "valid"
    /\ \/ call.endpoint = "batchMove" /\ Named \subseteq Unchanged /\ Takes(Named, clock)
       \/ call.endpoint = "batchDelete" /\ Takes(Unchanged, 0)
    /\ UNCHANGED files /\ ServerStep

\* BatchMove renames what it finds, one name after the other, whatever has come to
\* the name since it looked.  The first rename that fails ends it: what has been
\* moved is renamed back, onto what may have come meanwhile, or stays moved; that
\* brings back a version and makes none.
Acting(endpoint) == call.pc = "acting" /\ call.endpoint = endpoint
BatchMoves(n) ==
    /\ Acting("batchMove") /\ n \in call.left /\ Removes(n)
    /\ call' = [call EXCEPT !.left = @ \ {n}, !.taken[n] = disk[n]]
    /\ ServerStep
BatchRollsBack ==
    /\ Acting("batchMove") /\ call.left # {}
    /\ call' = [call EXCEPT !.pc = "undoing", !.left = {}]
    /\ UNCHANGED files /\ ServerStep
Undoes(n) ==
    /\ call.pc = "undoing" /\ call.taken[n] # 0
    /\ call' = [call EXCEPT !.taken[n] = 0]
    /\ disk' \in {disk, [disk EXCEPT ![n] = call.taken[n]]} /\ clock' = clock
    /\ ServerStep

\* BatchDelete looks at each name once more and removes then what is there; it
\* goes on after a removal that failed; a folder that is gone counts as removed.
BatchLooks(n) ==
    /\ Acting("batchDelete") /\ call.looked = NoName /\ n \in call.left
    /\ call' = [call EXCEPT !.left = @ \ {n}, !.since = clock, !.looked = IF n \in Unchanged THEN n ELSE NoName]
    /\ UNCHANGED files /\ ServerStep
BatchRemoves ==
    /\ call.looked # NoName
    /\ LET n == call.looked
           Tells(v) == call' = [call EXCEPT !.looked = NoName, !.since = 0, !.taken[n] = v] IN
       \/ Removes(n) /\ Tells(call.sent[n])
       \/ disk[n] = 0 /\ Attributes[n].kind = "directory" /\ Tells(call.sent[n]) /\ UNCHANGED files
       \/ Tells(0) /\ UNCHANGED files
    /\ ServerStep

\* A deletion of less than all is an error.
BatchEnds ==
    /\ call.left = {} /\ call.looked = NoName
    /\ \/ Acting("batchMove") /\ Answers(Succeeds(clock))
       \/ call.pc = "undoing" /\ call.taken = NoVersions /\ Answers(Fails)
       \/ Acting("batchDelete") /\ Answers(IF \A n \in Named : call.taken[n] # 0 THEN Succeeds(clock) ELSE Fails)
    /\ UNCHANGED files /\ ServerStep

BatchChanges == BatchRemoves \/ \E n \in Name : BatchMoves(n) \/ Undoes(n)
BatchStep ==
    \/ BatchValid \/ BatchCopies \/ BatchRefused \/ BatchBegins \/ BatchRollsBack
    \/ (\E n \in Name : BatchLooks(n)) \/ BatchChanges \/ BatchEnds

-----------------------------------------------------------------------------
(* The answer.                                                             *)

\* onSuccess: the listing is read again, but not for a download.
CallDone ==
    /\ call.pc = "ok"
    /\ IF call.endpoint = "batchZip" THEN UNCHANGED <<fetch, selected, owed>>
       ELSE owed' = call.at /\ Refresh
    /\ call' = NoCall
    /\ UNCHANGED <<site, who, editor, listing, dialog>>

\* onError: a notice and nothing else, though the operation may have acted.
\* Bound: the answer to a batch is not lost before the batch has ended.
CallFails ==
    /\ call.pc # "none" /\ ~Working
    /\ call' = NoCall
    /\ UNCHANGED <<site, who, editor, data, dialog, owed>>

-----------------------------------------------------------------------------
(* The menu of an entry.                                                   *)

\* entryActions and entryMenuActions.
EntryActions(n) ==
    LET file == Attributes[n].kind = "file" IN
    {"properties"} \cup (IF file THEN {"download"} ELSE {})
        \cup (IF file /\ Attributes[n].previewable THEN {"preview"} ELSE {})
        \cup (IF file /\ Attributes[n].editable THEN {"edit"} ELSE {})
        \cup (IF ~Mutable THEN {}
              ELSE {"rename", "move", "copy", "delete"} \cup (IF file THEN {"md5"} ELSE {"zip"})
                       \cup (IF Attributes[n].archive THEN {"unzip"} ELSE {}))
HoverActions == {"download", "properties"}
DialogActions == {"properties", "rename", "move", "copy", "delete"}
Operations == {"zip", "unzip", "md5"}

Shows(d) == dialog' = d /\ UNCHANGED <<site, who, editor, data, call, owed>>
OpenMenu(n) == Unticked /\ n \in Entries /\ Shows(Show("menu", n))

\* performEntryAction, from the menu or from the row; a preview leaves the page.
Chosen(n, a) ==
    /\ \/ dialog.kind = "menu" /\ dialog.entry = n
       \/ a \in HoverActions /\ Unticked /\ n \in Entries
    /\ a \in EntryActions(n)
\* Bound: while a file is edited the rest of the page stands still.
AtRest == fetch.pc = "idle"
OpenEditor(n) ==
    /\ Chosen(n, "edit") /\ AtRest
    /\ editor' = Opened(n) /\ dialog' = NoDialog
    /\ UNCHANGED <<site, who, data, call, owed>>
OpenEntryDialog(n, a) ==
    /\ a \in DialogActions /\ Chosen(n, a)
    /\ Shows(Show(a, n))
Operate(n, a) ==
    /\ a \in Operations /\ Chosen(n, a) /\ call = NoCall
    /\ Sends(a, n) /\ dialog' = NoDialog
    /\ UNCHANGED <<site, who, editor, data, owed>>
Download(n) == Chosen(n, "download") /\ dialog # NoDialog /\ Shows(NoDialog)
Preview(n) == Chosen(n, "preview") /\ LoadPage /\ Blank /\ UNCHANGED site

-----------------------------------------------------------------------------
(* Forms and dialogs.                                                      *)

OpenCreate == Unticked /\ Mutable /\ Shows(Show("create", NoName))
OpenUploads == Unticked /\ CanUpload /\ Shows(Show("uploads", NoName))
OpenBatch(kind) ==
    /\ kind \in {"batchMove", "batchCopy", "batchDelete"}
    /\ Usable /\ Mutable /\ SelectedEntries # {}
    /\ Shows([Show(kind, NoName) EXCEPT !.entries = IF kind = "batchDelete" THEN selected ELSE @])
DownloadZip ==
    /\ Usable /\ call = NoCall /\ SelectedEntries # {} /\ DoBatch("batchZip")
    /\ UNCHANGED <<site, who, editor, data, dialog, owed>>
CloseDialog == dialog # NoDialog /\ Shows(NoDialog)

\* FolderDestinationPicker: up, to an ancestor, or to one of the folders listed,
\* which asks for its folders in turn.
Parent(f) == SubSeq(f, 1, Len(f) - 1)
Navigate(f) ==
    /\ dialog.kind \in Choosing /\ f \in Folders /\ f # dialog.destination
    /\ \/ \E k \in 0..Len(dialog.destination) : f = SubSeq(dialog.destination, 1, k)
       \/ f # <<>> /\ Parent(f) = dialog.destination
    /\ Shows([dialog EXCEPT !.destination = f])

\* EntryForm: submit; nothing is moved or copied to the folder it is in.
SubmitForm ==
    /\ dialog.kind \in Forms /\ call = NoCall
    /\ dialog.kind \in Choosing => dialog.destination # Current
    /\ IF dialog.kind \in Batches THEN DoBatch(dialog.kind) ELSE Sends(dialog.kind, dialog.entry)
    /\ dialog' = NoDialog
    /\ UNCHANGED <<site, who, editor, data, owed>>

ConfirmDelete ==
    /\ dialog.kind \in {"delete", "batchDelete"} /\ call = NoCall
    /\ IF dialog.kind = "delete" THEN Sends("rm", dialog.entry) ELSE DoBatch("batchDelete")
    /\ dialog' = NoDialog
    /\ UNCHANGED <<site, who, editor, data, owed>>

-----------------------------------------------------------------------------
PageStep ==
    \/ PageLoad \/ Start \/ StartFails \/ SignIn \/ SignOut \/ Unauthorized
    \/ ListingServed \/ ListingFails \/ Retry \/ ManualRefresh \/ UploadsComplete
    \/ SelectAll \/ ClearSelection
    \/ SingleServed \/ BatchStep \/ CallDone \/ CallFails
    \/ OpenCreate \/ OpenUploads \/ DownloadZip \/ CloseDialog
    \/ SubmitForm \/ ConfirmDelete
    \/ \E n \in Name \cup {NoName} : ListingArrives(n)
    \/ \E n \in Name : Select(n) \/ OpenMenu(n) \/ OpenEditor(n) \/ Download(n) \/ Preview(n)
    \/ \E n \in Name, a \in DialogActions : OpenEntryDialog(n, a)
    \/ \E n \in Name, a \in Operations : Operate(n, a)
    \/ \E kind \in Batches : OpenBatch(kind)
    \/ \E f \in Folders : Navigate(f)

Elsewhere == (OtherLogin \/ \E n \in Name : OtherChange(n)) /\ UNCHANGED <<editor, data, dialog, call, owed>>

Next == PageStep \/ (EditorStep /\ UNCHANGED <<data, dialog, call, owed>>) \/ Elsewhere

Spec == Init /\ [][Next]_vars

-----------------------------------------------------------------------------
TypeOK ==
    /\ SessionTypeOK /\ editor \in Buffer
    /\ listing \in Listing /\ fetch \in Fetch /\ selected \in Versions
    /\ dialog \in Dialog /\ call \in Call /\ owed \in Version

\* The listing at rest is not older than the last change of the page's own that
\* it was told of: a query under way when the change was made is not enough
\* (refresh; invalidateQueries cancels it).
OwnChangesShown == HasListing /\ fetch.pc = "idle" => owed = 0

\* What a batch takes away, or writes over when it is rolled back, is what the
\* user had ticked, whatever listings have come and gone in between and whatever
\* others have done since the request was valid, or has come to the name after
\* the operation last looked at it: the code shuts nobody out between its look
\* and the rename or removal (batchBody, revalidateSelection, BatchDelete).
BatchIsSeen ==
    [][BatchChanges => \A n \in Name : disk'[n] # disk[n] /\ disk[n] # 0 =>
          disk[n] = call.ticked[n] \/ disk[n] > call.since]_vars

\* A batch deletion deletes what the dialog asked about, although it is the
\* selection at the time of the answer that is sent (confirmDelete).
ConfirmedIsDeleted ==
    [][ConfirmDelete /\ call' # call /\ dialog.kind = "batchDelete" => call'.sent = dialog.entries]_vars

\* A save replaces only the version its text was made from or one that this
\* editor has written itself, however reads, saves and reloads are answered: what
\* somebody else has written is never lost to a text made before it (load, save).
OthersChangesKept ==
    [][editor.save = "sent" /\ editor'.save = "done" =>
          disk[editor.of] \in {editor.sent.origin} \cup editor.mine]_vars

\* The server takes nothing from the page in another session than the one it
\* shows, though its cookie may have become another's (csrfHeaders, ReadListing).
ActsAsShown == [][SingleServed \/ BatchValid \/ SaveServed => cookie = session]_vars
=============================================================================
