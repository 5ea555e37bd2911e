--------------------------- MODULE WorkspaceProofs ---------------------------
(***************************************************************************)
(* Proofs about Workspace: of any number of names, changes, logins and     *)
(* reads, and for any rights of the user.                                  *)
(***************************************************************************)
EXTENDS Workspace, TLAPS

\* setSession shows a session and takes its token together.
TokenShown == csrf = session

\* A base is what the text was made from or what the editor has written since,
\* and a closed editor waits for nothing.
SaveInv ==
    /\ editor.of = NoName => editor = NoEditor
    /\ editor.base \in {editor.origin} \cup editor.mine
    /\ editor.sent.base \in {editor.sent.origin} \cup editor.mine
    /\ editor.save = "done" => editor.saved \in editor.mine

\* An answer that has come is not older than what is owed, or the query is not at rest.
OwedInv ==
    /\ owed <= clock /\ call.at <= clock
    /\ fetch.pc = "answered" => fetch.at >= owed
    /\ fetch.pc = "idle" => owed = 0

\* What is ticked is what the listing shows, and a dialog asks about the selection
\* or about a name.
SeenInv ==
    /\ \A n \in Name : selected[n] # 0 => selected[n] = listing.entries[n]
    /\ \A n \in Name : call.sent[n] # 0 => call.ticked[n] = call.sent[n]
    /\ dialog.kind = "batchDelete" => selected \in {NoVersions, dialog.entries}
    /\ dialog.kind \in {"rename", "move", "copy", "delete"} => dialog.entry \in Name
    /\ call.pc = "sent" /\ call.endpoint \in Singles \ {"create"} => call.name \in Name

\* The names a batch takes away or writes over with no further look at them are
\* gone, as the user ticked them, or newer than its look.
Busy == call.pc \in {"acting", "undoing"}
Taking == IF call.endpoint = "batchDelete" THEN {call.looked} \cap Name
          ELSE call.left \cup {n \in Name : call.taken[n] # 0}
TakeInv ==
    /\ ~Busy => call.left = {} /\ call.looked = NoName /\ call.taken = NoVersions /\ call.since = 0
    /\ Busy => call.endpoint \in {"batchMove", "batchDelete"}
    /\ call.pc = "undoing" \/ call.endpoint = "batchMove" => call.looked = NoName
    /\ call.pc = "undoing" => call.endpoint = "batchMove" /\ call.left = {}
    /\ call.left \subseteq Named /\ call.since <= clock
    /\ \A n \in Taking : disk[n] \in {0, call.ticked[n]} \/ disk[n] > call.since

PageInv == TypeOK /\ TokenShown /\ SaveInv /\ OwedInv /\ SeenInv
IInv == PageInv /\ TakeInv

-----------------------------------------------------------------------------
LEMMA BlankValues ==
    /\ NoVersions \in Versions
    /\ NoListing \in Listing
    /\ NoEditor \in Buffer
    /\ NoCall \in Call
    /\ NoDialog \in Dialog
<1>1. NoVersions \in Versions
  BY SessionAssumption DEF NoVersions, Versions, Version
<1>2. NoListing \in Listing
  BY <1>1, SessionAssumption DEF NoListing, Listing, Sessions
<1>3. NoEditor \in Buffer
  BY SessionAssumption, EditorAssumption DEF NoEditor, Buffer, Version, Load
<1>4. NoCall \in Call
  BY <1>1, SessionAssumption DEF NoCall, Call, Singles, Batches, Sessions, Version
<1>5. NoDialog \in Dialog
  BY <1>1, WorkspaceAssumption DEF NoDialog, Show, Dialog, Forms
<1> QED  BY <1>1, <1>2, <1>3, <1>4, <1>5

LEMMA QueryType ==
    ASSUME NEW pc \in {"idle", "asked", "answered", "failed"}
    PROVE  Query(pc) \in Fetch
BY BlankValues, SessionAssumption DEF Query, Fetch, Version

LEMMA ShowType ==
    ASSUME NEW kind \in Forms \cup {"none", "menu", "delete", "batchDelete", "properties", "uploads"},
           NEW n \in Name \cup {NoName}
    PROVE  Show(kind, n) \in Dialog
BY BlankValues, WorkspaceAssumption DEF Show, Dialog

LEMMA OpenedType ==
    ASSUME NEW n \in Name
    PROVE  Opened(n) \in Buffer
BY BlankValues, EditorAssumption DEF Opened, Buffer, Load

\* Of a call nobody waits for any more the server's part is left, if there is one.
LEMMA UnheardType ==
    ASSUME PageInv, Unheard
    PROVE  /\ call' \in Call /\ call'.at <= clock /\ call'.pc # "sent"
           /\ \A n \in Name : call'.sent[n] # 0 => call'.ticked[n] = call'.sent[n]
<1>1. CASE Working
  BY <1>1 DEF Unheard, Working, PageInv, TypeOK, Call, OwedInv, SeenInv
<1>2. CASE ~Working
  <2>1. call' = NoCall
    BY <1>2 DEF Unheard
  <2> QED  BY <2>1, BlankValues, SessionAssumption DEF NoCall, NoVersions, PageInv, TypeOK, SessionTypeOK
<1> QED  BY <1>1, <1>2

LEMMA PageInvStarts == Init => PageInv
<1> SUFFICES ASSUME Init PROVE PageInv
  OBVIOUS
<1> USE DEF Init, SessionInit, EditorInit
<1>1. TypeOK
  <2>1. SessionTypeOK
    BY SessionAssumption DEF SessionTypeOK, Versions, Version, Sessions
  <2> QED  BY <2>1, BlankValues, QueryType, SessionAssumption DEF TypeOK, Version
<1>2. SaveInv
  BY DEF SaveInv, NoEditor
<1>3. OwedInv /\ SeenInv /\ TokenShown
  BY DEF OwedInv, SeenInv, TokenShown, NoCall, Query, NoVersions, NoDialog, Show
<1> QED  BY <1>1, <1>2, <1>3 DEF PageInv

-----------------------------------------------------------------------------
(* The page and its session.                                               *)

LEMMA BlankStep ==
    ASSUME PageInv, Blank, csrf' = session', SessionTypeOK', clock' = clock
    PROVE  PageInv'
<1> USE DEF Blank
<1>1. TypeOK'
  BY BlankValues, QueryType, UnheardType, SessionAssumption DEF TypeOK, Version
<1>2. SaveInv'
  BY DEF SaveInv, NoEditor
<1>3. OwedInv' /\ SeenInv' /\ TokenShown'
  BY UnheardType DEF PageInv, TypeOK, SessionTypeOK, OwedInv, SeenInv, TokenShown, Query, NoVersions, NoDialog, Show
<1> QED  BY <1>1, <1>2, <1>3 DEF PageInv

LEMMA SessionSteps ==
    ASSUME PageInv, PageLoad \/ StartFails \/ SignIn \/ SignOut \/ Unauthorized \/ \E n \in Name : Preview(n)
    PROVE  PageInv'
<1>1. CASE PageLoad
  BY <1>1, BlankStep, SessionAssumption DEF PageInv, TypeOK, PageLoad, LoadPage, SetSession, SessionTypeOK, site, Sessions
<1>2. CASE StartFails
  BY <1>2, BlankStep, SessionAssumption DEF PageInv, TypeOK, StartFails, GetSessionFails, Unauthenticated, SetSession, SessionTypeOK, site, Sessions
<1>3. CASE SignIn
  BY <1>3, BlankStep, SessionAssumption DEF PageInv, TypeOK, SignIn, Login, LoadPage, SetSession, SessionTypeOK, files, Sessions
<1>4. CASE SignOut
  BY <1>4, BlankStep, SessionAssumption DEF PageInv, TypeOK, SignOut, Logout, LoadPage, SetSession, SessionTypeOK, files, Sessions
<1>5. CASE Unauthorized
  BY <1>5, BlankStep, SessionAssumption DEF PageInv, TypeOK, Unauthorized, Unauthenticated, SetSession, SessionTypeOK, site, Sessions
<1>6. CASE \E n \in Name : Preview(n)
  BY <1>6, BlankStep, SessionAssumption DEF PageInv, TypeOK, Preview, LoadPage, SetSession, SessionTypeOK, site, Sessions
<1> QED  BY <1>1, <1>2, <1>3, <1>4, <1>5, <1>6

LEMMA StartStep ==
    ASSUME PageInv, Start
    PROVE  PageInv'
<1> USE DEF PageInv, Start, GetSession, SetSession, data
<1>1. TypeOK'
  BY QueryType, SessionAssumption DEF TypeOK, SessionTypeOK, site, Sessions
<1>2. TokenShown' /\ SaveInv' /\ OwedInv' /\ SeenInv'
  BY DEF TypeOK, SessionTypeOK, TokenShown, SaveInv, OwedInv, SeenInv, site, Query
<1> QED  BY <1>1, <1>2

-----------------------------------------------------------------------------
(* The listing and the selection.                                          *)

LEMMA ListingSteps ==
    ASSUME PageInv, ListingServed \/ ListingFails \/ Retry \/ ManualRefresh \/ UploadsComplete
    PROVE  PageInv'
<1> USE DEF site, who, files
<1>1. CASE ListingServed
  <2>1. TypeOK'
    BY <1>1 DEF PageInv, TypeOK, SessionTypeOK, ListingServed, Fetch, Listing, Version, Sessions
  <2>2. TokenShown' /\ SaveInv' /\ OwedInv' /\ SeenInv'
    BY <1>1, SessionAssumption DEF PageInv, TypeOK, SessionTypeOK, ListingServed, TokenShown, SaveInv, OwedInv, SeenInv, Version
  <2> QED  BY <2>1, <2>2 DEF PageInv
<1>2. CASE ListingFails
  <2>1. TypeOK'
    BY <1>2, QueryType DEF PageInv, TypeOK, SessionTypeOK, ListingFails
  <2>2. TokenShown' /\ SaveInv' /\ OwedInv' /\ SeenInv'
    BY <1>2 DEF PageInv, ListingFails, TokenShown, SaveInv, OwedInv, SeenInv, Query
  <2> QED  BY <2>1, <2>2 DEF PageInv
<1>3. CASE Retry
  <2>1. TypeOK'
    BY <1>3, QueryType DEF PageInv, TypeOK, SessionTypeOK, Retry
  <2>2. TokenShown' /\ SaveInv' /\ OwedInv' /\ SeenInv'
    BY <1>3 DEF PageInv, Retry, TokenShown, SaveInv, OwedInv, SeenInv, Query
  <2> QED  BY <2>1, <2>2 DEF PageInv
<1>4. CASE ManualRefresh \/ UploadsComplete
  <2> USE <1>4 DEF ManualRefresh, UploadsComplete, Refresh, Asked
  <2>1. TypeOK'
    BY QueryType, BlankValues DEF PageInv, TypeOK, SessionTypeOK
  <2>2. TokenShown' /\ SaveInv' /\ OwedInv' /\ SeenInv'
    BY DEF PageInv, TokenShown, SaveInv, OwedInv, SeenInv, Query, NoVersions
  <2> QED  BY <2>1, <2>2 DEF PageInv
<1> QED  BY <1>1, <1>2, <1>3, <1>4

LEMMA ListingArrivesStep ==
    ASSUME PageInv, NEW n \in Name \cup {NoName}, ListingArrives(n)
    PROVE  PageInv'
<1> USE DEF ListingArrives, Routed, Shown, site, who, files
<1>1. TypeOK'
  BY QueryType, BlankValues, OpenedType, SessionAssumption DEF PageInv, TypeOK, SessionTypeOK, Fetch, Version
<1>2. SaveInv'
  BY SessionAssumption DEF PageInv, SaveInv, Opened, NoEditor
<1>3. OwedInv'
  BY DEF PageInv, TypeOK, SessionTypeOK, OwedInv, Query, Version
<1>4. TokenShown' /\ SeenInv'
  BY DEF PageInv, TokenShown, SeenInv, NoVersions
<1> QED  BY <1>1, <1>2, <1>3, <1>4 DEF PageInv

LEMMA SelectionSteps ==
    ASSUME PageInv, SelectAll \/ ClearSelection \/ \E n \in Name : Select(n)
    PROVE  PageInv'
<1> USE DEF SelectAll, ClearSelection, Select, Selects, site, who, files
<1>1. TypeOK'
  BY BlankValues, SessionAssumption DEF PageInv, TypeOK, SessionTypeOK, Listing, Versions, Version
<1>2. SeenInv'
  BY DEF PageInv, TypeOK, Listing, Versions, SeenInv, NoVersions, Usable, NoDialog, Show
<1>3. TokenShown' /\ SaveInv' /\ OwedInv'
  BY DEF PageInv, TokenShown, SaveInv, OwedInv
<1> QED  BY <1>1, <1>2, <1>3 DEF PageInv

-----------------------------------------------------------------------------
(* Operations.                                                             *)

LEMMA SendsType ==
    ASSUME NEW e \in Singles, NEW n \in Name \cup {NoName}, Sends(e, n)
    PROVE  /\ call' \in Call /\ call'.at = 0 /\ call'.sent = NoVersions
           /\ call'.endpoint = e /\ call'.name = n
BY BlankValues, SessionAssumption DEF Sends, NoCall, Call

LEMMA DoBatchType ==
    ASSUME PageInv, NEW e \in Batches, DoBatch(e)
    PROVE  /\ call' \in Call /\ call'.at <= clock
           /\ \A n \in Name : call'.sent[n] # 0 => call'.ticked[n] = call'.sent[n]
           /\ call' # call => call'.sent = selected /\ selected # NoVersions /\ call'.endpoint = e
<1>1. CASE SelectedEntries = {}
  BY <1>1 DEF DoBatch, PageInv, TypeOK, OwedInv, SeenInv
<1>2. CASE SelectedEntries # {}
  <2> DEFINE s == [n \in Name |-> IF selected[n] # 0 THEN listing.entries[n] ELSE 0]
  <2>1. s = selected
    BY DEF PageInv, TypeOK, Versions, SeenInv
  <2>2. call' = [NoCall EXCEPT !.pc = "sent", !.endpoint = e, !.token = listing.token, !.sent = s, !.ticked = selected]
    BY <1>2 DEF DoBatch
  <2>3. selected # NoVersions
    BY <1>2 DEF SelectedEntries, Entries, NoVersions
  <2>4. call' \in Call
    BY <2>1, <2>2, BlankValues, SessionAssumption DEF NoCall, Call, PageInv, TypeOK, Listing, Version
  <2>5. call'.at <= clock /\ call'.sent = selected /\ call'.ticked = selected /\ call'.endpoint = e
    BY <2>1, <2>2, SessionAssumption DEF NoCall, PageInv, TypeOK, SessionTypeOK
  <2> QED  BY <2>3, <2>4, <2>5
<1> QED  BY <1>1, <1>2

LEMMA FileTypes ==
    ASSUME SessionTypeOK, NEW n \in Name, Writes(n) \/ Removes(n)
    PROVE  /\ disk' \in Versions /\ clock' \in 1..MaxClock
           /\ clock' = clock + 1
BY SessionAssumption DEF SessionTypeOK, Writes, Removes, Versions, Version

LEMMA SucceedsType ==
    ASSUME call \in Call, NEW at \in Version
    PROVE  /\ Succeeds(at) \in Call /\ Succeeds(at).pc = "ok" /\ Succeeds(at).at = at
           /\ Succeeds(at).sent = NoVersions
BY BlankValues DEF Succeeds, NoCall, Call

LEMMA SingleServedStep ==
    ASSUME PageInv, SingleServed
    PROVE  PageInv'
<1> USE DEF SingleServed, ServerStep, who, data, files
<1>1. /\ disk' \in Versions /\ clock' \in 1..MaxClock
      /\ clock' \in {clock, clock + 1}
  <2> USE DEF PageInv, TypeOK, SessionTypeOK, Versions, Version
  <2>0. call.endpoint # "create" => call.name \in Name
    BY DEF SeenInv
  <2>1. CASE \E to \in Name : Creates(to)
    BY <2>1, FileTypes DEF Creates
  <2>2. CASE call.name \in Name /\ Removes(call.name)
    BY <2>2, FileTypes
  <2>3. CASE disk[call.name] # 0 /\ call.name \in Name /\ clock < MaxClock /\ \E to \in Name : Renamed(call.name, to)
    BY <2>3, SessionAssumption DEF Renamed
  <2>4. CASE UNCHANGED files
    BY <2>4
  <2> QED  BY <2>0, <2>1, <2>2, <2>3, <2>4 DEF SingleActs, Singles
<1>2. clock' \in Version
  BY <1>1, SessionAssumption DEF Version
<1>3. /\ call' \in Call /\ call'.pc = "ok" /\ call'.at = clock' /\ call'.sent = NoVersions
  BY <1>2, SucceedsType DEF PageInv, TypeOK
<1>4. TypeOK'
  BY <1>1, <1>3 DEF PageInv, TypeOK, SessionTypeOK
<1>5. TokenShown' /\ SaveInv' /\ SeenInv'
  BY <1>3 DEF PageInv, TokenShown, SaveInv, SeenInv, NoVersions
<1>6. OwedInv'
  BY <1>1, <1>3 DEF PageInv, TypeOK, SessionTypeOK, Version, OwedInv
<1> QED  BY <1>4, <1>5, <1>6 DEF PageInv

\* A batch keeps the types of the files and brings the clock forward.
LEMMA BatchFiles ==
    ASSUME PageInv, BatchStep
    PROVE  /\ disk' \in Versions /\ clock' \in 1..MaxClock /\ clock <= clock'
           /\ UNCHANGED <<cookie, logins, who, editor, data, dialog, owed>>
<1> USE SessionAssumption DEF PageInv, TypeOK, SessionTypeOK, ServerStep, site, files
<1>1. CASE BatchValid \/ BatchCopies \/ BatchRefused \/ BatchBegins \/ BatchRollsBack \/ BatchEnds
  BY <1>1 DEF BatchValid, Validated, BatchCopies, BatchRefused, BatchBegins, BatchRollsBack, BatchEnds
<1>2. CASE \E n \in Name : BatchLooks(n)
  BY <1>2 DEF BatchLooks
<1>3. CASE \E n \in Name : BatchMoves(n)
  BY <1>3, FileTypes DEF BatchMoves
<1>4. CASE \E n \in Name : Undoes(n)
  <2>1. PICK n \in Name : Undoes(n)
    BY <1>4
  <2>2. call.taken[n] \in Version
    BY DEF Call, Versions
  <2>3. [disk EXCEPT ![n] = call.taken[n]] \in Versions
    BY <2>2 DEF Versions
  <2> QED  BY <2>1, <2>3 DEF Undoes
<1>5. CASE BatchRemoves
  <2>1. call.looked \in Name
    BY <1>5 DEF BatchRemoves, Call
  <2> QED  BY <1>5, <2>1, FileTypes DEF BatchRemoves
<1> QED  BY <1>1, <1>2, <1>3, <1>4, <1>5 DEF BatchStep, BatchChanges

LEMMA BatchCalls ==
    ASSUME PageInv, BatchStep
    PROVE  /\ call' \in Call /\ call'.at <= clock'
           /\ call'.pc = "sent" => call.pc = "sent" /\ call'.endpoint = call.endpoint /\ call'.name = call.name
           /\ \/ call'.sent = call.sent /\ call'.ticked = call.ticked
              \/ call'.sent = NoVersions
<1>0. /\ call \in Call /\ call.at <= clock' /\ 0 <= clock' /\ clock \in Version /\ clock <= clock'
      /\ 0 \in Version /\ 0 \in Sessions
  BY BatchFiles, SessionAssumption DEF PageInv, TypeOK, SessionTypeOK, OwedInv, Call, Version, Sessions
<1>1. CASE BatchValid
  BY <1>0, <1>1 DEF BatchValid, Validated, Call
<1>2. CASE BatchCopies \/ BatchRefused \/ BatchEnds
  <2>1. call' \in {NoCall, Fails, Succeeds(clock)}
    BY <1>2 DEF BatchCopies, BatchRefused, BatchEnds, Answers
  <2>2. Fails \in Call /\ Fails.at = 0 /\ Fails.pc = "failed" /\ Fails.sent = NoVersions
    BY BlankValues DEF Fails, NoCall, Call
  <2>3. NoCall.at = 0 /\ NoCall.pc = "none" /\ NoCall.sent = NoVersions
    BY DEF NoCall
  <2> QED  BY <1>0, <2>1, <2>2, <2>3, BlankValues, SucceedsType
<1>3. CASE BatchBegins
  <2>1. Named \subseteq Name /\ Unchanged \subseteq Name
    BY DEF Named, Unchanged
  <2> QED  BY <1>0, <1>3, <2>1 DEF BatchBegins, Takes, Call
<1>4. CASE BatchRollsBack
  BY <1>0, <1>4 DEF BatchRollsBack, Call
<1>5. CASE \E n \in Name : BatchLooks(n)
  <2>1. PICK n \in Name, m \in Name \cup {NoName} :
           call' = [call EXCEPT !.left = @ \ {n}, !.since = clock, !.looked = m]
    BY <1>5 DEF BatchLooks
  <2> QED  BY <1>0, <2>1 DEF Call
<1>6. CASE \E n \in Name : BatchMoves(n)
  <2>1. PICK n \in Name : BatchMoves(n)
    BY <1>6
  <2>2. disk[n] \in Version
    BY DEF PageInv, TypeOK, SessionTypeOK, Versions
  <2>3. [call.taken EXCEPT ![n] = disk[n]] \in Versions
    BY <1>0, <2>2 DEF Call, Versions
  <2> QED  BY <1>0, <2>1, <2>3 DEF BatchMoves, Acting, Call
<1>7. CASE \E n \in Name : Undoes(n)
  <2>1. PICK n \in Name : Undoes(n)
    BY <1>7
  <2>2. [call.taken EXCEPT ![n] = 0] \in Versions
    BY <1>0 DEF Call, Versions
  <2> QED  BY <1>0, <2>1, <2>2 DEF Undoes, Call
<1>8. CASE BatchRemoves
  <2>1. PICK v \in Version : call' = [call EXCEPT !.looked = NoName, !.since = 0, !.taken[call.looked] = v]
    BY <1>0, <1>8 DEF BatchRemoves, Call, Versions
  <2>2. call.looked \in Name
    BY <1>0, <1>8 DEF BatchRemoves, Call
  <2>3. [call.taken EXCEPT ![call.looked] = v] \in Versions
    BY <1>0, <2>2 DEF Call, Versions
  <2> QED  BY <1>0, <1>8, <2>1, <2>3 DEF BatchRemoves, Call
<1> QED  BY <1>1, <1>2, <1>3, <1>4, <1>5, <1>6, <1>7, <1>8 DEF BatchStep, BatchChanges

LEMMA BatchSteps ==
    ASSUME PageInv, BatchStep
    PROVE  PageInv'
<1> USE BatchFiles, BatchCalls DEF who, data
<1>1. TypeOK'
  BY DEF PageInv, TypeOK, SessionTypeOK
<1>2. TokenShown' /\ SaveInv' /\ SeenInv'
  BY DEF PageInv, TokenShown, SaveInv, SeenInv, NoVersions
<1>3. OwedInv'
  BY SessionAssumption DEF PageInv, TypeOK, SessionTypeOK, Call, Version, OwedInv
<1> QED  BY <1>1, <1>2, <1>3 DEF PageInv

LEMMA AnswerSteps ==
    ASSUME PageInv, CallDone \/ CallFails
    PROVE  PageInv'
<1> USE DEF CallDone, CallFails, who, data, site, files
<1>1. TypeOK'
  BY QueryType, BlankValues DEF Refresh, Asked, PageInv, TypeOK, SessionTypeOK, Call
<1>2. TokenShown' /\ SaveInv' /\ SeenInv'
  BY DEF Refresh, Asked, PageInv, TokenShown, SaveInv, SeenInv, NoVersions, NoCall
<1>3. OwedInv'
  BY DEF Refresh, Asked, PageInv, TypeOK, SessionTypeOK, OwedInv, Query, NoCall, Version
<1> QED  BY <1>1, <1>2, <1>3 DEF PageInv

-----------------------------------------------------------------------------
(* Menu, forms and dialogs.                                                *)

\* A dialog may be shown unless it asks about another set than the selection.
LEMMA ShowsStep ==
    ASSUME PageInv, NEW d \in Dialog, Shows(d), d.kind = "batchDelete" => d.entries = selected,
           d.kind \in {"rename", "move", "copy", "delete"} => d.entry \in Name
    PROVE  PageInv'
BY DEF Shows, PageInv, TypeOK, SessionTypeOK, TokenShown, SaveInv, OwedInv, SeenInv, site, who, data, files

LEMMA DialogSteps ==
    ASSUME PageInv, \/ OpenCreate \/ OpenUploads \/ CloseDialog
                    \/ \E n \in Name : OpenMenu(n) \/ Download(n)
                    \/ \E n \in Name, a \in DialogActions : OpenEntryDialog(n, a)
                    \/ \E kind \in Batches : OpenBatch(kind)
                    \/ \E f \in Folders : Navigate(f)
    PROVE  PageInv'
<1>1. CASE OpenCreate \/ OpenUploads
  <2>1. \E kind \in {"create", "uploads"} : Shows(Show(kind, NoName))
    BY <1>1 DEF OpenCreate, OpenUploads
  <2> QED  BY <2>1, ShowType, ShowsStep DEF Show, Forms
<1>2. CASE CloseDialog \/ \E n \in Name : Download(n)
  <2>1. Shows(NoDialog)
    BY <1>2 DEF CloseDialog, Download
  <2> QED  BY <2>1, BlankValues, ShowsStep DEF NoDialog, Show
<1>3. CASE \E n \in Name : OpenMenu(n)
  BY <1>3, ShowType, ShowsStep DEF OpenMenu, Show
<1>4. CASE \E n \in Name, a \in DialogActions : OpenEntryDialog(n, a)
  <2>1. PICK n \in Name, a \in DialogActions : Shows(Show(a, n))
    BY <1>4 DEF OpenEntryDialog
  <2>2. Show(a, n) \in Dialog
    BY ShowType DEF DialogActions, Forms
  <2> QED  BY <2>1, <2>2, ShowsStep DEF Show, DialogActions
<1>5. CASE \E kind \in Batches : OpenBatch(kind)
  <2>1. PICK kind \in {"batchMove", "batchCopy", "batchDelete"} :
            Shows([Show(kind, NoName) EXCEPT !.entries = IF kind = "batchDelete" THEN selected ELSE @])
    BY <1>5 DEF OpenBatch
  <2> DEFINE d == [Show(kind, NoName) EXCEPT !.entries = IF kind = "batchDelete" THEN selected ELSE @]
  <2>2. Show(kind, NoName) \in Dialog
    BY ShowType DEF Forms
  <2>3. d \in Dialog /\ (d.kind = "batchDelete" => d.entries = selected) /\ d.kind = kind
    BY <2>2 DEF PageInv, TypeOK, Dialog, Show
  <2> HIDE DEF d
  <2> QED  BY <2>1, <2>3, ShowsStep DEF d
<1>6. CASE \E f \in Folders : Navigate(f)
  <2>1. PICK f \in Folders : Navigate(f)
    BY <1>6
  <2> DEFINE d == [dialog EXCEPT !.destination = f]
  <2>2. d \in Dialog /\ d.kind # "batchDelete" /\ d.kind = dialog.kind /\ d.entry = dialog.entry
    BY <2>1 DEF Navigate, PageInv, TypeOK, Dialog, Choosing
  <2>3. Shows(d) /\ (d.kind \in {"rename", "move", "copy", "delete"} => d.entry \in Name)
    BY <2>1, <2>2 DEF Navigate, PageInv, SeenInv
  <2> HIDE DEF d
  <2> QED  BY <2>2, <2>3, ShowsStep
<1> QED  BY <1>1, <1>2, <1>3, <1>4, <1>5, <1>6

\* What is sent starts an operation, and its dialog closes.
LEMMA SendingStep ==
    ASSUME PageInv, UNCHANGED <<site, who, editor, data, owed>>,
           dialog' \in {dialog, NoDialog},
           \/ \E e \in Singles, n \in Name \cup {NoName} :
                 Sends(e, n) /\ (e # "create" => n \in Name)
           \/ \E e \in Batches : DoBatch(e)
    PROVE  PageInv'
<1> USE DEF site, who, data, files
<1>1. /\ call' \in Call /\ call'.at <= clock
      /\ \A n \in Name : call'.sent[n] # 0 => call'.ticked[n] = call'.sent[n]
      /\ call' = call \/ call'.endpoint \in Batches \cup {"create"} \/ call'.name \in Name
  BY SendsType, DoBatchType DEF NoVersions, PageInv, TypeOK, SessionTypeOK
<1>2. TypeOK'
  BY <1>1, BlankValues DEF PageInv, TypeOK, SessionTypeOK
<1>3. TokenShown' /\ SaveInv' /\ SeenInv' /\ OwedInv'
  BY <1>1 DEF PageInv, TokenShown, SaveInv, SeenInv, OwedInv, NoDialog, Show, Singles, Batches
<1> QED  BY <1>2, <1>3 DEF PageInv

LEMMA SendingSteps ==
    ASSUME PageInv, \/ DownloadZip \/ SubmitForm \/ ConfirmDelete
                    \/ \E n \in Name, a \in Operations : Operate(n, a)
    PROVE  PageInv'
<1>1. CASE DownloadZip
  BY <1>1, SendingStep DEF DownloadZip, Batches
<1>2. CASE SubmitForm
  BY <1>2, SendingStep DEF SubmitForm, Batches, Singles, Forms, PageInv, TypeOK, Dialog, SeenInv
<1>3. CASE ConfirmDelete
  BY <1>3, SendingStep DEF ConfirmDelete, Batches, Singles, PageInv, TypeOK, Dialog, SeenInv
<1>4. CASE \E n \in Name, a \in Operations : Operate(n, a)
  BY <1>4, SendingStep DEF Operate, Operations, Singles, data
<1> QED  BY <1>1, <1>2, <1>3, <1>4

LEMMA OpenEditorStep ==
    ASSUME PageInv, NEW n \in Name, OpenEditor(n)
    PROVE  PageInv'
<1> USE DEF OpenEditor, site, who, data, files
<1>1. TypeOK'
  BY OpenedType, BlankValues DEF PageInv, TypeOK, SessionTypeOK
<1>2. TokenShown' /\ SaveInv' /\ SeenInv' /\ OwedInv'
  BY SessionAssumption DEF PageInv, TokenShown, SaveInv, SeenInv, OwedInv, NoDialog, Show, Opened, NoEditor
<1> QED  BY <1>1, <1>2 DEF PageInv

-----------------------------------------------------------------------------
(* The editor.                                                             *)

\* A step of the editor, or of the server for it, disturbs nothing else.
EditorKeeps == SessionTypeOK' /\ clock <= clock' /\ csrf' = csrf /\ session' = session /\ UNCHANGED <<data, dialog, call, owed>>

LEMMA EditorFrame ==
    ASSUME PageInv, EditorKeeps, editor' \in Buffer, SaveInv'
    PROVE  PageInv'
<1>1. TypeOK'
  BY DEF PageInv, TypeOK, EditorKeeps, data
<1>2. TokenShown' /\ SeenInv'
  BY DEF PageInv, TokenShown, SeenInv, EditorKeeps, data
<1>3. OwedInv'
  BY SessionAssumption DEF PageInv, TypeOK, SessionTypeOK, Call, Version, OwedInv, EditorKeeps, data
<1> QED  BY <1>1, <1>2, <1>3 DEF PageInv

LEMMA AnsweredType ==
    ASSUME editor \in Buffer
    PROVE  Answered(editor) \in Buffer
<1>1. 0 \in Version
  BY SessionAssumption DEF Version
<1> QED  BY <1>1 DEF Answered, NoEditor, Buffer

LEMMA LoadSteps ==
    ASSUME PageInv, NEW i \in Load, LoadServed(i) \/ LoadArrives(i) \/ LoadFails(i) \/ Reload(i)
    PROVE  editor' \in Buffer /\ SaveInv' /\ UNCHANGED <<site, who>>
<1> USE SessionAssumption, EditorAssumption DEF PageInv, TypeOK, SessionTypeOK, SaveInv
<1>1. CASE LoadServed(i)
  <2>1. editor.of \in Name
    BY <1>1 DEF LoadServed, NoEditor, Buffer
  <2>2. PICK v \in Version : editor' = [editor EXCEPT !.load[i] = "read", !.read[i] = v]
    BY <1>1, <2>1 DEF LoadServed, Versions
  <2>3. editor' \in Buffer
    BY <2>2 DEF Buffer
  <2> QED  BY <1>1, <2>1, <2>2, <2>3 DEF LoadServed, Buffer
<1>2. CASE LoadArrives(i)
  <2>1. editor.read[i] \in Version /\ 0 \in Version
    BY DEF Buffer, Version
  <2>2. editor' \in Buffer
    BY <1>2, <2>1 DEF LoadArrives, Buffer
  <2>3. SaveInv'
    BY <1>2, <2>1 DEF LoadArrives, Buffer, NoEditor
  <2> QED  BY <1>2, <2>1, <2>2, <2>3 DEF LoadArrives
<1>3. CASE LoadFails(i)
  <2>1. 0 \in Version
    BY DEF Version
  <2>2. editor' \in Buffer
    BY <1>3, <2>1 DEF LoadFails, Buffer
  <2>3. SaveInv'
    BY <1>3, <2>1 DEF LoadFails, Buffer, NoEditor
  <2> QED  BY <1>3, <2>1, <2>2, <2>3 DEF LoadFails
<1>4. CASE Reload(i)
  <2>1. editor' \in Buffer
    BY <1>4 DEF Reload, Buffer
  <2>2. SaveInv'
    BY <1>4 DEF Reload, Buffer, NoEditor
  <2> QED  BY <1>4, <2>1, <2>2 DEF Reload
<1> QED  BY <1>1, <1>2, <1>3, <1>4

LEMMA TextSteps ==
    ASSUME PageInv, \/ \E v \in {"original", "sending", "other"} : Type(v)
                    \/ Save \/ SaveAndClose \/ SaveConflicts \/ SaveFails
    PROVE  editor' \in Buffer /\ SaveInv' /\ UNCHANGED <<site, who>>
<1> USE SessionAssumption DEF PageInv, TypeOK, SaveInv
<1>1. CASE \E v \in {"original", "sending", "other"} : Type(v)
  <2>1. editor' \in Buffer
    BY <1>1 DEF Type, Buffer
  <2>2. SaveInv'
    BY <1>1 DEF Type, IsOpen, Buffer, NoEditor
  <2> QED  BY <1>1, <2>1, <2>2 DEF Type
<1>2. CASE Save \/ SaveAndClose
  <2>1. PICK closing \in BOOLEAN : SaveStarts(closing)
    BY <1>2 DEF Save, SaveAndClose
  <2>2. editor' \in Buffer
    BY <2>1, ZenonT(40) DEF SaveStarts, Dirty, Buffer
  <2>3. SaveInv'
    BY <2>1 DEF SaveStarts, Dirty, Buffer, NoEditor
  <2> QED  BY <2>1, <2>2, <2>3 DEF SaveStarts, Dirty
<1>3. CASE SaveConflicts \/ SaveFails
  <2>1. PICK conflict \in BOOLEAN : SaveFailed(conflict)
    BY <1>3 DEF SaveConflicts, SaveFails
  <2>2. editor' \in Buffer
    BY <2>1, AnsweredType, ZenonT(40) DEF SaveFailed, Buffer
  <2>3. SaveInv'
    BY <1>3, <2>1 DEF SaveConflicts, SaveFails, SaveFailed, Answered, NoEditor, Buffer
  <2> QED  BY <1>3, <2>2, <2>3 DEF SaveConflicts, SaveFails
<1> QED  BY <1>1, <1>2, <1>3

LEMMA SaveServedStep ==
    ASSUME PageInv, SaveServed
    PROVE  /\ editor' \in Buffer /\ SaveInv' /\ UNCHANGED <<cookie, logins, who>>
           /\ SessionTypeOK' /\ clock' = clock + 1
<1> USE DEF SaveServed, SaveWrites
<1>1. editor.of \in Name
  BY DEF PageInv, TypeOK, SaveInv, NoEditor, Buffer
<1>2. SessionTypeOK' /\ clock' = clock + 1 /\ clock + 1 \in Version
  BY <1>1, FileTypes DEF PageInv, TypeOK, SessionTypeOK, Version, who
<1>3. editor' = [editor EXCEPT !.save = "done", !.saved = clock + 1, !.mine = @ \cup {clock + 1}]
  OBVIOUS
<1>4. editor' \in Buffer
  <2>1. editor \in Buffer /\ editor.mine \cup {clock + 1} \in SUBSET Version
    BY <1>2 DEF PageInv, TypeOK, Buffer
  <2> QED  BY <1>2, <1>3, <2>1 DEF Buffer
<1>5. SaveInv'
  BY <1>1, <1>2, <1>3, SessionAssumption DEF PageInv, TypeOK, Buffer, SaveInv
<1> QED  BY <1>2, <1>4, <1>5

LEMMA CloseSteps ==
    ASSUME PageInv, SaveDone \/ Close \/ Discard \/ KeepEditing
    PROVE  editor' \in Buffer /\ SaveInv' /\ UNCHANGED <<site, who>>
<1> USE SessionAssumption DEF PageInv, TypeOK, SaveInv
<1>1. CASE editor' = NoEditor
  BY <1>1, BlankValues DEF NoEditor, SaveDone, Close, Discard, KeepEditing
<1>2. CASE SaveDone /\ editor' = Saved(editor)
  <2>1. Answered(editor) \in Buffer
    BY AnsweredType
  <2>2. PICK o \in Version, v \in {"original", "other"} :
           editor' = [Answered(editor) EXCEPT !.base = editor.saved, !.conflicted = FALSE, !.origin = o, !.value = v]
    BY <1>2, <2>1 DEF Saved, Buffer
  <2>3. editor' \in Buffer
    BY <2>1, <2>2 DEF Buffer
  <2>4. SaveInv'
    BY <1>2, <2>2 DEF SaveDone, Answered, NoEditor, Buffer
  <2> QED  BY <1>2, <2>3, <2>4 DEF SaveDone
<1>3. CASE (Close \/ KeepEditing) /\ editor' # NoEditor
  <2>1. PICK d \in BOOLEAN : editor' = [editor EXCEPT !.discarding = d]
    BY <1>3 DEF Close, KeepEditing
  <2>2. editor' \in Buffer
    BY <2>1 DEF Buffer
  <2>3. SaveInv'
    BY <1>3, <2>1 DEF Close, KeepEditing, IsOpen, NoEditor, Buffer
  <2> QED  BY <1>3, <2>2, <2>3 DEF Close, KeepEditing
<1> QED  BY <1>1, <1>2, <1>3 DEF SaveDone, Close, Discard, KeepEditing

LEMMA EditorSteps ==
    ASSUME PageInv, EditorStep, UNCHANGED <<data, dialog, call, owed>>
    PROVE  PageInv'
<1>1. CASE SaveServed
  BY <1>1, SaveServedStep, EditorFrame DEF EditorKeeps, who, PageInv, TypeOK, SessionTypeOK
<1>2. CASE editor' \in Buffer /\ SaveInv' /\ UNCHANGED <<site, who>>
  BY <1>2, EditorFrame DEF EditorKeeps, site, who, PageInv, TypeOK, SessionTypeOK
<1> QED  BY <1>1, <1>2, LoadSteps, TextSteps, CloseSteps DEF EditorStep

-----------------------------------------------------------------------------
(* The others, and all steps together.                                     *)

LEMMA ElsewhereStep ==
    ASSUME PageInv, Elsewhere
    PROVE  PageInv'
<1>1. SessionTypeOK' /\ clock <= clock' /\ UNCHANGED who
  <2>1. CASE OtherLogin
    BY <2>1, SessionAssumption DEF OtherLogin, PageInv, TypeOK, SessionTypeOK, Sessions, files, who
  <2>2. CASE \E n \in Name : OtherChange(n)
    BY <2>2, FileTypes DEF OtherChange, PageInv, TypeOK, SessionTypeOK, who
  <2> QED  BY <2>1, <2>2 DEF Elsewhere
<1> QED  BY <1>1, EditorFrame DEF Elsewhere, EditorKeeps, who, PageInv, TypeOK, SaveInv

LEMMA PageInvStays == PageInv /\ [Next]_vars => PageInv'
<1> SUFFICES ASSUME PageInv, [Next]_vars PROVE PageInv'
  OBVIOUS
<1>1. CASE PageStep
  BY <1>1, SessionSteps, StartStep, ListingSteps, ListingArrivesStep, SelectionSteps, SingleServedStep,
     BatchSteps, AnswerSteps, DialogSteps, SendingSteps, OpenEditorStep DEF PageStep
<1>2. CASE EditorStep /\ UNCHANGED <<data, dialog, call, owed>>
  BY <1>2, EditorSteps
<1>3. CASE Elsewhere
  BY <1>3, ElsewhereStep
<1>4. CASE UNCHANGED vars
  BY <1>4 DEF vars, site, who, data, PageInv, TypeOK, SessionTypeOK, TokenShown, SaveInv, OwedInv, SeenInv
<1> QED  BY <1>1, <1>2, <1>3, <1>4 DEF Next

-----------------------------------------------------------------------------
(* What a batch takes away.                                                *)

\* Files change by versions they never had, or go.
GoOn == clock <= clock' /\ \A n \in Name : disk'[n] \in {disk[n], 0} \/ disk'[n] > clock
Idle(c) == c.pc \notin {"acting", "undoing"} /\ c.left = {} /\ c.looked = NoName /\ c.taken = NoVersions /\ c.since = 0

LEMMA IdleCalls ==
    /\ Idle(NoCall) /\ Idle(Fails) /\ \A at : Idle(Succeeds(at))
    /\ \A e, n : Sends(e, n) => Idle(call')
    /\ \A e : DoBatch(e) => call' = call \/ Idle(call')
<1>1. Idle(NoCall)
  BY DEF NoCall, Idle
<1>2. Idle(Fails) /\ \A at : Idle(Succeeds(at))
  BY DEF NoCall, Fails, Succeeds, Idle
<1>3. \A e, n : Sends(e, n) => Idle(call')
  BY DEF NoCall, Sends, Idle
<1>4. \A e : DoBatch(e) => call' = call \/ Idle(call')
  BY DEF NoCall, DoBatch, Idle
<1> QED  BY <1>1, <1>2, <1>3, <1>4

LEMMA IdleTakes ==
    ASSUME PageInv', Idle(call')
    PROVE  TakeInv'
BY SessionAssumption DEF Idle, TakeInv, Busy, Taking, Named, NoVersions, PageInv, TypeOK, SessionTypeOK

LEMMA OthersGoOn ==
    ASSUME IInv, NEW n \in Name, Writes(n) \/ Removes(n)
    PROVE  GoOn
BY SessionAssumption DEF IInv, PageInv, TypeOK, SessionTypeOK, Versions, Version, Writes, Removes, GoOn

LEMMA TakesStay ==
    ASSUME IInv, PageInv', GoOn, call' = call \/ call' = [call EXCEPT !.awaited = FALSE]
    PROVE  TakeInv'
<1> DEFINE Fields(c) == <<c.pc, c.endpoint, c.left, c.looked, c.taken, c.since, c.sent, c.ticked>>
<1>1. Fields(call') = Fields(call)
  BY DEF IInv, PageInv, TypeOK, Call
<1>2. /\ call'.since <= clock'
      /\ \A n \in Taking : disk'[n] \in {0, call.ticked[n]} \/ disk'[n] > call.since
  <2>1. /\ \A n \in Name : disk[n] \in Nat /\ disk'[n] \in Nat
        /\ call.since \in Nat /\ clock \in Nat /\ clock' \in Nat
    BY SessionAssumption DEF IInv, PageInv, TypeOK, SessionTypeOK, Call, Versions, Version
  <2>2. Taking \subseteq Name
    BY DEF Taking, IInv, PageInv, TypeOK, Call
  <2> QED  BY <1>1, <2>1, <2>2 DEF GoOn, IInv, TakeInv
<1>3. Taking' = Taking /\ Named' = Named
  BY <1>1 DEF Taking, Named
<1> QED  BY <1>1, <1>2, <1>3 DEF IInv, TakeInv, Busy

\* What a step of the page makes of the operation.
LEMMA PageCalls ==
    ASSUME PageInv, PageStep
    PROVE  \/ UNCHANGED files /\ (call' = call \/ call' = NoCall \/ Unheard)
           \/ UNCHANGED files /\ \E e \in Singles, n \in Name \cup {NoName} : Sends(e, n)
           \/ UNCHANGED files /\ \E e \in Batches : DoBatch(e)
           \/ SingleServed \/ BatchStep
<1> USE DEF site, files
<1>1. CASE \/ PageLoad \/ StartFails \/ SignIn \/ SignOut \/ Unauthorized
           \/ \E n \in Name : Preview(n)
  BY <1>1 DEF PageLoad, StartFails, GetSessionFails, Unauthenticated, SignIn, Login, SignOut, Logout, Unauthorized, Preview, Blank
<1>2. CASE Start \/ ListingServed \/ ListingFails \/ Retry \/ ManualRefresh \/ UploadsComplete
  BY <1>2 DEF Start, GetSession, ListingServed, ListingFails, Retry, ManualRefresh, UploadsComplete
<1>3. CASE SelectAll \/ ClearSelection \/ \E n \in Name : Select(n)
  BY <1>3 DEF SelectAll, ClearSelection, Select, Selects
<1>4. CASE CallDone \/ CallFails
  BY <1>4 DEF CallDone, CallFails
<1>5. CASE \/ OpenCreate \/ OpenUploads \/ CloseDialog
           \/ \E n \in Name : OpenMenu(n) \/ Download(n)
           \/ \E n \in Name, a \in DialogActions : OpenEntryDialog(n, a)
           \/ \E kind \in Batches : OpenBatch(kind)
           \/ \E f \in Folders : Navigate(f)
  BY <1>5 DEF OpenCreate, OpenUploads, CloseDialog, OpenMenu, Download, OpenEntryDialog, OpenBatch, Navigate, Shows
<1>6. CASE \E n \in Name, a \in Operations : Operate(n, a)
  BY <1>6 DEF Operate, Operations, Singles
<1>7. CASE DownloadZip
  BY <1>7 DEF DownloadZip, Batches
<1>8. CASE (\E n \in Name \cup {NoName} : ListingArrives(n)) \/ \E n \in Name : OpenEditor(n)
  BY <1>8 DEF ListingArrives, OpenEditor
<1>9. CASE SubmitForm \/ ConfirmDelete
  BY <1>9 DEF SubmitForm, ConfirmDelete, Singles, Batches, Forms, PageInv, TypeOK, Dialog
<1> QED  BY <1>1, <1>2, <1>3, <1>4, <1>5, <1>6, <1>7, <1>8, <1>9 DEF PageStep

LEMMA BatchTakes ==
    ASSUME IInv, PageInv', BatchStep
    PROVE  TakeInv'
<1> USE DEF files, site
<1>0. call \in Call /\ call.endpoint \in Singles \cup Batches /\ NoName \notin Name
  BY SessionAssumption DEF IInv, PageInv, TypeOK, Call
<1>1. CASE BatchValid
  <2>1. Idle(call')
    BY <1>0, <1>1 DEF BatchValid, Validated, Call, Idle, IInv, TakeInv, Busy
  <2> QED  BY <2>1, IdleTakes
<1>2. CASE BatchCopies \/ BatchRefused \/ BatchEnds
  <2>1. call' \in {NoCall, Fails, Succeeds(clock)}
    BY <1>2 DEF BatchCopies, BatchRefused, BatchEnds, Answers
  <2>2. Idle(call')
    BY <2>1, IdleCalls
  <2> QED  BY <2>2, IdleTakes
<1>3. CASE BatchBegins
  <2>1. PICK S \in SUBSET Unchanged, at \in {0, clock} :
           /\ call' = [call EXCEPT !.pc = "acting", !.left = S, !.since = at]
           /\ call.endpoint \in {"batchMove", "batchDelete"}
    BY <1>3 DEF BatchBegins, Takes
  <2>2. call.pc = "valid" /\ UNCHANGED files
    BY <1>3 DEF BatchBegins
  <2>3. call.left = {} /\ call.looked = NoName /\ call.taken = NoVersions
    BY <2>2 DEF IInv, TakeInv, Busy
  <2>4. Named' = Named /\ S \subseteq Named
    BY <1>0, <2>1 DEF Named, Unchanged, Call
  <2>5. call'.since <= clock'
    BY <1>0, <2>1, <2>2, SessionAssumption DEF Call, IInv, PageInv, TypeOK, SessionTypeOK
  <2>6. Taking' \subseteq S
    BY <1>0, <2>1, <2>3 DEF Taking, Call, NoVersions
  <2>7. \A n \in S : disk[n] = call.ticked[n]
    BY DEF Unchanged, Named, IInv, PageInv, SeenInv
  <2>8. /\ call'.pc = "acting" /\ call'.endpoint = call.endpoint /\ call'.looked = NoName
        /\ call'.left = S /\ call'.ticked = call.ticked
    BY <1>0, <2>1, <2>3 DEF Call
  <2> QED  BY <2>1, <2>2, <2>4, <2>5, <2>6, <2>7, <2>8 DEF TakeInv, Busy
<1>4. CASE BatchRollsBack
  BY <1>0, <1>4 DEF BatchRollsBack, Acting, IInv, TakeInv, Busy, Taking, Named, Call
<1>5. CASE \E n \in Name : BatchLooks(n)
  <2>1. PICK n \in Name : BatchLooks(n)
    BY <1>5
  <2>2. PICK m \in {n, NoName} :
           /\ call' = [call EXCEPT !.left = @ \ {n}, !.since = clock, !.looked = m]
           /\ m = n => disk[n] = call.sent[n] /\ call.sent[n] # 0
    <3>1. CASE n \in Unchanged
      BY <2>1, <3>1 DEF BatchLooks, Unchanged, Named
    <3>2. CASE n \notin Unchanged
      BY <1>0, <2>1, <3>2 DEF BatchLooks
    <3> QED  BY <3>1, <3>2
  <2>3. call.pc = "acting" /\ call.endpoint = "batchDelete" /\ UNCHANGED files
    BY <2>1 DEF BatchLooks, Acting
  <2>4. m = n => disk[n] = call.ticked[n]
    BY <2>2 DEF IInv, PageInv, SeenInv
  <2>5. call'.since <= clock'
    BY <1>0, <2>2, <2>3, SessionAssumption DEF Call, IInv, PageInv, TypeOK, SessionTypeOK
  <2>6. Taking' \subseteq {n} /\ (n \in Taking' => m = n)
    BY <1>0, <2>2, <2>3 DEF Taking, Call
  <2> QED  BY <1>0, <2>2, <2>3, <2>4, <2>5, <2>6 DEF IInv, TakeInv, Busy, Named, Call
<1>6. CASE \E n \in Name : BatchMoves(n)
  <2>1. PICK n \in Name : BatchMoves(n)
    BY <1>6
  <2>2. /\ call.pc = "acting" /\ call.endpoint = "batchMove" /\ n \in call.left
        /\ call' = [call EXCEPT !.left = @ \ {n}, !.taken[n] = disk[n]]
        /\ disk' = [disk EXCEPT ![n] = 0] /\ clock' = clock + 1
    BY <2>1 DEF BatchMoves, Acting, Removes
  <2>3. Taking' = Taking /\ Named' = Named /\ disk[n] # 0
    BY <1>0, <2>1, <2>2 DEF BatchMoves, Removes, Taking, Named, Call, Versions
  <2>4. \A m \in Taking : disk'[m] \in {0, call.ticked[m]} \/ disk'[m] > call.since
    BY <2>2 DEF IInv, PageInv, TypeOK, SessionTypeOK, Versions, TakeInv
  <2>5. call'.since <= clock'
    BY <1>0, <2>2, SessionAssumption DEF Call, Version, IInv, PageInv, TypeOK, SessionTypeOK, TakeInv
  <2> QED  BY <1>0, <2>2, <2>3, <2>4, <2>5 DEF IInv, TakeInv, Busy, Call
<1>7. CASE \E n \in Name : Undoes(n)
  <2>1. PICK n \in Name : Undoes(n)
    BY <1>7
  <2>2. /\ call.pc = "undoing" /\ call.endpoint = "batchMove" /\ call.taken[n] # 0
        /\ call' = [call EXCEPT !.taken[n] = 0] /\ clock' = clock
        /\ \A m \in Name \ {n} : disk'[m] = disk[m]
    BY <2>1 DEF Undoes, IInv, TakeInv, PageInv, TypeOK, SessionTypeOK, Versions
  <2>3. Taking' \subseteq Taking /\ Named' = Named
    BY <1>0, <2>2 DEF Taking, Named, Call, Versions
  <2>4. call.left = {}
    BY <2>2 DEF IInv, TakeInv
  <2>5. n \notin Taking' /\ Taking' \subseteq Name
    BY <1>0, <2>2, <2>4 DEF Taking, Call, Versions
  <2>6. /\ call'.pc = "undoing" /\ call'.endpoint = "batchMove" /\ call'.looked = call.looked
        /\ call'.left = {} /\ call'.ticked = call.ticked /\ call'.since = call.since
    BY <1>0, <2>2, <2>4 DEF Call
  <2>7. \A m \in Taking' : disk'[m] \in {0, call.ticked[m]} \/ disk'[m] > call.since
    BY <2>2, <2>3, <2>5 DEF IInv, TakeInv
  <2> QED  BY <2>2, <2>3, <2>6, <2>7 DEF IInv, TakeInv, Busy
<1>8. CASE BatchRemoves
  <2>1. call.looked # NoName /\ call.pc = "acting" /\ call.endpoint = "batchDelete"
    BY <1>0, <1>8 DEF BatchRemoves, IInv, TakeInv, Busy
  <2>2. PICK v : call' = [call EXCEPT !.looked = NoName, !.since = 0, !.taken[call.looked] = v]
    BY <1>8 DEF BatchRemoves
  <2>3. Taking' = {}
    BY <1>0, <2>1, <2>2 DEF Taking, Call
  <2>4. call'.since <= clock'
    BY <1>0, <2>2, SessionAssumption DEF Call, PageInv, TypeOK, SessionTypeOK
  <2> QED  BY <1>0, <2>1, <2>2, <2>3, <2>4 DEF IInv, TakeInv, Busy, Named, Call
<1> QED  BY <1>1, <1>2, <1>3, <1>4, <1>5, <1>6, <1>7, <1>8 DEF BatchStep, BatchChanges

LEMMA InitInvariant == Init => IInv
BY PageInvStarts, SessionAssumption DEF IInv, TakeInv, Busy, Taking, Named, Init, SessionInit, NoCall, NoVersions

LEMMA NextInvariant == IInv /\ [Next]_vars => IInv'
<1> SUFFICES ASSUME IInv, [Next]_vars PROVE TakeInv'
  BY PageInvStays DEF IInv
<1>0. PageInv'
  BY PageInvStays DEF IInv
<1>1. CASE PageStep
  <2>1. UNCHANGED files => GoOn
    BY SessionAssumption DEF files, GoOn, IInv, PageInv, TypeOK, SessionTypeOK
  <2>2. CASE UNCHANGED files /\ call' = call
    BY <1>0, <2>1, <2>2, TakesStay
  <2>3. CASE call' = NoCall \/ SingleServed \/ \E e \in Singles, n \in Name \cup {NoName} : Sends(e, n)
    <3>1. Idle(call')
      BY <2>3, IdleCalls DEF SingleServed
    <3> QED  BY <1>0, <3>1, IdleTakes
  <2>4. CASE UNCHANGED files /\ Unheard
    BY <1>0, <2>1, <2>3, <2>4, TakesStay DEF Unheard
  <2>5. CASE UNCHANGED files /\ \E e \in Batches : DoBatch(e)
    <3>1. call' = call \/ Idle(call')
      BY <2>5, IdleCalls
    <3> QED  BY <1>0, <2>2, <2>5, <3>1, IdleTakes
  <2> QED  BY <1>0, <1>1, <2>2, <2>3, <2>4, <2>5, PageCalls, BatchTakes DEF IInv
<1>2. CASE EditorStep /\ UNCHANGED <<data, dialog, call, owed>>
  <2>1. GoOn
    <3>1. CASE SaveServed
      <4>1. editor.of \in Name
        BY <3>1 DEF SaveServed, IInv, PageInv, TypeOK, SaveInv, NoEditor, Buffer
      <4> QED  BY <3>1, <4>1, OthersGoOn DEF SaveServed, SaveWrites
    <3>2. CASE UNCHANGED site
      BY <3>2, SessionAssumption DEF site, GoOn, IInv, PageInv, TypeOK, SessionTypeOK
    <3> QED  BY <1>2, <3>1, <3>2, LoadSteps, TextSteps, CloseSteps DEF EditorStep, IInv
  <2> QED  BY <1>0, <1>2, <2>1, TakesStay
<1>3. CASE Elsewhere
  <2>1. GoOn
    <3>1. CASE OtherLogin
      BY <3>1, SessionAssumption DEF OtherLogin, files, GoOn, IInv, PageInv, TypeOK, SessionTypeOK
    <3>2. CASE \E n \in Name : OtherChange(n)
      BY <3>2, OthersGoOn DEF OtherChange
    <3> QED  BY <1>3, <3>1, <3>2 DEF Elsewhere
  <2> QED  BY <1>0, <1>3, <2>1, TakesStay DEF Elsewhere
<1>4. CASE UNCHANGED vars
  <2>1. GoOn
    BY <1>4, SessionAssumption DEF vars, site, GoOn, IInv, PageInv, TypeOK, SessionTypeOK
  <2> QED  BY <1>0, <1>4, <2>1, TakesStay DEF vars
<1> QED  BY <1>1, <1>2, <1>3, <1>4 DEF Next

LEMMA Invariance == Spec => []IInv
BY InitInvariant, NextInvariant, PTL DEF Spec

\* Every variable keeps its type (Session, Editor, Workspace).
THEOREM TypeCorrect == Spec => []TypeOK
<1>1. IInv => TypeOK
  BY DEF IInv, PageInv
<1> QED  BY <1>1, Invariance, PTL

\* The page does not rest on a listing that is older than the last change of its
\* own that it was told of (refresh).
THEOREM OwnChangesAreShown == Spec => []OwnChangesShown
<1>1. IInv => OwnChangesShown
  BY DEF IInv, PageInv, OwedInv, OwnChangesShown
<1> QED  BY <1>1, Invariance, PTL

LEMMA BatchEditor ==
    ASSUME BatchStep
    PROVE  editor' = editor
BY DEF BatchStep, BatchChanges, BatchValid, Validated, BatchCopies, BatchRefused, BatchBegins, BatchMoves,
   BatchRollsBack, Undoes, BatchLooks, BatchRemoves, BatchEnds, ServerStep

\* The page opens and closes the editor and does nothing else to it.
LEMMA PageEditor ==
    ASSUME PageStep
    PROVE  editor' = editor \/ editor' = NoEditor \/ \E n \in Name : editor' = Opened(n)
<1>1. CASE \/ PageLoad \/ Start \/ StartFails \/ SignIn \/ SignOut \/ Unauthorized
           \/ \E n \in Name : Preview(n)
  BY <1>1 DEF PageLoad, Start, StartFails, SignIn, SignOut, Unauthorized, Preview, Blank
<1>2. CASE ListingServed \/ ListingFails \/ Retry \/ ManualRefresh \/ UploadsComplete
  BY <1>2 DEF ListingServed, ListingFails, Retry, ManualRefresh, UploadsComplete
<1>3. CASE SelectAll \/ ClearSelection \/ \E n \in Name : Select(n)
  BY <1>3 DEF SelectAll, ClearSelection, Select, Selects
<1>4. CASE SingleServed \/ BatchStep \/ CallDone \/ CallFails
  BY <1>4, BatchEditor DEF SingleServed, ServerStep, CallDone, CallFails
<1>5. CASE \/ OpenCreate \/ OpenUploads \/ CloseDialog
           \/ \E n \in Name : OpenMenu(n) \/ Download(n)
           \/ (\E n \in Name, a \in DialogActions : OpenEntryDialog(n, a)) \/ \E n \in Name, a \in Operations : Operate(n, a)
           \/ \E kind \in Batches : OpenBatch(kind)
           \/ \E f \in Folders : Navigate(f)
  BY <1>5 DEF OpenCreate, OpenUploads, CloseDialog, OpenMenu, Download, OpenEntryDialog, Operate, OpenBatch, Navigate, Shows
<1>6. CASE DownloadZip \/ SubmitForm \/ ConfirmDelete
  BY <1>6 DEF DownloadZip, SubmitForm, ConfirmDelete
<1>7. CASE (\E n \in Name \cup {NoName} : ListingArrives(n)) \/ \E n \in Name : OpenEditor(n)
  BY <1>7 DEF ListingArrives, Routed, OpenEditor
<1> QED  BY <1>1, <1>2, <1>3, <1>4, <1>5, <1>6, <1>7 DEF PageStep

\* A save replaces only the version its text was made from or one of the editor's
\* own (load, save, WriteVersionedTextFile).
THEOREM OthersChangesAreKept == Spec => OthersChangesKept
<1> DEFINE Kept == editor.save = "sent" /\ editor'.save = "done" =>
                      disk[editor.of] \in {editor.sent.origin} \cup editor.mine
<1>1. IInv /\ [Next]_vars => Kept
  <2> SUFFICES ASSUME IInv, [Next]_vars, editor.save = "sent", editor'.save = "done"
               PROVE  disk[editor.of] \in {editor.sent.origin} \cup editor.mine
    OBVIOUS
  <2>1. editor' # editor
    OBVIOUS
  <2>2. ~PageStep
    <3>1. NoEditor.save = "no" /\ \A n \in Name : Opened(n).save = "no"
      BY DEF NoEditor, Opened
    <3> QED  BY <2>1, <3>1, PageEditor
  <2>3. ~Elsewhere /\ ~UNCHANGED vars
    BY <2>1 DEF Elsewhere, vars
  <2>4. EditorStep
    BY <2>2, <2>3 DEF Next
  <2>5. SaveServed
    <3> USE DEF IInv, PageInv, TypeOK, Buffer
    <3>1. ~ \E i \in Load : LoadServed(i) \/ LoadArrives(i) \/ LoadFails(i) \/ Reload(i)
      BY ZenonT(40) DEF LoadServed, LoadArrives, LoadFails, Reload
    <3>2. ~ \E v \in {"original", "sending", "other"} : Type(v)
      BY DEF Type
    <3>3. ~Save /\ ~SaveAndClose /\ ~SaveDone
      BY DEF Save, SaveAndClose, SaveStarts, SaveDone
    <3>4. ~SaveConflicts /\ ~SaveFails
      BY DEF SaveConflicts, SaveFails, SaveFailed, Answered
    <3>5. ~Close /\ ~Discard /\ ~KeepEditing
      BY DEF Close, Discard, KeepEditing, NoEditor
    <3> QED  BY <2>4, <3>1, <3>2, <3>3, <3>4, <3>5 DEF EditorStep
  <2> QED  BY <2>5 DEF SaveServed, IInv, PageInv, SaveInv
<1> QED  BY <1>1, Invariance, PTL DEF Spec, OthersChangesKept

\* What a batch takes away or writes over is what the user had ticked, or has come
\* to the name after the operation last looked at it (batchBody, decodeBatch,
\* revalidateSelection, BatchMove, BatchDelete).
THEOREM BatchesAreSeen == Spec => BatchIsSeen
<1> DEFINE Seen(n) == disk[n] = call.ticked[n] \/ disk[n] > call.since
<1>1. IInv /\ BatchChanges => \A n \in Name : disk'[n] # disk[n] /\ disk[n] # 0 => Seen(n)
  <2> SUFFICES ASSUME IInv, BatchChanges, NEW n \in Name, disk'[n] # disk[n], disk[n] # 0
               PROVE  Seen(n)
    OBVIOUS
  <2>1. disk \in Versions /\ call \in Call
    BY DEF IInv, PageInv, TypeOK, SessionTypeOK
  <2>2. n \in Taking
    <3>1. CASE BatchRemoves
      <4>1. n = call.looked /\ call.looked # NoName
        BY <2>1, <3>1 DEF BatchRemoves, Removes, files, Versions
      <4> QED  BY <4>1 DEF Taking, IInv, TakeInv, Busy
    <3>2. CASE \E m \in Name : BatchMoves(m)
      BY <2>1, <3>2 DEF BatchMoves, Acting, Removes, Taking, Versions
    <3>3. CASE \E m \in Name : Undoes(m)
      BY <2>1, <3>3 DEF Undoes, Taking, Versions, IInv, TakeInv
    <3> QED  BY <3>1, <3>2, <3>3 DEF BatchChanges
  <2> QED  BY <2>2 DEF IInv, TakeInv
<1>2. IInv /\ [Next]_vars => [BatchChanges => \A n \in Name : disk'[n] # disk[n] /\ disk[n] # 0 => Seen(n)]_vars
  BY <1>1
<1> QED  BY <1>2, Invariance, PTL DEF Spec, BatchIsSeen

\* What a batch deletion sends is what its dialog asked about (confirmDelete).
THEOREM ConfirmedAreDeleted == Spec => ConfirmedIsDeleted
<1>1. IInv /\ ConfirmDelete /\ call' # call /\ dialog.kind = "batchDelete" => call'.sent = dialog.entries
  BY DoBatchType DEF ConfirmDelete, Batches, IInv, PageInv, SeenInv
<1> QED  BY <1>1, Invariance, PTL DEF Spec, ConfirmedIsDeleted

\* The server takes nothing from the page in another session than the one it
\* shows (setSession, csrfHeaders, ReadListing).
THEOREM PageActsAsShown == Spec => ActsAsShown
<1>1. IInv /\ (SingleServed \/ BatchValid \/ SaveServed) => cookie = session
  BY DEF SingleServed, BatchValid, SaveServed, Authorized, IInv, PageInv, TokenShown
<1> QED  BY <1>1, Invariance, PTL DEF Spec, ActsAsShown
=============================================================================
