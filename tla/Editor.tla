------------------------------- MODULE Editor -------------------------------
(***************************************************************************)
(* The editor of a text file (src/web/src/editor/EditorDialog.tsx) and the *)
(* server's check of a save against the version it names.  Reads and saves *)
(* are answered in any order; a request the page no longer waits for has   *)
(* had its effect by then or has none.                                     *)
(***************************************************************************)
EXTENDS Session

CONSTANTS
    MaxLoads,   \* bound on the unanswered reads
    Writable    \* the capability editor_save

ASSUME EditorAssumption == MaxLoads \in Nat \ {0} /\ Writable \in BOOLEAN

VARIABLE editor  \* the editor and its buffer

Load == 1..MaxLoads
\* base: the version a save will name.  value: the text compared with the one
\* that was loaded or saved last, original, and with the one a save is sending.
\* origin (history): the version the text was made from; mine (history): the
\* versions the editor's saves have made.
Buffer == [of : Name \cup {NoName}, base : Version, origin : Version,
           value : {"original", "sending", "other"},
           save : {"no", "sent", "done"}, closing : BOOLEAN,
           sent : [base : Version, origin : Version, same : BOOLEAN], saved : Version,
           load : [Load -> {"no", "asked", "read"}], read : [Load -> Version],
           error : BOOLEAN, conflicted : BOOLEAN, discarding : BOOLEAN, mine : SUBSET Version]
NoEditor == [of |-> NoName, base |-> 0, origin |-> 0, value |-> "original",
             save |-> "no", closing |-> FALSE,
             sent |-> [base |-> 0, origin |-> 0, same |-> FALSE], saved |-> 0,
             load |-> [i \in Load |-> "no"], read |-> [i \in Load |-> 0],
             error |-> FALSE, conflicted |-> FALSE, discarding |-> FALSE, mine |-> {}]

IsOpen == editor.of # NoName
Dirty == editor.value # "original"
Opened(n) == [NoEditor EXCEPT !.of = n, !.load[1] = "asked"]

EditorInit == editor = NoEditor

-----------------------------------------------------------------------------
(* Reading.                                                                *)

LoadServed(i) ==
    /\ editor.load[i] = "asked" /\ cookie # 0 /\ disk[editor.of] # 0
    /\ editor' = [editor EXCEPT !.load[i] = "read", !.read[i] = disk[editor.of]]
    /\ UNCHANGED <<site, who>>

\* Mutant: a reload takes the version and keeps the draft, load(false).
LoadArrives_KeepsDraft(i) ==
    /\ editor.load[i] = "read"
    /\ editor' = [editor EXCEPT !.load[i] = "no", !.read[i] = 0, !.base = editor.read[i], !.conflicted = FALSE]
    /\ UNCHANGED <<site, who>>

\* The text is replaced, whatever has been typed since the question; a text
\* that is being saved differs from it.
LoadArrives(i) ==
    /\ editor.load[i] = "read"
    /\ editor' = [editor EXCEPT !.load[i] = "no", !.read[i] = 0,
                                !.base = editor.read[i], !.origin = editor.read[i],
                                !.value = "original", !.sent.same = FALSE, !.conflicted = FALSE]
    /\ UNCHANGED <<site, who>>

LoadFails(i) ==
    /\ editor.load[i] # "no"
    /\ editor' = [editor EXCEPT !.load[i] = "no", !.read[i] = 0, !.error = TRUE]
    /\ UNCHANGED <<site, who>>

\* The button is there while the error of a conflict is shown.
Reload(i) ==
    /\ editor.conflicted /\ editor.error /\ ~editor.discarding
    /\ editor.load[i] = "no" /\ \A j \in Load : j < i => editor.load[j] # "no"
    /\ editor' = [editor EXCEPT !.load[i] = "asked", !.error = FALSE]
    /\ UNCHANGED <<site, who>>

-----------------------------------------------------------------------------
(* Typing and saving.                                                      *)

Type(v) ==
    /\ IsOpen /\ Writable /\ ~editor.discarding /\ v # editor.value
    /\ v = "sending" => editor.save # "no" /\ ~editor.sent.same
    /\ editor' = [editor EXCEPT !.value = v]
    /\ UNCHANGED <<site, who>>

\* save, by the button or by the shortcut, which needs a change, or by saveAndClose.
SaveStarts(closing) ==
    /\ Writable /\ editor.base # 0 /\ editor.save = "no"
    /\ editor' = [editor EXCEPT !.save = "sent", !.error = FALSE, !.closing = closing,
                                !.sent = [base |-> editor.base, origin |-> editor.origin, same |-> ~Dirty],
                                !.value = IF Dirty THEN "sending" ELSE @]
    /\ UNCHANGED <<site, who>>
Save == Dirty /\ SaveStarts(FALSE)
SaveAndClose == editor.discarding /\ SaveStarts(TRUE)

\* The server writes the text if the file has the version the save names.
SaveWrites ==
    /\ Writes(editor.of)
    /\ editor' = [editor EXCEPT !.save = "done", !.saved = clock + 1, !.mine = @ \cup {clock + 1}]
    /\ UNCHANGED <<cookie, logins, who>>

SaveServed == editor.save = "sent" /\ Authorized /\ disk[editor.of] = editor.sent.base /\ SaveWrites

\* The text now original is the one that was sent.
Answered(e) == [e EXCEPT !.save = "no", !.closing = FALSE, !.saved = 0, !.sent = NoEditor.sent]
Saved(e) ==
    [Answered(e) EXCEPT !.base = e.saved, !.conflicted = FALSE,
        !.origin = IF e.value = "sending" \/ e.sent.origin = e.origin THEN e.saved ELSE @,
        !.value = IF e.value = "sending" \/ (e.sent.same /\ e.value = "original") THEN "original" ELSE "other"]
SaveDone ==
    /\ editor.save = "done"
    /\ editor' = IF editor.closing THEN NoEditor ELSE Saved(editor)
    /\ UNCHANGED <<site, who>>

SaveFailed(conflict) ==
    editor' = [Answered(editor) EXCEPT !.error = TRUE, !.conflicted = @ \/ conflict,
                                       !.value = IF @ = "sending" THEN "other" ELSE @]
SaveConflicts ==
    /\ editor.save = "sent" /\ Authorized /\ disk[editor.of] \notin {0, editor.sent.base}
    /\ SaveFailed(TRUE) /\ UNCHANGED <<site, who>>
SaveFails == editor.save # "no" /\ SaveFailed(FALSE) /\ UNCHANGED <<site, who>>

-----------------------------------------------------------------------------
(* Closing.                                                                *)

Close ==
    /\ IsOpen /\ ~editor.discarding
    /\ editor' = IF Dirty THEN [editor EXCEPT !.discarding = TRUE] ELSE NoEditor
    /\ UNCHANGED <<site, who>>
Discard == editor.discarding /\ editor' = NoEditor /\ UNCHANGED <<site, who>>
KeepEditing == editor.discarding /\ editor' = [editor EXCEPT !.discarding = FALSE] /\ UNCHANGED <<site, who>>

EditorStep ==
    \/ \E i \in Load : LoadServed(i) \/ LoadArrives(i) \/ LoadFails(i) \/ Reload(i)
    \/ \E v \in {"original", "sending", "other"} : Type(v)
    \/ Save \/ SaveAndClose \/ SaveServed \/ SaveDone \/ SaveConflicts \/ SaveFails
    \/ Close \/ Discard \/ KeepEditing
=============================================================================
