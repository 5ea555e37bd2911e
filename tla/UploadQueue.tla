---------------------------- MODULE UploadQueue ----------------------------
(***************************************************************************)
(* The upload queue of the web page (src/web/src/uploads) behind the       *)
(* buttons of its drawer, the record it keeps in the browser, and the      *)
(* server's upload API.  JavaScript runs one callback at a time, so a step *)
(* is what happens between two awaits.  A request takes effect at the      *)
(* server before its answer or with it; an answer may be an error or never *)
(* come, and a request given up has had its effect by then or has none.    *)
(* The record in the browser is asked for without being waited for: it may *)
(* land later, or never.                                                   *)
(* Runs, cancellations and the hashing of a chosen file wait independently, *)
(* and nothing keeps two runs of one upload apart.                         *)
(***************************************************************************)
EXTENDS Naturals, FiniteSets

CONSTANTS
    Uploads,     \* uploads a user may add, in the order of createdAt
    MaxWorkers,  \* runs at a time
    Parts,       \* parts of a file
    Attempts,    \* attempts of a part and of a completion
    Content,     \* bytes a file of the right name, size and date may have
    Original,    \* the bytes of the file the user added
    None

ASSUME QueueAssumption ==
    /\ Uploads \in Nat /\ MaxWorkers \in Nat \ {0} /\ Parts \in Nat \ {0}
    /\ Attempts \in Nat \ {0}
    /\ Original \in Content
    /\ None \notin Content \cup {"active", "finalizing", "completed", "cancelled"}

VARIABLES
    item,        \* the items of the queue, with the calls that wait on them
    run,         \* the workers' calls of run
    attachment,  \* the item the file chooser was opened for, or Nobody
    wanted,      \* the uploads the page has asked the browser to record
    leaving,     \* those it has asked the browser to forget, and that may not be yet
    stored,      \* the uploads recorded in IndexedDB
    lost,        \* history: uploads whose record had not landed when the page was closed
    server,      \* what the server knows of each upload
    published,   \* the uploads whose file has got its name
    foreign,     \* history: uploads that were sent bytes of another file
    asked        \* history: uploads the user has asked to cancel or remove, or has
                 \* paused while a run asked for their state

page == <<item, run, attachment, wanted, leaving>>
browser == <<stored, lost>>
history == <<foreign, asked>>
vars == <<page, browser, server, published, history>>

Upload == 1..Uploads
Worker == 1..MaxWorkers
Part == 0..Parts - 1
Nobody == 0

Terminal == {"completed", "cancelled"}
Stopped == {"paused", "cancelled"}
Phase == {"reselect", "waiting", "hashing", "uploading", "paused", "failed"} \cup Terminal
Open == {"active", "finalizing"}
State == Open \cup Terminal

Asking == {"get", "create", "recheck"}
Run == [pc : {"idle", "hash", "cancelling", "slice", "put", "recover", "complete"} \cup Asking,
        of : Upload \cup {Nobody}, file : Content \cup {None},
        got : SUBSET Part, part : Part, try : 1..Attempts]
Idle == [pc |-> "idle", of |-> Nobody, file |-> None, got |-> {}, part |-> 0, try |-> 1]

Item == [listed : BOOLEAN, phase : Phase, file : Content \cup {None},
         sha256 : BOOLEAN, status : State \cup {None}, controller : Worker \cup {Nobody},
         resolving : Worker \cup {Nobody}, attaching : SUBSET Content,
         cancelling : {"no", "await", "get", "delete", "check"},
         awaited : Worker \cup {Nobody}, removing : BOOLEAN]
NewItem == [listed |-> FALSE, phase |-> "waiting", file |-> None, sha256 |-> FALSE,
            status |-> None, controller |-> Nobody, resolving |-> Nobody, attaching |-> {},
            cancelling |-> "no", awaited |-> Nobody, removing |-> FALSE]

Transfer == [state : State \cup {"none"}, parts : SUBSET Part]

Init ==
    /\ item = [u \in Upload |-> NewItem] /\ run = [w \in Worker |-> Idle]
    /\ attachment = Nobody /\ wanted = {} /\ leaving = {}
    /\ stored = {} /\ lost = {} /\ published = {}
    /\ server = [u \in Upload |-> [state |-> "none", parts |-> {}]]
    /\ foreign = {} /\ asked = {}

-----------------------------------------------------------------------------
(* What the page's code changes between two awaits, as a function of s: its *)
(* items, runs, requests to the browser and the history of what it has sent. *)

Here == [item |-> item, run |-> run, wanted |-> wanted, leaving |-> leaving, foreign |-> foreign]
Becomes(s) ==
    /\ item' = s.item /\ run' = s.run /\ wanted' = s.wanted /\ leaving' = s.leaving
    /\ foreign' = s.foreign
    /\ UNCHANGED browser

Least(S) == CHOOSE x \in S : \A y \in S : x <= y

\* The calls of putStoredUpload, which nobody awaits, and of deleteStoredUpload.
Recorded(s, u) == [s EXCEPT !.wanted = @ \cup {u}]
Forgotten(s, u) == [s EXCEPT !.wanted = @ \ {u}, !.leaving = @ \cup {u}]

\* Mutant: a late answer records an item again that has left the queue.
Update_Unlisted(s, u, i) ==
    LET t == [s EXCEPT !.item[u] = i] IN IF i.sha256 THEN Recorded(t, u) ELSE t

\* update and persist: an item that has left the queue is neither changed nor
\* recorded again; an upload is recorded from the moment its digest is known.
Update(s, u, i) ==
    LET t == [s EXCEPT !.item[u] = i]
    IN  IF ~s.item[u].listed THEN s ELSE IF i.sha256 THEN Recorded(t, u) ELSE t
WithPhase(s, u, phase) == Update(s, u, [s.item[u] EXCEPT !.phase = phase])
WithStatus(s, u, state) == Update(s, u, [s.item[u] EXCEPT !.status = state])
Closes(s, u, state) == Update(s, u, [s.item[u] EXCEPT !.status = state, !.phase = state])

\* run and resolveStatus: an upload the page knows to be active is looked up,
\* any other is created, and a cancellation may wait for that promise.
Asks(s, u, w) ==
    LET known == s.item[u].status = "active"
        t == WithPhase(Update(s, u, [s.item[u] EXCEPT !.sha256 = TRUE]), u, "uploading")
    IN  [t EXCEPT !.run[w].pc = IF known THEN "get" ELSE "create",
                  !.item[u].resolving = IF known THEN @ ELSE w]
Starts(s, u, w) ==
    LET t == [s EXCEPT !.run[w] = [Idle EXCEPT !.of = u, !.file = s.item[u].file, !.pc = "hash"]]
    IN  IF s.item[u].sha256 THEN Asks(t, u, w) ELSE WithPhase(t, u, "hashing")

\* pump: an idle worker takes the oldest item that waits with its file.
Ready(s) == {u \in Upload : s.item[u].listed /\ s.item[u].phase = "waiting" /\ s.item[u].file # None}
Free(s) == {w \in Worker : s.run[w].pc = "idle"}
Pump(s) == IF Ready(s) = {} \/ Free(s) = {} THEN s ELSE Starts(s, Least(Ready(s)), Least(Free(s)))

\* The end of a run frees its worker; a failed one says so unless it was stopped.
Ends(s, w) == Pump([s EXCEPT !.run[w] = Idle])
Fails(s, w) ==
    LET u == s.run[w].of
    IN  Ends(IF s.item[u].phase \in Stopped THEN s ELSE WithPhase(s, u, "failed"), w)

\* uploadPart: each attempt has a controller of its own, of which the latest of
\* an item is known; the phase is not looked at before an attempt.
Puts(s, w) ==
    LET u == s.run[w].of IN
    [s EXCEPT !.run[w].pc = "put", !.item[u].controller = w,
              !.foreign = IF s.run[w].file = Original THEN @ ELSE @ \cup {u}]
LetGo(s, u, w) == [s EXCEPT !.item[u].controller = IF @ = w THEN Nobody ELSE @]
\* Mutant: a part is sent again without end.
GivenUp_Always(s, w) ==
    LET u == s.run[w].of
    IN  IF s.item[u].phase \in Stopped THEN Fails(LetGo(s, u, w), w) ELSE [s EXCEPT !.run[w].pc = "recover"]

GivenUp(s, w) ==
    LET u == s.run[w].of
    IN  IF s.item[u].phase \in Stopped \/ s.run[w].try = Attempts
        THEN Fails(LetGo(s, u, w), w)
        ELSE [s EXCEPT !.run[w].pc = "recover"]

\* The loop over the parts: whether the item is stopped is asked before every
\* part, and not before the completion.
FromPart(s, w, p) ==
    LET missing == {q \in Part : q >= p} \ s.run[w].got
    IN  IF p \in Part /\ s.item[s.run[w].of].phase \in Stopped THEN Ends(s, w)
        ELSE IF missing = {} THEN [s EXCEPT !.run[w] = [Idle EXCEPT !.pc = "complete", !.of = s.run[w].of, !.file = s.run[w].file]]
        ELSE [s EXCEPT !.run[w].pc = "slice", !.run[w].part = Least(missing), !.run[w].try = 1]
Sent(s, w) ==
    LET p == s.run[w].part
    IN  FromPart([LetGo(s, s.run[w].of, w) EXCEPT !.run[w].got = @ \cup {p}], w, p + 1)

\* abort of the known controller, which is without effect between two attempts.
Abort(s, u) ==
    LET w == s.item[u].controller
    IN  IF w # Nobody /\ s.run[w].pc = "put" THEN GivenUp(s, w) ELSE s

\* remove, from where the phase is terminal.
Leaves(s, u) ==
    Abort([Forgotten(s, u) EXCEPT !.item[u].listed = FALSE], u)

Waits(s, u) == {w \in Worker : s.run[w].pc = "cancelling" /\ s.run[w].of = u}

\* Mutant: the run that called cancel is not told of its end.
CancelEnds_Alone(s, u) ==
    LET t == [s EXCEPT !.item[u].cancelling = "no", !.item[u].awaited = Nobody, !.item[u].removing = FALSE]
    IN  IF s.item[u].removing /\ t.item[u].phase \in Terminal THEN Leaves(t, u) ELSE t

\* cancel: its end lets the run go that called it, and the removal go on.
CancelEnds(s, u) ==
    LET t == [s EXCEPT !.item[u].cancelling = "no", !.item[u].awaited = Nobody, !.item[u].removing = FALSE]
        r == IF Waits(t, u) = {} THEN t ELSE Ends(t, Least(Waits(t, u)))
    IN  IF s.item[u].removing /\ r.item[u].phase \in Terminal THEN Leaves(r, u) ELSE r
CancelSees(s, u, state) ==
    IF state \in Terminal THEN CancelEnds(Closes(s, u, state), u)
    ELSE [s EXCEPT !.item[u].cancelling = "delete", !.item[u].awaited = Nobody]
CancelFails(s, u, code) ==
    CancelEnds(WithPhase(s, u, IF code = "upload_not_found" THEN "cancelled" ELSE "failed"), u)

\* cancel, up to its first await.
CancelStarts(s, u) ==
    LET t == Abort(WithPhase([s EXCEPT !.item[u].cancelling = "get"], u, "paused"), u)
    IN  IF s.item[u].status \notin {None, "active"} THEN CancelSees(t, u, s.item[u].status)
        ELSE IF t.item[u].resolving # Nobody
        THEN [t EXCEPT !.item[u].cancelling = "await", !.item[u].awaited = t.item[u].resolving]
        ELSE t

\* resolveStatus has an answer: a cancellation that awaits it goes on first,
\* and then the run, which cancels the upload if it finds it paused.
Resolved(s, w) ==
    LET u == s.run[w].of
    IN  [s EXCEPT !.item[u].resolving = IF @ = w THEN Nobody ELSE @]
Awaited(s, u, w) == s.item[u].cancelling = "await" /\ s.item[u].awaited = w
Answered(s, w, state, parts) ==
    LET u == s.run[w].of
        t == IF Awaited(s, u, w) THEN CancelSees(Resolved(s, w), u, state) ELSE Resolved(s, w)
    IN  CASE t.item[u].phase = "cancelled" -> Ends(t, w)
          [] t.item[u].phase = "paused" /\ t.item[u].cancelling # "no" -> Ends(t, w)
          [] t.item[u].phase = "paused" /\ t.item[u].cancelling = "no" ->
                CancelStarts([t EXCEPT !.run[w].pc = "cancelling"], u)
          [] OTHER -> FromPart([WithStatus(t, u, state) EXCEPT !.run[w].got = parts], w, 0)
Unanswered(s, w, code) ==
    LET u == s.run[w].of
        t == IF Awaited(s, u, w) THEN CancelFails(Resolved(s, w), u, code) ELSE Resolved(s, w)
    IN  Fails(t, w)

-----------------------------------------------------------------------------
(* The server, as the upload API acts on it.                               *)

Known(u) == server[u].state # "none"
Closed(u, state) == [server EXCEPT ![u] = [state |-> state, parts |-> {}]]
Opened(u) == IF Known(u) THEN server ELSE [server EXCEPT ![u] = [state |-> "active", parts |-> {}]]
WithPart(u, p) == [server EXCEPT ![u].parts = @ \cup {p}]
\* A publication that failed half-way leaves the transfer finalizing, its file
\* published or not; the next completion or cancellation, or a start of the
\* server, reconciles it.
Completable(u) ==
    /\ server[u].parts = Part /\ u \notin foreign
    /\ \/ server[u].state = "active" /\ u \notin published
       \/ server[u].state = "finalizing"
Cancellable(u) ==
    \/ server[u].state \in {"active", "cancelled"}
    \/ server[u].state = "finalizing" /\ u \notin published
Finished(u) ==
    \/ server[u].state = "completed"
    \/ server[u].state = "finalizing" /\ u \in published

\* A request that arrives takes effect, whether or not the page learns of it.
Arrives(w) ==
    /\ LET u == run[w].of  pc == run[w].pc IN
       \/ pc = "create" /\ ~Known(u) /\ server' = Opened(u) /\ UNCHANGED published
       \/ pc = "put" /\ server[u].state = "active" /\ server' = WithPart(u, run[w].part) /\ UNCHANGED published
       \/ pc = "complete" /\ Completable(u) /\ server' = Closed(u, "completed") /\ published' = published \cup {u}
       \/ /\ pc = "complete" /\ Completable(u)
          /\ server' = [server EXCEPT ![u].state = "finalizing"]
          /\ published' \in {published, published \cup {u}}
    /\ UNCHANGED <<page, browser, history>>
DeleteArrives(u) ==
    /\ item[u].cancelling = "delete" /\ server[u].state # "cancelled" /\ Cancellable(u)
    /\ server' = Closed(u, "cancelled")
    /\ UNCHANGED <<page, browser, published, history>>
Reconcile(u) ==
    /\ server[u].state = "finalizing"
    /\ server' = IF u \in published THEN Closed(u, "completed")
                 ELSE [server EXCEPT ![u].state = "active"]
    /\ UNCHANGED <<page, browser, published, history>>

\* The reaper removes a transfer nobody has touched for its time to live.
Reap(u) ==
    /\ Known(u) /\ \A w \in Worker : run[w].of # u
    /\ server' = [server EXCEPT ![u] = [state |-> "none", parts |-> {}]]
    /\ UNCHANGED <<page, browser, published, history>>

-----------------------------------------------------------------------------
(* IndexedDB, which the page waits for nowhere.  What was asked of it may   *)
(* be done at any later time, or fail and never be done; of one upload the *)
(* requests are done in their order.                                       *)

RecordLands(u) ==
    /\ u \in wanted \cup leaving /\ item[u].sha256 /\ u \notin stored
    /\ stored' = stored \cup {u}
    /\ UNCHANGED <<page, lost, server, published, history>>
EraseLands(u) ==
    /\ u \in leaving \ wanted
    /\ leaving' = leaving \ {u} /\ stored' = stored \ {u}
    /\ UNCHANGED <<item, run, attachment, wanted, lost, server, published, history>>

-----------------------------------------------------------------------------
(* The steps of a run.                                                     *)

\* The file's digest is known, or the file cannot be read.
HashEnds(w) ==
    /\ run[w].pc = "hash"
    /\ LET u == run[w].of IN
       \/ Becomes(IF item[u].phase \in Stopped THEN Ends(Here, w) ELSE Asks(Here, u, w))
       \/ Becomes(Fails(Here, w))
    /\ UNCHANGED <<attachment, server, published, asked>>

Lookup(w) ==
    /\ run[w].pc \in {"get", "recheck"} /\ Known(run[w].of)
    /\ LET u == run[w].of IN Becomes(Answered(Here, w, server[u].state, server[u].parts))
    /\ UNCHANGED <<attachment, server, published, asked>>

\* createUpload of a known upload is answered with its state.
Create(w) ==
    /\ run[w].pc = "create"
    /\ LET u == run[w].of IN
       /\ server' = Opened(u)
       /\ Becomes(Answered(Here, w, Opened(u)[u].state, Opened(u)[u].parts))
    /\ UNCHANGED <<attachment, published, asked>>

\* A refusal with 409 or 422 is not believed before a look at the upload.
CreateRefused(w) ==
    /\ run[w].pc = "create" /\ ~Known(run[w].of)
    /\ Becomes([Here EXCEPT !.run[w].pc = "recheck"])
    /\ UNCHANGED <<attachment, server, published, asked>>

QuestionFails(w) ==
    /\ run[w].pc \in Asking
    /\ LET u == run[w].of IN
       \/ run[w].pc # "create" /\ ~Known(u) /\ Becomes(Unanswered(Here, w, "upload_not_found"))
       \/ Becomes(Unanswered(Here, w, "lost"))
    /\ UNCHANGED <<attachment, server, published, asked>>

\* The part's bytes have been hashed; nothing asks whether the item is stopped.
SliceEnds(w) ==
    /\ run[w].pc = "slice"
    /\ Becomes(Puts(Here, w)) \/ Becomes(Fails(Here, w))
    /\ UNCHANGED <<attachment, server, published, asked>>

PutDone(w) ==
    /\ run[w].pc = "put" /\ server[run[w].of].state = "active"
    /\ server' = WithPart(run[w].of, run[w].part)
    /\ Becomes(Sent(Here, w))
    /\ UNCHANGED <<attachment, published, asked>>

PutRefused(w) ==
    /\ run[w].pc = "put"
    /\ Becomes(Fails(LetGo(Here, run[w].of, w), w))
    /\ UNCHANGED <<attachment, server, published, asked>>

PutLost(w) ==
    /\ run[w].pc = "put"
    /\ Becomes(GivenUp(Here, w))
    /\ UNCHANGED <<attachment, server, published, asked>>

\* The part may have arrived all the same; if not it is sent again.
Recover(w) ==
    /\ run[w].pc = "recover"
    /\ LET u == run[w].of
           again(s) == Puts([s EXCEPT !.run[w].try = @ + 1], w)
           seen == [Here EXCEPT !.item[u].status = server[u].state]
       IN  \/ Known(u) /\ run[w].part \in server[u].parts /\ Becomes(Sent(seen, w))
           \/ Known(u) /\ run[w].part \notin server[u].parts /\ Becomes(again(seen))
           \/ Becomes(again(Here))
    /\ UNCHANGED <<attachment, server, published, asked>>

\* completeUpload: the first time it publishes, later it repeats the answer.
Complete(w) ==
    /\ run[w].pc = "complete"
    /\ LET u == run[w].of IN
       /\ Completable(u) \/ Finished(u)
       /\ server' = Closed(u, "completed") /\ published' = published \cup {u}
       /\ Becomes(Ends(Closes(Here, u, "completed"), w))
    /\ UNCHANGED <<attachment, asked>>

CompleteRefused(w) ==
    /\ run[w].pc = "complete"
    /\ Becomes(Fails(Here, w))
    /\ UNCHANGED <<attachment, server, published, asked>>

\* Mutant: a completion that was sent often enough is taken to have succeeded.
CompleteLost_Believed(w) ==
    /\ run[w].pc = "complete"
    /\ Becomes(IF run[w].try = Attempts THEN Ends(Closes(Here, run[w].of, "completed"), w)
               ELSE [Here EXCEPT !.run[w].try = @ + 1])
    /\ UNCHANGED <<attachment, server, published, asked>>

CompleteLost(w) ==
    /\ run[w].pc = "complete"
    /\ Becomes(IF run[w].try = Attempts THEN Fails(Here, w) ELSE [Here EXCEPT !.run[w].try = @ + 1])
    /\ UNCHANGED <<attachment, server, published, asked>>

RunStep(w) ==
    \/ HashEnds(w) \/ Lookup(w) \/ Create(w) \/ CreateRefused(w) \/ QuestionFails(w)
    \/ SliceEnds(w) \/ PutDone(w) \/ PutRefused(w) \/ PutLost(w) \/ Recover(w)
    \/ Complete(w) \/ CompleteRefused(w) \/ CompleteLost(w)

-----------------------------------------------------------------------------
(* The steps of a cancellation.                                            *)

CancelLookup(u) ==
    /\ item[u].cancelling = "get"
    /\ \/ Known(u) /\ Becomes(CancelSees(Here, u, server[u].state))
       \/ ~Known(u) /\ Becomes(CancelFails(Here, u, "upload_not_found"))
       \/ Becomes(CancelFails(Here, u, "lost"))
    /\ UNCHANGED <<attachment, server, published, asked>>

\* cancelUpload; a completed upload conflicts.  The status the item keeps is
\* not looked at any more.
CancelDeletes(u) ==
    /\ item[u].cancelling = "delete"
    /\ \/ /\ Cancellable(u)
          /\ server' = Closed(u, "cancelled")
          /\ Becomes(CancelEnds(WithPhase(Here, u, "cancelled"), u))
       \/ /\ ~Known(u)
          /\ Becomes(CancelFails(Here, u, "upload_not_found"))
          /\ UNCHANGED server
       \/ /\ Finished(u)
          /\ server' = Closed(u, "completed")
          /\ Becomes([Here EXCEPT !.item[u].cancelling = "check"])
       \/ Becomes(CancelFails(Here, u, "lost")) /\ UNCHANGED server
    /\ UNCHANGED <<attachment, published, asked>>

CancelChecks(u) ==
    /\ item[u].cancelling = "check"
    /\ \/ server[u].state = "completed" /\ Becomes(CancelSees(Here, u, "completed"))
       \/ Becomes(CancelFails(Here, u, "upload_conflict"))
    /\ UNCHANGED <<attachment, server, published, asked>>

CancelStep(u) == CancelLookup(u) \/ CancelDeletes(u) \/ CancelChecks(u)

-----------------------------------------------------------------------------
(* What the user does in the drawer, and the page's end.                   *)

Add(u) ==
    /\ item[u] = NewItem /\ \A v \in Upload : v < u => item[v] # NewItem
    /\ Becomes(Pump([Here EXCEPT !.item[u] = [NewItem EXCEPT !.listed = TRUE, !.file = Original]]))
    /\ attachment' = Nobody
    /\ UNCHANGED <<server, published, asked>>

OpenPicker(u) ==
    /\ item[u].listed /\ attachment # u
    /\ \/ item[u].phase = "reselect"
       \/ item[u].phase \in {"paused", "failed"} /\ item[u].file = None
    /\ Becomes(Here)
    /\ attachment' = u
    /\ UNCHANGED <<server, published, asked>>

\* attachFile, with a file of the right name, size and date, or another (None).
AttachFile(c) ==
    /\ attachment # Nobody
    /\ attachment' = Nobody
    /\ LET u == attachment IN
       Becomes(IF c = None \/ ~item[u].listed THEN Here
               ELSE [WithPhase(Here, u, "hashing") EXCEPT !.item[u].attaching = @ \cup {c}])
    /\ UNCHANGED <<server, published, asked>>

\* Mutant: name, size and date are believed to identify the file.
Attached_Unverified(s, u, c) ==
    IF s.item[u].phase \in Stopped THEN s
    ELSE Pump(Update(s, u, [s.item[u] EXCEPT !.file = c, !.phase = "waiting"]))

\* The chosen file has been hashed; if it cannot be read nothing is done.
Attached(s, u, c) ==
    IF s.item[u].phase \in Stopped THEN s
    ELSE IF c # Original THEN WithPhase(s, u, "reselect")
    ELSE Pump(Update(s, u, [s.item[u] EXCEPT !.file = c, !.phase = "waiting"]))
AttachEnds(u, c) ==
    /\ c \in item[u].attaching
    /\ LET s == [Here EXCEPT !.item[u].attaching = @ \ {c}]
       IN  Becomes(Attached(s, u, c)) \/ Becomes(s)
    /\ UNCHANGED <<attachment, server, published, asked>>

\* Mutant: pausing an upload gives it up at the server.
Pause_Cancels(u) ==
    /\ item[u].listed /\ item[u].phase \in {"uploading", "hashing"} /\ item[u].cancelling = "no"
    /\ Becomes(CancelStarts(Here, u))
    /\ UNCHANGED <<attachment, server, published, asked>>

Pause(u) ==
    /\ item[u].listed /\ item[u].phase \in {"uploading", "hashing"}
    /\ Becomes(Abort(WithPhase(Here, u, "paused"), u))
    /\ asked' = IF \E w \in Worker : run[w].of = u /\ run[w].pc \in Asking
                THEN asked \cup {u} ELSE asked
    /\ UNCHANGED <<attachment, server, published>>

Resume(u) ==
    /\ item[u].listed /\ item[u].phase \in {"paused", "failed"} /\ item[u].file # None
    /\ Becomes(Pump(WithPhase(Here, u, "waiting")))
    /\ UNCHANGED <<attachment, server, published, asked>>

Cancel(u) ==
    /\ item[u].listed /\ item[u].phase \notin Terminal /\ item[u].cancelling = "no"
    /\ Becomes(CancelStarts(Here, u))
    /\ asked' = asked \cup {u}
    /\ UNCHANGED <<attachment, server, published>>

\* remove: a cancellation already under way makes it do nothing.
Remove(u) ==
    /\ item[u].listed /\ (item[u].phase \in Terminal \/ item[u].cancelling = "no")
    /\ Becomes(IF item[u].phase \in Terminal THEN Leaves(Here, u)
               ELSE CancelStarts([Here EXCEPT !.item[u].removing = TRUE], u))
    /\ asked' = asked \cup {u}
    /\ UNCHANGED <<attachment, server, published>>

\* The page is loaded again: restore finds the recorded uploads, without files;
\* what was asked of the browser and not done is not done any more.
Restored(u) ==
    IF u \in stored THEN [NewItem EXCEPT !.listed = TRUE, !.phase = "reselect", !.sha256 = TRUE]
    ELSE IF item[u] = NewItem THEN NewItem ELSE [NewItem EXCEPT !.phase = "cancelled"]
Reload ==
    /\ \E u \in Upload : item[u] # Restored(u)
    /\ item' = [u \in Upload |-> Restored(u)] /\ run' = [w \in Worker |-> Idle]
    /\ attachment' = Nobody /\ wanted' = stored /\ leaving' = {}
    /\ lost' = lost \cup (wanted \ stored)
    /\ UNCHANGED <<stored, server, published, history>>

UserStep ==
    \/ \E u \in Upload : Add(u) \/ OpenPicker(u) \/ Pause(u) \/ Resume(u) \/ Cancel(u) \/ Remove(u)
    \/ \E c \in Content \cup {None} : AttachFile(c)
    \/ Reload

Next ==
    \/ \E w \in Worker : RunStep(w) \/ Arrives(w)
    \/ \E u \in Upload : CancelStep(u) \/ DeleteArrives(u) \/ Reconcile(u) \/ Reap(u)
    \/ \E u \in Upload : RecordLands(u) \/ EraseLands(u)
    \/ \E u \in Upload, c \in Content : AttachEnds(u, c)
    \/ UserStep

Spec == Init /\ [][Next]_vars

-----------------------------------------------------------------------------
TypeOK ==
    /\ item \in [Upload -> Item] /\ run \in [Worker -> Run]
    /\ attachment \in Upload \cup {Nobody}
    /\ wanted \cup leaving \cup stored \cup lost \subseteq Upload /\ published \subseteq Upload
    /\ server \in [Upload -> Transfer]
    /\ foreign \subseteq Upload /\ asked \subseteq Upload

\* After a reload no part is sent of a file that is not the one the upload was
\* begun with, whichever files are chosen and in whatever order their digests
\* become known (attachFile; README.md:89).
OnlyOriginalWritten == foreign = {}

\* What the page calls completed has got its name on the server, however runs,
\* cancellations and lost answers cross (run, cancel).
CompletedIsPublished ==
    \A u \in Upload : item[u].listed /\ item[u].phase = "completed" => u \in published

\* The capability to go on with a transfer is not lost while the server keeps
\* it: the page has its record, or has asked for it, unless the user wanted the
\* transfer gone or closed the page before the record had landed, which is never
\* waited for (persist, queue.ts:63).  And nothing stays recorded of an item that
\* has left the queue but what the browser has still to forget (update, remove).
RecordKept ==
    /\ \A u \in Upload : server[u].state \in Open => u \in wanted \cup asked \cup lost
    /\ \A u \in stored : item[u].listed \/ u \in leaving

\* A transfer is cancelled at the server only if the user asked for it, or paused
\* it while a run was asking for its state: that run then cancels it (run:205).
CancelledOnRequest ==
    \A u \in Upload : server[u].state = "cancelled" => u \in asked

\* Nobody waits for what will not come: a waiting item only for a worker while
\* all are busy, an uploading one for a run of its own, a cancellation for a
\* promise that a run will settle, and a run for a cancellation (pump, run, cancel).
NobodyStranded ==
    /\ \A u \in Upload : item[u].listed /\ item[u].phase = "waiting" =>
          item[u].file # None /\ \A w \in Worker : run[w].pc # "idle"
    /\ \A u \in Upload : item[u].listed /\ item[u].phase = "uploading" =>
          \E w \in Worker : run[w].of = u
    /\ \A u \in Upload : item[u].cancelling = "await" =>
          run[item[u].awaited].of = u /\ run[item[u].awaited].pc \in {"create", "recheck"}
    /\ \A w \in Worker : run[w].pc = "cancelling" => item[run[w].of].cancelling # "no"
=============================================================================
