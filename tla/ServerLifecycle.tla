--------------------------- MODULE ServerLifecycle ---------------------------
(***************************************************************************)
(* The life of a server process (main.go: run, web; request_gate.go;       *)
(* state_lock.go; runtime.go): it takes the lock on the state directory,   *)
(* prepares the private state, serves audited mutations, drains the        *)
(* admitted ones when it is told to stop, closes the state and exits.      *)
(*                                                                         *)
(* Several processes may be started on one state directory, at once or one *)
(* after the other.  Each process runs once; a restart is another process. *)
(***************************************************************************)
EXTENDS Naturals, FiniteSets

CONSTANTS
    Process,            \* processes started on the state directory
    Request,            \* mutating requests; each is sent once
    PartUpload,         \* those that upload a part: no audit record of their own
    ListenerMayFail,    \* whether accepting connections may fail
    Faults,             \* whether disk operations may report errors
    None

ASSUME RequestAssumption == IsFiniteSet(Request) /\ PartUpload \subseteq Request
ASSUME FlagsAssumption == ListenerMayFail \in BOOLEAN /\ Faults \in BOOLEAN
ASSUME NoneAssumption == None \notin Process

VARIABLES
    lock,       \* the process that holds the lock on the state directory
    main,       \* main[p]: where p's main goroutine stands
    conns,      \* conns[p]: p's connections deliver requests to the gate
    ending,     \* ending[p]: p's context is done
    late,       \* late[p]: the shutdown deadline has passed
    ready,      \* ready[p]: the readiness flag
    audit,      \* audit[p]: p's audit log is "shut", "open" or "broken"
    accepting,  \* the request gate: accepting, the number of admitted
    active,     \*   handlers, and whether the channel drained is closed
    drained,
    reaper,     \* reaper[p]: p's reaper goroutine
    at,         \* at[r]: the process request r was sent to
    step,       \* step[r]: where r's handler stands
    effect,     \* effect[r]: what r asks for was done
    log,        \* log[r]: the last durable audit record about r
    reply       \* reply[r]: what r's client was told

process == <<lock, main, conns, ending, late, reaper>>
gate == <<accepting, active, drained>>
request == <<at, step, effect, log, reply>>
vars == <<process, ready, audit, gate, request>>

Ended == {"exited", "forced", "crashed"}
\* Handlers inside the gate.
InGate == {"admitted", "permitted", "working", "finishing", "leaving"}
Inside(p) == {r \in Request : at[r] = p /\ step[r] \in InGate}

Init ==
    /\ lock = None
    /\ main = [p \in Process |-> "new"]
    /\ conns = [p \in Process |-> FALSE]
    /\ ending = [p \in Process |-> FALSE]
    /\ late = [p \in Process |-> FALSE]
    /\ ready = [p \in Process |-> FALSE]
    /\ audit = [p \in Process |-> "shut"]
    /\ accepting = [p \in Process |-> TRUE]
    /\ active = [p \in Process |-> 0]
    /\ drained = [p \in Process |-> FALSE]
    /\ reaper = [p \in Process |-> "off"]
    /\ at = [r \in Request |-> None]
    /\ step = [r \in Request |-> "unsent"]
    /\ effect = [r \in Request |-> FALSE]
    /\ log = [r \in Request |-> "none"]
    /\ reply = [r \in Request |-> "none"]

MainGoto(p, s) == main' = [main EXCEPT ![p] = s]

-----------------------------------------------------------------------------
(* RuntimeState.Record *)

Recorded(p) == audit[p] = "open" /\ UNCHANGED <<audit, ready>>

\* A failed record breaks an open log for good and disables readiness.
RecordFails(p) ==
    /\ Faults \/ audit[p] # "open"
    /\ audit' = [audit EXCEPT ![p] = IF @ = "open" THEN "broken" ELSE @]
    /\ ready' = [ready EXCEPT ![p] = FALSE]

-----------------------------------------------------------------------------
(* Starting: parseConfig and the opening of web *)

\* Seeded fault: a lock that is already held is not noticed.
Launch_Unlocked(p) ==
    /\ main[p] = "new"
    /\ lock' = p
    /\ MainGoto(p, "clearing")
    /\ UNCHANGED <<conns, ending, late, reaper, ready, audit, gate, request>>

Launch(p) ==
    /\ main[p] = "new"
    /\ \/ lock = None /\ lock' = p /\ MainGoto(p, "clearing")
       \/ lock # None /\ UNCHANGED lock /\ MainGoto(p, "exited")
    /\ UNCHANGED <<conns, ending, late, reaper, ready, audit, gate, request>>

\* Clear chunks/ and tmp/, then open the audit log.
Prepare(p) ==
    /\ main[p] = "clearing"
    /\ \/ audit' = [audit EXCEPT ![p] = "open"] /\ MainGoto(p, "recovering")
       \/ Faults /\ UNCHANGED audit /\ MainGoto(p, "unlocking")
    /\ UNCHANGED <<lock, conns, ending, late, reaper, ready, gate, request>>

\* NewUploadStore recovers the transfers or refuses to start.
RecoverUploads(p) ==
    /\ main[p] = "recovering"
    /\ MainGoto(p, "starting") \/ MainGoto(p, "closing")
    /\ UNCHANGED <<lock, conns, ending, late, reaper, ready, audit, gate, request>>

\* The address is taken: web gives up before it has started anything.
ListenFails(p) ==
    /\ ListenerMayFail /\ main[p] = "starting"
    /\ ending' = [ending EXCEPT ![p] = TRUE]
    /\ MainGoto(p, "closing")
    /\ UNCHANGED <<lock, conns, late, reaper, ready, audit, gate, request>>

StartReaper(p) ==
    /\ main[p] = "starting"
    /\ ready' = [ready EXCEPT ![p] = TRUE]
    /\ reaper' = [reaper EXCEPT ![p] = "waiting"]
    /\ MainGoto(p, "announcing")
    /\ UNCHANGED <<lock, conns, ending, late, audit, gate, request>>

\* Without a durable server.start record nothing is served.
Announce(p) ==
    /\ main[p] = "announcing"
    /\ \/ /\ Recorded(p) /\ MainGoto(p, "serving")
          /\ conns' = [conns EXCEPT ![p] = TRUE]
          /\ UNCHANGED ending
       \/ /\ RecordFails(p) /\ MainGoto(p, "closing")
          /\ ending' = [ending EXCEPT ![p] = TRUE]
          /\ UNCHANGED conns
    /\ UNCHANGED <<lock, late, reaper, gate, request>>

-----------------------------------------------------------------------------
(* requestGate.Wrap and an audited mutation *)

CloseWhenDrained(p, accepts, n) ==
    drained' = [drained EXCEPT ![p] = @ \/ (~accepts /\ n = 0)]

Answer(r, a) == reply' = [reply EXCEPT ![r] = a]
StepTo(r, s) == step' = [step EXCEPT ![r] = s]

TurnAway(r, p) ==
    /\ step[r] = "unsent" /\ conns[p] /\ main[p] \notin Ended
    /\ ~accepting[p]
    /\ at' = [at EXCEPT ![r] = p]
    /\ StepTo(r, "done") /\ Answer(r, "shutting_down")
    /\ UNCHANGED <<process, ready, audit, gate, effect, log>>

\* Seeded fault: the gate admits handlers after it has been closed.
Admit_Late(r, p) ==
    /\ step[r] = "unsent" /\ conns[p] /\ main[p] \notin Ended
    /\ active' = [active EXCEPT ![p] = @ + 1]
    /\ at' = [at EXCEPT ![r] = p]
    /\ StepTo(r, "admitted")
    /\ UNCHANGED <<process, ready, audit, accepting, drained, effect, log, reply>>

Admit(r, p) ==
    /\ step[r] = "unsent" /\ conns[p] /\ main[p] \notin Ended
    /\ accepting[p]
    /\ active' = [active EXCEPT ![p] = @ + 1]
    /\ at' = [at EXCEPT ![r] = p]
    /\ StepTo(r, "admitted")
    /\ UNCHANGED <<process, ready, audit, accepting, drained, effect, log, reply>>

\* Seeded fault: a request that finds the process not ready is left hanging.
CheckReady_Waiting(r) ==
    /\ step[r] = "admitted"
    /\ ready[at[r]] /\ audit[at[r]] = "open"
    /\ StepTo(r, IF r \in PartUpload THEN "working" ELSE "permitted")
    /\ UNCHANGED <<process, ready, audit, gate, at, effect, log, reply>>

\* mutationAuditMiddleware
CheckReady(r) ==
    /\ step[r] = "admitted"
    /\ IF ready[at[r]] /\ audit[at[r]] = "open"
       THEN StepTo(r, IF r \in PartUpload THEN "working" ELSE "permitted") /\ UNCHANGED reply
       ELSE StepTo(r, "leaving") /\ Answer(r, "unavailable")
    /\ UNCHANGED <<process, ready, audit, gate, at, effect, log>>

\* requireAudit: nothing is done before the attempt is on record.
RequireAudit(r) ==
    /\ step[r] = "permitted"
    /\ \/ /\ Recorded(at[r]) /\ StepTo(r, "working")
          /\ log' = [log EXCEPT ![r] = "attempted"]
          /\ UNCHANGED reply
       \/ /\ RecordFails(at[r]) /\ StepTo(r, "leaving")
          /\ Answer(r, "unavailable")
          /\ UNCHANGED log
    /\ UNCHANGED <<process, gate, at, effect>>

\* The operation itself, in the private state and the managed directory.  A
\* failed one may have done a part of it; a batch deletion then records so.
Work(r) ==
    /\ step[r] = "working"
    /\ \/ /\ effect' = [effect EXCEPT ![r] = TRUE]
          /\ IF r \in PartUpload THEN StepTo(r, "leaving") /\ Answer(r, "ok")
                                 ELSE StepTo(r, "finishing") /\ UNCHANGED reply
          /\ UNCHANGED <<audit, ready>>
       \/ /\ \E done \in BOOLEAN : effect' = [effect EXCEPT ![r] = done]
          /\ StepTo(r, "leaving") /\ Answer(r, "error")
          /\ UNCHANGED <<audit, ready>> \/ (r \notin PartUpload /\ RecordFails(at[r]))
    /\ UNCHANGED <<process, gate, at, log>>

\* Seeded fault: the result of the success record is ignored.
FinishMutation_Unchecked(r) ==
    /\ step[r] = "finishing"
    /\ StepTo(r, "leaving") /\ Answer(r, "ok")
    /\ \/ Recorded(at[r]) /\ log' = [log EXCEPT ![r] = "success"]
       \/ RecordFails(at[r]) /\ UNCHANGED log
    /\ UNCHANGED <<process, gate, at, effect>>

\* finishMutation: success is reported only when it is on record.
FinishMutation(r) ==
    /\ step[r] = "finishing"
    /\ StepTo(r, "leaving")
    /\ \/ Recorded(at[r]) /\ log' = [log EXCEPT ![r] = "success"] /\ Answer(r, "ok")
       \/ RecordFails(at[r]) /\ Answer(r, "unavailable") /\ UNCHANGED log
    /\ UNCHANGED <<process, gate, at, effect>>

\* Seeded fault: the last handler out closes drained although the gate is open.
Leave_Eager(r) ==
    /\ step[r] = "leaving"
    /\ StepTo(r, "done")
    /\ active' = [active EXCEPT ![at[r]] = @ - 1]
    /\ CloseWhenDrained(at[r], FALSE, active[at[r]] - 1)
    /\ UNCHANGED <<process, ready, audit, accepting, at, effect, log, reply>>

Leave(r) ==
    /\ step[r] = "leaving"
    /\ StepTo(r, "done")
    /\ active' = [active EXCEPT ![at[r]] = @ - 1]
    /\ CloseWhenDrained(at[r], accepting[at[r]], active[at[r]] - 1)
    /\ UNCHANGED <<process, ready, audit, accepting, at, effect, log, reply>>

-----------------------------------------------------------------------------
(* The reaper goroutine; the gate does not know it. *)

\* A tick and a done context are both taken from the select, in any order.
ReaperTick(p) ==
    /\ reaper[p] = "waiting" /\ main[p] \notin Ended
    /\ reaper' = [reaper EXCEPT ![p] = "reaping"]
    /\ UNCHANGED <<lock, main, conns, ending, late, ready, audit, gate, request>>

ReaperPause(p) ==
    /\ reaper[p] = "reaping"
    /\ reaper' = [reaper EXCEPT ![p] = "waiting"]
    /\ UNCHANGED <<lock, main, conns, ending, late, ready, audit, gate, request>>

ReaperStop(p) ==
    /\ reaper[p] = "waiting" /\ ending[p]
    /\ reaper' = [reaper EXCEPT ![p] = "off"]
    /\ UNCHANGED <<lock, main, conns, ending, late, ready, audit, gate, request>>

-----------------------------------------------------------------------------
(* Stopping: the select in web *)

\* A termination signal ends the context run has made.
Terminate(p) ==
    /\ main[p] \in {"starting", "announcing", "serving"} /\ ~ending[p]
    /\ ending' = [ending EXCEPT ![p] = TRUE]
    /\ UNCHANGED <<lock, main, conns, late, reaper, ready, audit, gate, request>>

\* Serve returned an error: web returns it, and run's deferred calls follow.
ListenerFails(p) ==
    /\ ListenerMayFail /\ main[p] = "serving"
    /\ ready' = [ready EXCEPT ![p] = FALSE]
    /\ ending' = [ending EXCEPT ![p] = TRUE]
    /\ MainGoto(p, "closing")
    /\ UNCHANGED <<lock, conns, late, reaper, audit, gate, request>>

BeginShutdown(p) ==
    /\ main[p] = "serving" /\ ending[p]
    /\ ready' = [ready EXCEPT ![p] = FALSE]
    /\ MainGoto(p, "stopping")
    /\ UNCHANGED <<lock, conns, ending, late, reaper, audit, gate, request>>

StopAdmission(p) ==
    /\ main[p] = "stopping"
    /\ accepting' = [accepting EXCEPT ![p] = FALSE]
    /\ CloseWhenDrained(p, FALSE, active[p])
    /\ MainGoto(p, "noting")
    /\ UNCHANGED <<lock, conns, ending, late, reaper, ready, audit, active, request>>

\* server.shutdown_requested and server.shutdown_complete may fail to be recorded.
Note(p) ==
    /\ main[p] = "noting"
    /\ Recorded(p) \/ RecordFails(p)
    /\ MainGoto(p, "draining")
    /\ UNCHANGED <<lock, conns, ending, late, reaper, gate, request>>

DeadlinePasses(p) ==
    /\ main[p] = "draining" /\ ~late[p]
    /\ late' = [late EXCEPT ![p] = TRUE]
    /\ UNCHANGED <<lock, main, conns, ending, reaper, ready, audit, gate, request>>

\* Shutdown and WaitForDrain found every admitted handler gone.
Drain(p) ==
    /\ main[p] = "draining" /\ drained[p]
    /\ conns' = [conns EXCEPT ![p] = FALSE]
    /\ Recorded(p) \/ RecordFails(p)
    /\ MainGoto(p, "closing")
    /\ UNCHANGED <<lock, ending, late, reaper, gate, request>>

\* Serve failed while the signal came: its error ends web without a look at
\* the gate, once Shutdown has returned.
DrainUnheeded(p) ==
    /\ ListenerMayFail /\ main[p] = "draining" /\ (drained[p] \/ late[p])
    /\ conns' = [conns EXCEPT ![p] = FALSE]
    /\ MainGoto(p, "closing")
    /\ UNCHANGED <<lock, ending, late, reaper, ready, audit, gate, request>>

\* The process ends and takes its goroutines with it; the lock is released.
Die(p, how) ==
    /\ MainGoto(p, how)
    /\ lock' = IF lock = p THEN None ELSE lock
    /\ reaper' = [reaper EXCEPT ![p] = "off"]
    /\ conns' = [conns EXCEPT ![p] = FALSE]
    /\ step' = [r \in Request |-> IF r \in Inside(p) THEN "killed" ELSE step[r]]
    /\ UNCHANGED <<ending, late, ready, audit, gate, at, effect, log, reply>>

\* Seeded faults: the deadline is taken for the drain, or waited out again.
ForceExit_Closing(p) ==
    /\ main[p] = "draining" /\ late[p] /\ ~drained[p]
    /\ MainGoto(p, "closing")
    /\ UNCHANGED <<lock, conns, ending, late, reaper, ready, audit, gate, request>>

ForceExit_Waiting(p) ==
    /\ main[p] = "draining" /\ late[p] /\ ~drained[p]
    /\ late' = [late EXCEPT ![p] = FALSE]
    /\ UNCHANGED <<lock, main, conns, ending, reaper, ready, audit, gate, request>>

\* The deadline passed first: exit without closing the state.
ForceExit(p) ==
    /\ main[p] = "draining" /\ late[p] /\ ~drained[p]
    /\ Die(p, "forced")

\* RuntimeState.Close: readiness, the audit log, the lock.
CloseAudit(p) ==
    /\ main[p] = "closing"
    /\ ready' = [ready EXCEPT ![p] = FALSE]
    /\ audit' = [audit EXCEPT ![p] = "shut"]
    /\ MainGoto(p, "unlocking")
    /\ UNCHANGED <<lock, conns, ending, late, reaper, gate, request>>

Unlock(p) ==
    /\ main[p] = "unlocking"
    /\ lock' = IF lock = p THEN None ELSE lock
    /\ MainGoto(p, "leaving")
    /\ UNCHANGED <<conns, ending, late, reaper, ready, audit, gate, request>>

Exit(p) == main[p] = "leaving" /\ Die(p, "exited")

Crash(p) == main[p] \notin Ended \cup {"new"} /\ Die(p, "crashed")

-----------------------------------------------------------------------------

Starting(p) == \/ Launch(p) \/ Prepare(p) \/ RecoverUploads(p)
               \/ ListenFails(p) \/ StartReaper(p) \/ Announce(p)
Stopping(p) == \/ BeginShutdown(p) \/ StopAdmission(p) \/ Note(p) \/ Drain(p) \/ DrainUnheeded(p) \/ ForceExit(p)
               \/ CloseAudit(p) \/ Unlock(p) \/ Exit(p)
Handle(r) == CheckReady(r) \/ RequireAudit(r) \/ FinishMutation(r) \/ Leave(r)

Next ==
    \/ \E p \in Process :
          \/ Starting(p) \/ Stopping(p)
          \/ ReaperTick(p) \/ ReaperPause(p) \/ ReaperStop(p)
          \/ Terminate(p) \/ ListenerFails(p) \/ DeadlinePasses(p) \/ Crash(p)
          \/ \E r \in Request : TurnAway(r, p) \/ Admit(r, p)
    \/ \E r \in Request : Handle(r) \/ Work(r)

Spec == Init /\ [][Next]_vars

-----------------------------------------------------------------------------
(* Properties *)

TypeOK ==
    /\ lock \in Process \cup {None}
    /\ main \in [Process -> Ended \cup {"new", "clearing", "recovering", "starting",
                    "announcing", "serving", "stopping", "noting", "draining", "closing",
                    "unlocking", "leaving"}]
    /\ conns \in [Process -> BOOLEAN]
    /\ ending \in [Process -> BOOLEAN]
    /\ late \in [Process -> BOOLEAN]
    /\ ready \in [Process -> BOOLEAN]
    /\ audit \in [Process -> {"shut", "open", "broken"}]
    /\ accepting \in [Process -> BOOLEAN]
    /\ active \in [Process -> Nat]
    /\ drained \in [Process -> BOOLEAN]
    /\ reaper \in [Process -> {"off", "waiting", "reaping"}]
    /\ at \in [Request -> Process \cup {None}]
    /\ step \in [Request -> InGate \cup {"unsent", "done", "killed"}]
    /\ effect \in [Request -> BOOLEAN]
    /\ log \in [Request -> {"none", "attempted", "success"}]
    /\ reply \in [Request -> {"none", "ok", "error", "unavailable", "shutting_down"}]

\* The request gate "tracks the admitted handlers to keep runtime state alive
\* until each one has returned" (request_gate.go:9-10): while a handler is
\* inside the gate its process holds the lock and has not closed the state.
AdmittedHandlersKeepState ==
    \A p \in Process : Inside(p) # {} => lock = p /\ main[p] \notin {"unlocking", "leaving"}

\* Who reads or writes the private state.
Using(p) == \/ main[p] \in {"clearing", "recovering"}
            \/ reaper[p] = "reaping"
            \/ \E r \in Inside(p) : step[r] = "working"

\* The state directory has one user at a time, with one exception: the last
\* pass of the reaper of a process that has released the lock and is about to
\* exit; nothing waits for that pass.
StateIsExclusive ==
    \A p, q \in Process : p # q /\ Using(p) /\ Using(q) =>
        \E x \in {p, q} : main[x] = "leaving" /\ Inside(x) = {} /\ reaper[x] = "reaping"

\* The channel drained tells the truth, and for good.
DrainedIsFinal == \A p \in Process : drained[p] => ~accepting[p] /\ Inside(p) = {}

\* An effect was announced before, and a success reported after it was recorded.
EffectsAreAudited ==
    \A r \in Request \ PartUpload :
        /\ effect[r] => log[r] # "none"
        /\ reply[r] = "ok" => effect[r] /\ log[r] = "success"

\* An admitted handler is cut short by a crash or by the deadline only.
OrderlyExitKillsNobody ==
    \A r \in Request : step[r] = "killed" => main[at[r]] \in {"forced", "crashed"}

-----------------------------------------------------------------------------
(* Fairness: the main goroutine and the handlers' own steps are scheduled   *)
(* and the deadline passes.  Work has none: an operation may hang for ever. *)

FairSpec ==
    /\ Spec
    /\ \A p \in Process : WF_vars(Starting(p)) /\ WF_vars(Stopping(p)) /\ WF_vars(DeadlinePasses(p))
    /\ \A r \in Request : WF_vars(Handle(r))

\* A process that was told to stop while serving ends, whatever its handlers do.
ShutdownEnds == \A p \in Process : main[p] = "serving" /\ ending[p] ~> main[p] \in Ended

\* An admitted request is answered or works until its process has ended.
AdmittedIsAnswered ==
    \A r \in Request : step[r] = "admitted" ~> step[r] \in {"working", "done", "killed"}
=============================================================================
