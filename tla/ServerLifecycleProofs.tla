------------------------ MODULE ServerLifecycleProofs ------------------------
(***************************************************************************)
(* Proofs about ServerLifecycle, for any number of processes and requests. *)
(*                                                                         *)
(* The inductive invariant joins what the gate counts (CountInv, DrainInv) *)
(* to where the main goroutine stands (LockInv, ReaperInv, QuietInv): the  *)
(* state may be closed because the gate was seen empty after it had shut.  *)
(* That holds as long as accepting connections does not fail, which is     *)
(* what the theorems about shutdown assume.                                *)
(*                                                                         *)
(* That the shutdown is woken by the last handler (ShutInv) needs no such  *)
(* assumption.                                                             *)
(***************************************************************************)
EXTENDS ServerLifecycle, FiniteSetTheorems, TLAPS

Serving == {"serving", "stopping", "noting", "draining"}
Early == {"new", "clearing", "recovering", "starting", "announcing"}
Holding == Serving \cup {"clearing", "recovering", "starting", "announcing",
                         "closing", "unlocking"}

\* A process past the start and before the unlocking holds the lock.
LockInv == \A p \in Process : main[p] \in Holding => lock = p

\* The reaper runs between the start and the exit only.
ReaperInv == \A p \in Process : reaper[p] # "off" => main[p] \in Holding \cup {"leaving"}

\* No handler is inside the gate before the process serves nor after its end.
EarlyInv ==
    \A p \in Process :
        /\ main[p] \in Early \cup Ended => Inside(p) = {}
        /\ main[p] \in Early => ~conns[p]

\* The gate of a living process counts the handlers inside it.
CountInv == \A p \in Process : main[p] \notin Ended => active[p] = Cardinality(Inside(p))

\* drained is closed by the last handler to leave a gate that is shut.
DrainInv == \A p \in Process : drained[p] => ~accepting[p] /\ active[p] = 0

\* An audited request works only after its attempt was recorded.
AuditInv ==
    \A r \in Request \ PartUpload :
        /\ step[r] \in {"working", "finishing"} => log[r] # "none"
        /\ step[r] = "finishing" => effect[r]
        /\ effect[r] => log[r] # "none"
        /\ reply[r] = "ok" => effect[r] /\ log[r] = "success"
        /\ step[r] \notin {"leaving", "done", "killed"} => reply[r] = "none"

\* Handlers run, and requests come in, only while the process serves.
QuietInv == \A p \in Process : Inside(p) # {} \/ conns[p] => main[p] \in Serving

\* Only a crash or a forced exit cuts a handler short.
KilledInv ==
    \A r \in Request : step[r] = "killed" =>
        at[r] \in Process /\ main[at[r]] \in {"forced", "crashed"}

-----------------------------------------------------------------------------
(* Initial states *)

LEMMA InitType == Init => TypeOK
  BY DEF Init, TypeOK, Ended, InGate

LEMMA InitInside == Init => \A p \in Process : Inside(p) = {}
  BY DEF Init, Inside, InGate

LEMMA InitCount == Init => EarlyInv /\ CountInv /\ DrainInv
  <1> SUFFICES ASSUME Init PROVE EarlyInv /\ CountInv /\ DrainInv
    OBVIOUS
  <1>1. ASSUME NEW p \in Process PROVE Cardinality(Inside(p)) = 0
    <2>1. Inside(p) = {}
      BY InitInside
    <2> QED
      BY <2>1, FS_EmptySet
  <1>2. CountInv /\ DrainInv
    BY <1>1 DEF Init, CountInv, DrainInv
  <1> QED
    BY <1>2, InitInside DEF Init, EarlyInv

LEMMA InitRest == Init => LockInv /\ ReaperInv /\ AuditInv /\ QuietInv /\ KilledInv
  BY InitInside DEF Init, LockInv, ReaperInv, AuditInv, QuietInv, KilledInv, Holding, Serving

-----------------------------------------------------------------------------
(* The steps in three groups: the main goroutine's, which leave the        *)
(* requests alone; the handlers', which leave the process alone; the end   *)
(* of a process, which may cut handlers short.                             *)

MainStep(p) ==
    \/ Launch(p) \/ Prepare(p) \/ RecoverUploads(p)
    \/ ListenFails(p) \/ StartReaper(p) \/ Announce(p)
    \/ BeginShutdown(p) \/ StopAdmission(p) \/ Note(p) \/ Drain(p) \/ DrainUnheeded(p)
    \/ CloseAudit(p) \/ Unlock(p)
    \/ ReaperTick(p) \/ ReaperPause(p) \/ ReaperStop(p)
    \/ Terminate(p) \/ ListenerFails(p) \/ DeadlinePasses(p)

DeathStep(p) == ForceExit(p) \/ Exit(p) \/ Crash(p)

EnterStep(r) == \E p \in Process : TurnAway(r, p) \/ Admit(r, p)

InnerStep(r) == CheckReady(r) \/ RequireAudit(r) \/ Work(r) \/ FinishMutation(r)

LEMMA StepKinds ==
  ASSUME [Next]_vars
  PROVE  \/ \E p \in Process : MainStep(p)
         \/ \E p \in Process : DeathStep(p)
         \/ \E r \in Request : EnterStep(r)
         \/ \E r \in Request : InnerStep(r)
         \/ \E r \in Request : Leave(r)
         \/ UNCHANGED vars
  BY DEF Next, Starting, Stopping, Handle, MainStep, DeathStep, EnterStep, InnerStep

\* The shape of the steps: what the invariants of the requests need to know.
LEMMA MainKeepsRequests ==
  ASSUME NEW p \in Process, MainStep(p)
  PROVE  UNCHANGED request /\ UNCHANGED active
  BY DEF MainStep, Launch, Prepare, RecoverUploads, ListenFails, StartReaper, Announce,
         BeginShutdown, StopAdmission, Note, Drain, DrainUnheeded, CloseAudit, Unlock,
         ReaperTick, ReaperPause, ReaperStop, Terminate, ListenerFails, DeadlinePasses,
         gate, request, process

LEMMA HandlersKeepProcess ==
  ASSUME NEW r \in Request, EnterStep(r) \/ InnerStep(r) \/ Leave(r)
  PROVE  UNCHANGED process
  BY DEF EnterStep, InnerStep, Leave, TurnAway, Admit, CheckReady, RequireAudit, Work,
         FinishMutation

LEMMA DeathShape ==
  ASSUME NEW p \in Process, DeathStep(p)
  PROVE  \E how \in Ended : Die(p, how)
  BY DEF DeathStep, ForceExit, Exit, Crash, Ended

-----------------------------------------------------------------------------
(* Each invariant, one kind of step at a time *)

LEMMA LockStep ==
  ASSUME TypeOK, LockInv, ReaperInv, [Next]_vars
  PROVE  LockInv' /\ ReaperInv'
  <1>1. ASSUME NEW p \in Process, MainStep(p) PROVE LockInv' /\ ReaperInv'
    <2>1. CASE Launch(p)
      BY <2>1, NoneAssumption DEF Launch, TypeOK, LockInv, ReaperInv, MainGoto, Holding, Serving
    <2>2. CASE Prepare(p) \/ RecoverUploads(p) \/ ListenFails(p) \/ StartReaper(p) \/ Announce(p)
      BY <2>2 DEF Prepare, RecoverUploads, ListenFails, StartReaper, Announce, TypeOK,
         LockInv, ReaperInv, MainGoto, Holding, Serving
    <2>3. CASE BeginShutdown(p)
      BY <2>3 DEF BeginShutdown, TypeOK, LockInv, ReaperInv, MainGoto, Holding, Serving
    <2>7. CASE StopAdmission(p)
      BY <2>7 DEF StopAdmission, TypeOK, LockInv, ReaperInv, MainGoto, Holding, Serving
    <2>8. CASE Note(p)
      BY <2>8 DEF Note, TypeOK, LockInv, ReaperInv, MainGoto, Holding, Serving
    <2>6. CASE Drain(p) \/ DrainUnheeded(p) \/ CloseAudit(p)
      BY <2>6 DEF Drain, DrainUnheeded, CloseAudit, TypeOK, LockInv, ReaperInv, MainGoto,
         Holding, Serving
    <2>4. CASE Unlock(p)
      BY <2>4 DEF Unlock, TypeOK, LockInv, ReaperInv, MainGoto, Holding, Serving
    <2>5. CASE \/ ReaperTick(p) \/ ReaperPause(p) \/ ReaperStop(p)
               \/ Terminate(p) \/ ListenerFails(p) \/ DeadlinePasses(p)
      BY <2>5 DEF ReaperTick, ReaperPause, ReaperStop, Terminate, ListenerFails,
         DeadlinePasses, TypeOK, LockInv, ReaperInv, MainGoto, Holding, Serving
    <2> QED
      BY <1>1, <2>1, <2>2, <2>3, <2>4, <2>5, <2>6, <2>7, <2>8 DEF MainStep
  <1>2. ASSUME NEW p \in Process, DeathStep(p) PROVE LockInv' /\ ReaperInv'
    <2>1. PICK how \in Ended : Die(p, how)
      BY <1>2, DeathShape
    <2> QED
      BY <2>1 DEF Die, TypeOK, LockInv, ReaperInv, MainGoto, Holding, Serving, Ended
  <1>3. ASSUME NEW r \in Request, EnterStep(r) \/ InnerStep(r) \/ Leave(r)
        PROVE  LockInv' /\ ReaperInv'
    BY <1>3, HandlersKeepProcess DEF process, LockInv, ReaperInv
  <1>4. CASE UNCHANGED vars
    BY <1>4 DEF vars, process, LockInv, ReaperInv
  <1> QED
    BY <1>1, <1>2, <1>3, <1>4, StepKinds

LEMMA AuditStep ==
  ASSUME TypeOK, AuditInv, [Next]_vars
  PROVE  AuditInv'
  <1>1. ASSUME NEW p \in Process, MainStep(p) PROVE AuditInv'
    BY <1>1, MainKeepsRequests DEF request, AuditInv
  <1>2. ASSUME NEW p \in Process, DeathStep(p) PROVE AuditInv'
    <2>1. PICK how \in Ended : Die(p, how)
      BY <1>2, DeathShape
    <2> QED
      BY <2>1 DEF Die, AuditInv, TypeOK
  <1>3. ASSUME NEW r \in Request, EnterStep(r) PROVE AuditInv'
    BY <1>3 DEF EnterStep, TurnAway, Admit, StepTo, Answer, AuditInv, TypeOK, InGate
  <1>4. ASSUME NEW r \in Request, InnerStep(r) PROVE AuditInv'
    <2>1. CASE CheckReady(r)
      BY <2>1 DEF CheckReady, StepTo, Answer, AuditInv, TypeOK, InGate
    <2>2. CASE RequireAudit(r)
      BY <2>2 DEF RequireAudit, StepTo, Answer, AuditInv, TypeOK, InGate
    <2>3. CASE Work(r)
      BY <2>3 DEF Work, StepTo, Answer, AuditInv, TypeOK, InGate
    <2>4. CASE FinishMutation(r)
      BY <2>4 DEF FinishMutation, StepTo, Answer, AuditInv, TypeOK, InGate
    <2> QED
      BY <1>4, <2>1, <2>2, <2>3, <2>4 DEF InnerStep
  <1>5. ASSUME NEW r \in Request, Leave(r) PROVE AuditInv'
    BY <1>5 DEF Leave, StepTo, AuditInv, TypeOK, InGate
  <1>6. CASE UNCHANGED vars
    BY <1>6 DEF vars, request, AuditInv
  <1> QED
    BY <1>1, <1>2, <1>3, <1>4, <1>5, <1>6, StepKinds

-----------------------------------------------------------------------------
(* The gate *)

\* Where main goes from where, as far as the gate's invariants care.
LEMMA MainMoves ==
  ASSUME TypeOK, NEW p \in Process, MainStep(p), NEW q \in Process
  PROVE  /\ main'[q] \in Early => main[q] \in Early /\ (conns'[q] => conns[q])
         /\ main'[q] \in Ended => main[q] \in Early \cup Ended
         /\ main[q] \in Ended => main'[q] = main[q]
  <1>1. CASE Launch(p) \/ Prepare(p) \/ RecoverUploads(p)
    BY <1>1 DEF Launch, Prepare, RecoverUploads, TypeOK, MainGoto, Early, Ended
  <1>2. CASE ListenFails(p) \/ StartReaper(p) \/ Announce(p)
    BY <1>2 DEF ListenFails, StartReaper, Announce, TypeOK, MainGoto, Early, Ended
  <1>3. CASE BeginShutdown(p) \/ Note(p)
    BY <1>3 DEF BeginShutdown, Note, TypeOK, MainGoto, Early, Ended
  <1>6. CASE StopAdmission(p)
    BY <1>6 DEF StopAdmission, TypeOK, MainGoto, Early, Ended
  <1>4. CASE Drain(p) \/ DrainUnheeded(p) \/ CloseAudit(p) \/ Unlock(p)
    BY <1>4 DEF Drain, DrainUnheeded, CloseAudit, Unlock, TypeOK, MainGoto, Early, Ended
  <1>5. CASE \/ ReaperTick(p) \/ ReaperPause(p) \/ ReaperStop(p)
             \/ Terminate(p) \/ ListenerFails(p) \/ DeadlinePasses(p)
    BY <1>5 DEF ReaperTick, ReaperPause, ReaperStop, Terminate, ListenerFails,
       DeadlinePasses, TypeOK, MainGoto, Early, Ended
  <1> QED
    BY <1>1, <1>2, <1>3, <1>4, <1>5, <1>6 DEF MainStep

\* A handler enters a gate that is open, on a connection.
LEMMA EnterShape ==
  ASSUME TypeOK, NEW r \in Request, EnterStep(r)
  PROVE  \E p \in Process :
            /\ conns[p] /\ main[p] \notin Ended
            /\ UNCHANGED <<process, accepting, drained>>
            /\ \/ /\ accepting[p] /\ r \notin Inside(p)
                  /\ active' = [active EXCEPT ![p] = @ + 1]
                  /\ \A q \in Process :
                        Inside(q)' = IF q = p THEN Inside(q) \cup {r} ELSE Inside(q)
               \/ /\ UNCHANGED active
                  /\ \A q \in Process : Inside(q)' = Inside(q)
  <1>1. PICK p \in Process : TurnAway(r, p) \/ Admit(r, p)
    BY DEF EnterStep
  <1>2. CASE TurnAway(r, p)
    BY <1>2 DEF TurnAway, gate, StepTo, TypeOK, Inside, InGate
  <1>3. CASE Admit(r, p)
    <2>1. /\ conns[p] /\ main[p] \notin Ended
          /\ UNCHANGED <<process, accepting, drained>>
          /\ accepting[p] /\ active' = [active EXCEPT ![p] = @ + 1]
      BY <1>3 DEF Admit
    <2>2. r \notin Inside(p)
      BY <1>3 DEF Admit, Inside, InGate
    <2>3. \A q \in Process : Inside(q)' = IF q = p THEN Inside(q) \cup {r} ELSE Inside(q)
      BY <1>3 DEF Admit, StepTo, TypeOK, Inside, InGate
    <2> QED
      BY <2>1, <2>2, <2>3
  <1> QED
    BY <1>1, <1>2, <1>3

LEMMA InnerShape ==
  ASSUME TypeOK, NEW r \in Request, InnerStep(r)
  PROVE  /\ UNCHANGED <<process, gate, at>>
         /\ \A q \in Process : Inside(q)' = Inside(q)
  <1>1. UNCHANGED <<process, gate, at>>
    BY DEF InnerStep, CheckReady, RequireAudit, Work, FinishMutation
  <1>2. /\ step[r] \in InGate
        /\ \E s \in InGate : step' = [step EXCEPT ![r] = s]
    BY DEF InnerStep, CheckReady, RequireAudit, Work, FinishMutation, StepTo, InGate
  <1> QED
    BY <1>1, <1>2 DEF Inside, TypeOK

LEMMA LeaveShape ==
  ASSUME TypeOK, NEW r \in Request, Leave(r), NEW q \in Process
  PROVE  Inside(q)' = Inside(q) \ {r} /\ (r \in Inside(q) <=> at[r] = q)
  BY DEF Leave, StepTo, TypeOK, Inside, InGate

LEMMA DeathInside ==
  ASSUME TypeOK, NEW p \in Process, NEW how \in Ended, Die(p, how), NEW q \in Process
  PROVE  Inside(q)' = IF q = p THEN {} ELSE Inside(q)
  BY DEF Die, TypeOK, Inside, InGate

LEMMA MainInside ==
  ASSUME NEW p \in Process, MainStep(p), NEW q \in Process
  PROVE  Inside(q)' = Inside(q)
  BY MainKeepsRequests DEF request, Inside

LEMMA InsideIsFinite ==
  ASSUME NEW p \in Process
  PROVE  IsFiniteSet(Inside(p)) /\ Cardinality(Inside(p)) \in Nat
  BY RequestAssumption, FS_Subset, FS_CardinalityType DEF Inside

LEMMA EarlyStep ==
  ASSUME TypeOK, EarlyInv, [Next]_vars
  PROVE  EarlyInv'
  <1>1. ASSUME NEW p \in Process, MainStep(p) PROVE EarlyInv'
    BY <1>1, MainMoves, MainInside DEF EarlyInv
  <1>2. ASSUME NEW p \in Process, DeathStep(p) PROVE EarlyInv'
    <2>1. PICK how \in Ended : Die(p, how)
      BY <1>2, DeathShape
    <2>2. \A q \in Process : Inside(q)' = IF q = p THEN {} ELSE Inside(q)
      BY <2>1, DeathInside
    <2> QED
      BY <2>1, <2>2 DEF Die, MainGoto, EarlyInv, TypeOK, Early, Ended
  <1>3. ASSUME NEW r \in Request, EnterStep(r) PROVE EarlyInv'
    BY <1>3, EnterShape DEF EarlyInv, process
  <1>4. ASSUME NEW r \in Request, InnerStep(r) PROVE EarlyInv'
    BY <1>4, InnerShape DEF EarlyInv, process
  <1>5. ASSUME NEW r \in Request, Leave(r) PROVE EarlyInv'
    BY <1>5, LeaveShape, HandlersKeepProcess DEF EarlyInv, process
  <1>6. CASE UNCHANGED vars
    BY <1>6 DEF vars, process, request, EarlyInv, Inside
  <1> QED
    BY <1>1, <1>2, <1>3, <1>4, <1>5, <1>6, StepKinds

LEMMA CountStep ==
  ASSUME TypeOK, EarlyInv, CountInv, [Next]_vars
  PROVE  CountInv'
  <1>1. ASSUME NEW p \in Process, MainStep(p) PROVE CountInv'
    <2>1. \A q \in Process : main[q] \in Ended => main'[q] = main[q]
      BY <1>1, MainMoves
    <2>2. \A q \in Process : Inside(q)' = Inside(q)
      BY <1>1, MainInside
    <2> QED
      BY <1>1, <2>1, <2>2, MainKeepsRequests DEF CountInv
  <1>2. ASSUME NEW p \in Process, DeathStep(p) PROVE CountInv'
    <2>1. PICK how \in Ended : Die(p, how)
      BY <1>2, DeathShape
    <2>2. \A q \in Process : q # p => Inside(q)' = Inside(q)
      BY <2>1, DeathInside
    <2> QED
      BY <2>1, <2>2 DEF Die, MainGoto, gate, CountInv, TypeOK
  <1>3. ASSUME NEW r \in Request, EnterStep(r) PROVE CountInv'
    <2>1. PICK p \in Process :
            /\ conns[p] /\ main[p] \notin Ended
            /\ UNCHANGED <<process, accepting, drained>>
            /\ \/ /\ accepting[p] /\ r \notin Inside(p)
                  /\ active' = [active EXCEPT ![p] = @ + 1]
                  /\ \A q \in Process :
                        Inside(q)' = IF q = p THEN Inside(q) \cup {r} ELSE Inside(q)
               \/ /\ UNCHANGED active
                  /\ \A q \in Process : Inside(q)' = Inside(q)
      BY <1>3, EnterShape
    <2>2. r \notin Inside(p) => Cardinality(Inside(p) \cup {r}) = Cardinality(Inside(p)) + 1
      BY InsideIsFinite, FS_AddElement
    <2>3. main' = main
      BY <2>1 DEF process
    <2>4. ASSUME NEW q \in Process, main[q] \notin Ended
          PROVE  active'[q] = Cardinality(Inside(q)')
      <3>1. active[q] = Cardinality(Inside(q)) /\ active[q] \in Nat
        BY <2>4 DEF CountInv, TypeOK
      <3>2. CASE UNCHANGED active /\ \A q2 \in Process : Inside(q2)' = Inside(q2)
        BY <3>1, <3>2
      <3>3. CASE /\ accepting[p] /\ r \notin Inside(p)
                 /\ active' = [active EXCEPT ![p] = @ + 1]
                 /\ \A q2 \in Process :
                       Inside(q2)' = IF q2 = p THEN Inside(q2) \cup {r} ELSE Inside(q2)
        <4>1. CASE q = p
          <5>1. active'[p] = active[p] + 1
            BY <3>3 DEF TypeOK
          <5>2. Inside(p)' = Inside(p) \cup {r}
            BY <3>3
          <5> QED
            BY <2>2, <3>1, <3>3, <4>1, <5>1, <5>2
        <4>2. CASE q # p
          BY <3>1, <3>3, <4>2 DEF TypeOK
        <4> QED
          BY <4>1, <4>2
      <3> QED
        BY <2>1, <3>2, <3>3
    <2> QED
      BY <2>3, <2>4 DEF CountInv
  <1>4. ASSUME NEW r \in Request, InnerStep(r) PROVE CountInv'
    BY <1>4, InnerShape DEF CountInv, process, gate
  <1>5. ASSUME NEW r \in Request, Leave(r) PROVE CountInv'
    <2>1. ASSUME NEW q \in Process, main[q] \notin Ended
          PROVE  active'[q] = Cardinality(Inside(q)')
      <3>1. active[q] = Cardinality(Inside(q)) /\ active[q] \in Nat
        BY <2>1 DEF CountInv, TypeOK
      <3>2. CASE at[r] = q
        <4>1. active'[q] = active[q] - 1
          BY <1>5, <3>2 DEF Leave, TypeOK
        <4>2. r \in Inside(q) /\ Inside(q)' = Inside(q) \ {r}
          BY <1>5, <3>2, LeaveShape
        <4>3. Cardinality(Inside(q) \ {r}) = Cardinality(Inside(q)) - 1
          BY <4>2, InsideIsFinite, FS_RemoveElement
        <4> QED
          BY <3>1, <4>1, <4>2, <4>3
      <3>3. CASE at[r] # q
        <4>1. active'[q] = active[q]
          BY <1>5, <3>3 DEF Leave, TypeOK
        <4>2. Inside(q)' = Inside(q)
          BY <1>5, <3>3, LeaveShape
        <4> QED
          BY <3>1, <4>1, <4>2
      <3> QED
        BY <3>2, <3>3
    <2> QED
      BY <1>5, <2>1, HandlersKeepProcess DEF CountInv, process
  <1>6. CASE UNCHANGED vars
    BY <1>6 DEF vars, process, request, gate, CountInv, Inside
  <1> QED
    BY <1>1, <1>2, <1>3, <1>4, <1>5, <1>6, StepKinds

\* drained is closed when the gate is shut and the last handler has left it.
LEMMA DrainStep ==
  ASSUME TypeOK, EarlyInv, CountInv, DrainInv, [Next]_vars
  PROVE  DrainInv'
  <1>1. ASSUME NEW p \in Process, MainStep(p) PROVE DrainInv'
    <2>1. CASE StopAdmission(p)
      BY <2>1 DEF StopAdmission, CloseWhenDrained, DrainInv, TypeOK
    <2>2. CASE ~StopAdmission(p)
      <3>1. UNCHANGED gate
        BY <1>1, <2>2 DEF MainStep, Launch, Prepare, RecoverUploads, ListenFails, StartReaper,
           Announce, BeginShutdown, Note, Drain, DrainUnheeded, CloseAudit, Unlock,
           ReaperTick, ReaperPause, ReaperStop, Terminate, ListenerFails, DeadlinePasses
      <3> QED
        BY <3>1 DEF gate, DrainInv
    <2> QED
      BY <2>1, <2>2
  <1>2. ASSUME NEW p \in Process, DeathStep(p) PROVE DrainInv'
    <2>1. PICK how \in Ended : Die(p, how)
      BY <1>2, DeathShape
    <2> QED
      BY <2>1 DEF Die, gate, DrainInv
  <1>3. ASSUME NEW r \in Request, EnterStep(r) PROVE DrainInv'
    <2>1. PICK p \in Process : TurnAway(r, p) \/ Admit(r, p)
      BY <1>3 DEF EnterStep
    <2> QED
      BY <2>1 DEF TurnAway, Admit, gate, DrainInv, TypeOK
  <1>4. ASSUME NEW r \in Request, InnerStep(r) PROVE DrainInv'
    BY <1>4, InnerShape DEF DrainInv, gate
  <1>5. ASSUME NEW r \in Request, Leave(r) PROVE DrainInv'
    <2>1. CASE at[r] \notin Process
      BY <1>5, <2>1 DEF Leave, CloseWhenDrained, DrainInv, TypeOK
    <2>2. CASE at[r] \in Process
      <3>1. r \in Inside(at[r]) /\ main[at[r]] \notin Ended
        BY <1>5, <2>2, LeaveShape DEF EarlyInv
      <3>2. active[at[r]] # 0
        BY <2>2, <3>1, InsideIsFinite, FS_EmptySet DEF CountInv
      <3> QED
        BY <1>5, <2>2, <3>2 DEF Leave, CloseWhenDrained, DrainInv, TypeOK
    <2> QED
      BY <2>1, <2>2
  <1>6. CASE UNCHANGED vars
    BY <1>6 DEF vars, gate, DrainInv
  <1> QED
    BY <1>1, <1>2, <1>3, <1>4, <1>5, <1>6, StepKinds

\* A process whose listener works leaves "draining" for "closing" when its
\* gate is empty: the one step on which the counting matters.
LEMMA QuietStep ==
  ASSUME ~ListenerMayFail, TypeOK, EarlyInv, CountInv, DrainInv, QuietInv, [Next]_vars
  PROVE  QuietInv'
  <1>1. ASSUME NEW p \in Process, MainStep(p) PROVE QuietInv'
    <2>1. \A q \in Process : Inside(q)' = Inside(q)
      BY <1>1, MainInside
    <2>2. CASE Launch(p) \/ Prepare(p) \/ RecoverUploads(p) \/ StartReaper(p)
      BY <2>1, <2>2 DEF Launch, Prepare, RecoverUploads, StartReaper, QuietInv, TypeOK,
         MainGoto, Serving
    <2>3. CASE Announce(p)
      BY <2>1, <2>3 DEF Announce, QuietInv, TypeOK, MainGoto, Serving
    <2>4. CASE BeginShutdown(p)
      BY <2>1, <2>4 DEF BeginShutdown, QuietInv, TypeOK, MainGoto, Serving
    <2>5. CASE StopAdmission(p)
      BY <2>1, <2>5 DEF StopAdmission, QuietInv, TypeOK, MainGoto, Serving
    <2>6. CASE Note(p)
      BY <2>1, <2>6 DEF Note, QuietInv, TypeOK, MainGoto, Serving
    <2>7. CASE Drain(p)
      <3>1. Cardinality(Inside(p)) = 0
        BY <2>7 DEF Drain, DrainInv, CountInv, Ended
      <3>2. Inside(p) = {}
        BY <3>1, InsideIsFinite, FS_EmptySet
      <3> QED
        BY <2>1, <2>7, <3>2 DEF Drain, QuietInv, TypeOK, MainGoto, Serving
    <2>8. CASE CloseAudit(p) \/ Unlock(p)
      BY <2>1, <2>8 DEF CloseAudit, Unlock, QuietInv, TypeOK, MainGoto, Serving
    <2>9. CASE \/ ReaperTick(p) \/ ReaperPause(p) \/ ReaperStop(p)
               \/ Terminate(p) \/ DeadlinePasses(p)
      BY <2>1, <2>9 DEF ReaperTick, ReaperPause, ReaperStop, Terminate, DeadlinePasses, QuietInv
    <2> QED
      BY <1>1, <2>2, <2>3, <2>4, <2>5, <2>6, <2>7, <2>8, <2>9
      DEF MainStep, ListenFails, DrainUnheeded, ListenerFails
  <1>2. ASSUME NEW p \in Process, DeathStep(p) PROVE QuietInv'
    <2>1. PICK how \in Ended : Die(p, how)
      BY <1>2, DeathShape
    <2>2. \A q \in Process : Inside(q)' = IF q = p THEN {} ELSE Inside(q)
      BY <2>1, DeathInside
    <2> QED
      BY <2>1, <2>2 DEF Die, MainGoto, QuietInv, TypeOK
  <1>3. ASSUME NEW r \in Request, EnterStep(r) PROVE QuietInv'
    BY <1>3, EnterShape DEF QuietInv, process
  <1>4. ASSUME NEW r \in Request, InnerStep(r) PROVE QuietInv'
    BY <1>4, InnerShape DEF QuietInv, process
  <1>5. ASSUME NEW r \in Request, Leave(r) PROVE QuietInv'
    BY <1>5, LeaveShape, HandlersKeepProcess DEF QuietInv, process
  <1>6. CASE UNCHANGED vars
    BY <1>6 DEF vars, process, request, QuietInv, Inside
  <1> QED
    BY <1>1, <1>2, <1>3, <1>4, <1>5, <1>6, StepKinds

\* A process that exits in order has nobody inside.
LEMMA KilledStep ==
  ASSUME TypeOK, EarlyInv, QuietInv, KilledInv, [Next]_vars
  PROVE  KilledInv'
  <1>1. ASSUME NEW p \in Process, MainStep(p) PROVE KilledInv'
    BY <1>1, MainMoves, MainKeepsRequests DEF request, KilledInv, Ended
  <1>2. ASSUME NEW p \in Process, DeathStep(p) PROVE KilledInv'
    <2>1. CASE ForceExit(p) \/ Crash(p)
      BY <2>1 DEF ForceExit, Crash, Die, MainGoto, KilledInv, TypeOK, Inside
    <2>2. CASE Exit(p)
      <3>1. Inside(p) = {}
        BY <2>2 DEF Exit, QuietInv, Serving
      <3> QED
        BY <2>2, <3>1 DEF Exit, Die, MainGoto, KilledInv, TypeOK
    <2> QED
      BY <1>2, <2>1, <2>2 DEF DeathStep
  <1>3. ASSUME NEW r \in Request, EnterStep(r) PROVE KilledInv'
    BY <1>3 DEF EnterStep, TurnAway, Admit, StepTo, process, KilledInv, TypeOK
  <1>4. ASSUME NEW r \in Request, InnerStep(r) PROVE KilledInv'
    <2>1. step'[r] # "killed" /\ \A x \in Request : x # r => step'[x] = step[x]
      BY <1>4 DEF InnerStep, CheckReady, RequireAudit, Work, FinishMutation, StepTo, TypeOK
    <2> QED
      BY <1>4, <2>1, InnerShape DEF process, KilledInv
  <1>5. ASSUME NEW r \in Request, Leave(r) PROVE KilledInv'
    BY <1>5 DEF Leave, StepTo, process, KilledInv, TypeOK
  <1>6. CASE UNCHANGED vars
    BY <1>6 DEF vars, process, request, KilledInv
  <1> QED
    BY <1>1, <1>2, <1>3, <1>4, <1>5, <1>6, StepKinds

-----------------------------------------------------------------------------
(* Types *)

AuditType == audit \in [Process -> {"shut", "open", "broken"}] /\ ready \in [Process -> BOOLEAN]

LEMMA RecordTypes ==
  ASSUME AuditType, NEW p, Recorded(p) \/ RecordFails(p)
  PROVE  AuditType'
  <1>1. CASE Recorded(p)
    BY <1>1 DEF Recorded, AuditType
  <1>2. CASE RecordFails(p)
    <2>1. ready' \in [Process -> BOOLEAN]
      BY <1>2 DEF RecordFails, AuditType
    <2>2. audit' = [audit EXCEPT ![p] = IF audit[p] = "open" THEN "broken" ELSE audit[p]]
      BY <1>2 DEF RecordFails
    <2>3. \A q \in Process : audit'[q] \in {"shut", "open", "broken"}
      BY <2>2 DEF AuditType
    <2> QED
      BY <2>1, <2>2, <2>3 DEF AuditType
  <1> QED
    BY <1>1, <1>2

LEMMA TypeStep ==
  ASSUME TypeOK, EarlyInv, CountInv, [Next]_vars
  PROVE  TypeOK'
  <1>0. ASSUME NEW p, Recorded(p) \/ RecordFails(p) PROVE AuditType'
    BY <1>0, RecordTypes DEF AuditType, TypeOK
  <1>1. ASSUME NEW p \in Process, MainStep(p) PROVE TypeOK'
    <2>1. CASE Launch(p)
      <3>1. /\ lock' \in Process \cup {None}
            /\ main' \in [Process -> Ended \cup {"new", "clearing", "recovering", "starting",
                    "announcing", "serving", "stopping", "noting", "draining", "closing",
                    "unlocking", "leaving"}]
        BY <2>1 DEF Launch, MainGoto, TypeOK, Ended
      <3>2. /\ audit' \in [Process -> {"shut", "open", "broken"}]
            /\ ready' \in [Process -> BOOLEAN]
        BY <2>1 DEF Launch, TypeOK
      <3> QED
        BY <2>1, <3>1, <3>2 DEF Launch, TypeOK, gate, request
    <2>11. CASE RecoverUploads(p)
      BY <2>11 DEF RecoverUploads, MainGoto, TypeOK, Ended, gate, request
    <2>12. CASE ListenFails(p)
      BY <2>12 DEF ListenFails, MainGoto, TypeOK, Ended, gate, request
    <2>7. CASE Prepare(p)
      BY <2>7 DEF Prepare, MainGoto, TypeOK, gate, request
    <2>10. CASE StartReaper(p)
      BY <2>10 DEF StartReaper, MainGoto, TypeOK, gate, request
    <2>2. CASE Announce(p)
      BY <1>0, <2>2, ZenonT(40) DEF Announce, MainGoto, TypeOK, AuditType, gate, request
    <2>3. CASE BeginShutdown(p)
      BY <2>3 DEF BeginShutdown, MainGoto, TypeOK, gate, request
    <2>8. CASE StopAdmission(p)
      <3>1. drained' \in [Process -> BOOLEAN]
        BY <2>8 DEF StopAdmission, CloseWhenDrained, TypeOK
      <3> QED
        BY <2>8, <3>1 DEF StopAdmission, MainGoto, TypeOK, request
    <2>4. CASE Note(p) \/ Drain(p)
      BY <1>0, <2>4, ZenonT(40) DEF Note, Drain, MainGoto, TypeOK, AuditType, gate, request
    <2>5. CASE DrainUnheeded(p)
      BY <2>5 DEF DrainUnheeded, MainGoto, TypeOK, gate, request
    <2>13. CASE CloseAudit(p)
      BY <2>13 DEF CloseAudit, MainGoto, TypeOK, gate, request
    <2>14. CASE Unlock(p)
      BY <2>14 DEF Unlock, MainGoto, TypeOK, gate, request
    <2>6. CASE ReaperTick(p) \/ ReaperPause(p) \/ ReaperStop(p)
      BY <2>6 DEF ReaperTick, ReaperPause, ReaperStop, TypeOK, gate, request
    <2>9. CASE Terminate(p) \/ ListenerFails(p) \/ DeadlinePasses(p)
      BY <2>9, ZenonT(40) DEF Terminate, ListenerFails, DeadlinePasses, MainGoto, TypeOK, gate, request
    <2> QED
      BY <1>1, <2>1, <2>2, <2>3, <2>4, <2>5, <2>6, <2>7, <2>8, <2>9, <2>10, <2>11, <2>12, <2>13, <2>14
      DEF MainStep
  <1>2. ASSUME NEW p \in Process, DeathStep(p) PROVE TypeOK'
    <2>1. PICK how \in Ended : Die(p, how)
      BY <1>2, DeathShape
    <2> QED
      BY <2>1 DEF Die, MainGoto, TypeOK, gate
  <1>3. ASSUME NEW r \in Request, EnterStep(r) PROVE TypeOK'
    BY <1>3 DEF EnterStep, TurnAway, Admit, StepTo, Answer, TypeOK, InGate, process, gate
  <1>4. ASSUME NEW r \in Request, InnerStep(r) PROVE TypeOK'
    <2>1. AuditType'
      <3>1. UNCHANGED <<audit, ready>> \/ Recorded(at[r]) \/ RecordFails(at[r])
        BY <1>4 DEF InnerStep, CheckReady, RequireAudit, Work, FinishMutation
      <3> QED
        BY <1>0, <3>1 DEF AuditType, TypeOK
    <2>2. CASE CheckReady(r)
      BY <2>2 DEF CheckReady, StepTo, Answer, TypeOK, InGate, process, gate
    <2>3. CASE RequireAudit(r)
      BY <2>1, <2>3 DEF RequireAudit, StepTo, Answer, TypeOK, AuditType, InGate, process, gate
    <2>4. CASE Work(r)
      <3>1. effect' \in [Request -> BOOLEAN]
        BY <2>4 DEF Work, TypeOK
      <3>2. /\ step' \in [Request -> InGate \cup {"unsent", "done", "killed"}]
            /\ reply' \in [Request -> {"none", "ok", "error", "unavailable", "shutting_down"}]
        BY <2>4 DEF Work, StepTo, Answer, TypeOK, InGate
      <3> QED
        BY <2>1, <2>4, <3>1, <3>2 DEF Work, TypeOK, AuditType, process, gate
    <2>5. CASE FinishMutation(r)
      BY <2>1, <2>5 DEF FinishMutation, StepTo, Answer, TypeOK, AuditType, InGate, process, gate
    <2> QED
      BY <1>4, <2>2, <2>3, <2>4, <2>5 DEF InnerStep
  <1>5. ASSUME NEW r \in Request, Leave(r) PROVE TypeOK'
    <2>1. active' \in [Process -> Nat]
      <3>1. CASE at[r] \in Process
        <4>1. r \in Inside(at[r]) /\ main[at[r]] \notin Ended
          BY <1>5, <3>1, LeaveShape DEF EarlyInv
        <4>2. active[at[r]] # 0
          BY <3>1, <4>1, InsideIsFinite, FS_EmptySet DEF CountInv
        <4> QED
          BY <1>5, <3>1, <4>2, SMTT(30) DEF Leave, TypeOK
      <3>2. CASE at[r] \notin Process
        BY <1>5, <3>2 DEF Leave, TypeOK
      <3> QED
        BY <3>1, <3>2
    <2> QED
      BY <1>5, <2>1 DEF Leave, CloseWhenDrained, StepTo, TypeOK, InGate, process
  <1>6. CASE UNCHANGED vars
    BY <1>6 DEF vars, process, request, gate, TypeOK
  <1> QED
    BY <1>1, <1>2, <1>3, <1>4, <1>5, <1>6, StepKinds

-----------------------------------------------------------------------------
(* Theorems *)

IInv == TypeOK /\ LockInv /\ ReaperInv /\ EarlyInv /\ CountInv /\ DrainInv /\ AuditInv

LEMMA SpecIInv == Spec => []IInv
  <1>1. Init => IInv
    BY InitType, InitCount, InitRest DEF IInv
  <1>2. IInv /\ [Next]_vars => IInv'
    BY TypeStep, LockStep, EarlyStep, CountStep, DrainStep, AuditStep DEF IInv
  <1> QED
    BY <1>1, <1>2, PTL DEF Spec

\* Every variable keeps to its type; in particular the count of the gate never
\* drops below zero.
THEOREM TypeCorrect == Spec => []TypeOK
  <1>1. IInv => TypeOK
    BY DEF IInv
  <1> QED
    BY <1>1, SpecIInv, PTL

\* The channel drained is closed only once the gate is shut and empty, and it
\* stays so (requestGate.closeWhenDrainedLocked).
THEOREM DrainedStands == Spec => []DrainedIsFinal
  <1>1. IInv => DrainedIsFinal
    <2>1. ASSUME IInv, NEW p \in Process, drained[p] PROVE ~accepting[p] /\ Inside(p) = {}
      <3>1. CASE main[p] \in Ended
        BY <2>1, <3>1 DEF IInv, DrainInv, EarlyInv
      <3>2. CASE main[p] \notin Ended
        BY <2>1, <3>2, InsideIsFinite, FS_EmptySet DEF IInv, DrainInv, CountInv
      <3> QED
        BY <3>1, <3>2
    <2> QED
      BY <2>1 DEF DrainedIsFinal
  <1> QED
    BY <1>1, SpecIInv, PTL

\* No audited mutation takes effect unannounced, and none is reported a success
\* before it is recorded as one (requireAudit, finishMutation).
THEOREM AuditStands == Spec => []EffectsAreAudited
  <1>1. IInv => EffectsAreAudited
    BY DEF IInv, AuditInv, EffectsAreAudited
  <1> QED
    BY <1>1, SpecIInv, PTL

LEMMA SpecQuiet == ASSUME ~ListenerMayFail PROVE Spec => [](IInv /\ QuietInv /\ KilledInv)
  <1>1. Init => QuietInv /\ KilledInv
    BY InitRest
  <1>2. IInv /\ QuietInv /\ KilledInv /\ [Next]_vars => QuietInv' /\ KilledInv'
    BY QuietStep, KilledStep DEF IInv
  <1> QED
    BY <1>1, <1>2, SpecIInv, PTL DEF Spec

\* As long as accepting connections works, an admitted handler runs under the
\* lock and with the state open until it returns (request_gate.go:9-10).
THEOREM HandlersKeepState ==
  ASSUME ~ListenerMayFail PROVE Spec => []AdmittedHandlersKeepState
  <1>1. IInv /\ QuietInv => AdmittedHandlersKeepState
    BY DEF IInv, LockInv, QuietInv, AdmittedHandlersKeepState, Serving, Holding
  <1> QED
    BY <1>1, SpecQuiet, PTL

\* Under the same assumption two processes never use the state directory at
\* once, but for the last pass of a reaper nobody waits for.
THEOREM DirectoryHasOneUser ==
  ASSUME ~ListenerMayFail PROVE Spec => []StateIsExclusive
  <1>1. ASSUME IInv, QuietInv, NEW p \in Process, Using(p)
        PROVE  \/ lock = p
               \/ main[p] = "leaving" /\ Inside(p) = {} /\ reaper[p] = "reaping"
    BY <1>1 DEF IInv, LockInv, ReaperInv, QuietInv, Using, Serving, Holding
  <1>2. IInv /\ QuietInv => StateIsExclusive
    BY <1>1 DEF StateIsExclusive
  <1> QED
    BY <1>2, SpecQuiet, PTL

\* Under the same assumption only a crash or the shutdown deadline cuts an
\* admitted handler short.
THEOREM NobodyIsKilled ==
  ASSUME ~ListenerMayFail PROVE Spec => []OrderlyExitKillsNobody
  <1>1. KilledInv => OrderlyExitKillsNobody
    BY DEF KilledInv, OrderlyExitKillsNobody
  <1> QED
    BY <1>1, SpecQuiet, PTL

-----------------------------------------------------------------------------
(* The last handler out wakes the shutdown *)

\* The gate is shut when the main goroutine comes to wait for it, and it does
\* not stand shut and empty without drained being closed.
ShutInv ==
    \A p \in Process : /\ main[p] \in {"noting", "draining"} => ~accepting[p]
                       /\ ~accepting[p] /\ active[p] = 0 => drained[p]

\* The shutdown that waits on drained is woken exactly when nobody is inside.
DrainIsSignalled ==
    \A p \in Process : main[p] = "draining" => (drained[p] <=> Inside(p) = {})

LEMMA ShutStep ==
  ASSUME TypeOK, ShutInv, [Next]_vars
  PROVE  ShutInv'
  <1>1. ASSUME NEW p \in Process, MainStep(p) PROVE ShutInv'
    <2>1. CASE StopAdmission(p)
      BY <2>1 DEF StopAdmission, CloseWhenDrained, MainGoto, ShutInv, TypeOK
    <2>2. CASE Note(p)
      BY <2>2 DEF Note, MainGoto, ShutInv, gate, TypeOK
    <2>3. CASE Launch(p) \/ Prepare(p) \/ RecoverUploads(p) \/ ListenFails(p) \/ StartReaper(p)
      BY <2>3 DEF Launch, Prepare, RecoverUploads, ListenFails, StartReaper, MainGoto, ShutInv, gate, TypeOK
    <2>4. CASE Announce(p) \/ BeginShutdown(p) \/ Drain(p) \/ DrainUnheeded(p) \/ CloseAudit(p) \/ Unlock(p)
      BY <2>4 DEF Announce, BeginShutdown, Drain, DrainUnheeded, CloseAudit, Unlock, MainGoto, ShutInv, gate, TypeOK
    <2>5. CASE \/ ReaperTick(p) \/ ReaperPause(p) \/ ReaperStop(p) \/ Terminate(p)
               \/ ListenerFails(p) \/ DeadlinePasses(p)
      BY <2>5 DEF ReaperTick, ReaperPause, ReaperStop, Terminate, ListenerFails, DeadlinePasses,
         MainGoto, ShutInv, gate, TypeOK
    <2> QED
      BY <1>1, <2>1, <2>2, <2>3, <2>4, <2>5 DEF MainStep
  <1>2. ASSUME NEW p \in Process, DeathStep(p) PROVE ShutInv'
    <2>1. PICK how \in Ended : Die(p, how)
      BY <1>2, DeathShape
    <2> QED
      BY <2>1 DEF Die, MainGoto, gate, ShutInv, TypeOK, Ended
  <1>3. ASSUME NEW r \in Request, EnterStep(r) PROVE ShutInv'
    <2>1. PICK p \in Process : TurnAway(r, p) \/ Admit(r, p)
      BY <1>3 DEF EnterStep
    <2>2. CASE TurnAway(r, p)
      BY <2>2 DEF TurnAway, process, gate, ShutInv
    <2>3. CASE Admit(r, p)
      BY <2>3 DEF Admit, process, ShutInv, TypeOK
    <2> QED
      BY <2>1, <2>2, <2>3
  <1>4. ASSUME NEW r \in Request, InnerStep(r) PROVE ShutInv'
    BY <1>4, InnerShape DEF ShutInv, gate, process
  <1>5. ASSUME NEW r \in Request, Leave(r) PROVE ShutInv'
    BY <1>5 DEF Leave, CloseWhenDrained, process, ShutInv, TypeOK
  <1>6. CASE UNCHANGED vars
    BY <1>6 DEF vars, process, gate, ShutInv
  <1> QED
    BY <1>1, <1>2, <1>3, <1>4, <1>5, <1>6, StepKinds

\* Whatever the order of the shutdown and of the handlers that leave, and even
\* when the listener fails, no wake-up is lost: a shutdown that waits for the
\* gate finds drained closed once the gate is empty and not before
\* (requestGate.StopAdmission, closeWhenDrainedLocked and WaitForDrain).
THEOREM DrainIsNoticed == Spec => []DrainIsSignalled
  <1>1. Init => ShutInv
    BY DEF Init, ShutInv
  <1>2. IInv /\ ShutInv /\ [Next]_vars => ShutInv'
    BY ShutStep DEF IInv
  <1>3. ASSUME IInv, ShutInv PROVE DrainIsSignalled
    <2>1. ASSUME NEW p \in Process, main[p] = "draining" PROVE drained[p] <=> Inside(p) = {}
      <3>1. active[p] = Cardinality(Inside(p))
        BY <1>3, <2>1 DEF IInv, CountInv, Ended
      <3>2. active[p] = 0 <=> Inside(p) = {}
        BY <3>1, InsideIsFinite, FS_EmptySet
      <3>3. drained[p] => active[p] = 0
        BY <1>3 DEF IInv, DrainInv
      <3>4. active[p] = 0 => drained[p]
        BY <1>3, <2>1 DEF ShutInv
      <3> QED
        BY <3>2, <3>3, <3>4
    <2> QED
      BY <2>1 DEF DrainIsSignalled
  <1> QED
    BY <1>1, <1>2, <1>3, SpecIInv, PTL DEF Spec
=============================================================================
