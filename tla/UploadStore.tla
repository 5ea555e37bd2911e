----------------------------- MODULE UploadStore -----------------------------
(***************************************************************************)
(* Reliable uploads as goroutines that share locks (upload_store.go): the  *)
(* reaper's mutex reapMu, the striped locks of the transfers, the slots    *)
(* for part bodies, and the quota Create enforces by reading the manifests *)
(* of the others while they change.  What a handler writes, and what a     *)
(* failing disk or a crash makes of it, is the subject of UploadTransfer;  *)
(* here a call that fails has changed nothing or what Complete leaves.     *)
(***************************************************************************)
EXTENDS Naturals, FiniteSets

CONSTANTS
    Client,             \* goroutines that serve requests
    Reaper,             \* the goroutine that serves the ticker
    Transfer,           \* transfer identifiers
    Stripe,             \* the locks
    LockFor,            \* LockFor[u]: the lock of transfer u
    Size,               \* Size[u]: the bytes transfer u reserves
    MaxActive,
    MaxPendingBytes,
    MaxConcurrentParts,
    None

ASSUME TransferAssumption == IsFiniteSet(Transfer) /\ None \notin Transfer
ASSUME LockAssumption == LockFor \in [Transfer -> Stripe]
ASSUME SizeAssumption == Size \in [Transfer -> Nat]
ASSUME LimitAssumption == MaxActive \in Nat /\ MaxPendingBytes \in Nat /\ MaxConcurrentParts \in Nat

Goroutine == Client \cup {Reaper}
ASSUME GoroutineAssumption == IsFiniteSet(Client) /\ Reaper \notin Client /\ None \notin Goroutine

VARIABLES
    reapMu,     \* the goroutine that holds the mutex, or None
    locks,      \* locks[s]: the goroutine that holds stripe s, or None
    partSlots,  \* part bodies being received
    state,      \* state[u]: of the saved manifest; "making" before the first save
    stale,      \* stale[u]: the clock has passed ExpiresAt
    due,        \* expired at the time the current scan has sampled
    entries,    \* directory entries the holder of reapMu has still to read
    counted,    \* unfinished transfers it has found
    pc,         \* pc[g]: the next step of goroutine g
    op,         \* op[g]: the call it serves
    on          \* on[g]: the transfer it works on

mutexes == <<reapMu, locks>>
disk == <<state, stale>>
scan == <<due, entries, counted>>
local == <<pc, op, on>>
vars == <<mutexes, partSlots, disk, scan, local>>

Calls == {"create", "write", "complete", "cancel"}
Unfinished(u) == state[u] \in {"active", "finalizing"}
Present == {u \in Transfer : state[u] # "none"}

Init ==
    /\ reapMu = None
    /\ locks = [s \in Stripe |-> None]
    /\ partSlots = 0
    /\ state = [u \in Transfer |-> "none"]
    /\ stale = [u \in Transfer |-> FALSE]
    /\ due = {}
    /\ entries = {}
    /\ counted = {}
    /\ pc = [g \in Goroutine |-> "idle"]
    /\ op = [g \in Goroutine |-> "none"]
    /\ on = [g \in Goroutine |-> None]

Goto(g, s) == pc' = [pc EXCEPT ![g] = s] /\ UNCHANGED <<op, on>>

Free(u) == locks[LockFor[u]] = None
Lock(g, u) == locks' = [locks EXCEPT ![LockFor[u]] = g]
Unlock(u) == locks' = [locks EXCEPT ![LockFor[u]] = None]

\* The call returns; its deferred unlocks run.
Return(g) ==
    /\ pc' = [pc EXCEPT ![g] = "idle"]
    /\ op' = [op EXCEPT ![g] = "none"]
    /\ on' = [on EXCEPT ![g] = None]
    /\ locks' = [s \in Stripe |-> IF locks[s] = g THEN None ELSE locks[s]]
    /\ reapMu' = IF reapMu = g THEN None ELSE reapMu

\* Seeded fault: the reaper compares the ExpiresAt it has read before it
\* waited for the transfer's lock.
Renew_Late(u) == stale' = [stale EXCEPT ![u] = FALSE] /\ UNCHANGED <<due, entries, counted>>

\* A save that moves ExpiresAt on; a scan under way compares it with the time
\* it has sampled.
Renew(u) ==
    /\ stale' = [stale EXCEPT ![u] = FALSE]
    /\ due' = due \ {u}
    /\ UNCHANGED <<entries, counted>>

SetState(u, s) == state' = [state EXCEPT ![u] = s]

-----------------------------------------------------------------------------
(* A request or a tick *)

Call(c, call, u) ==
    /\ pc[c] = "idle"
    /\ pc' = [pc EXCEPT ![c] = IF call = "create" THEN "queueing" ELSE "waiting"]
    /\ op' = [op EXCEPT ![c] = call]
    /\ on' = [on EXCEPT ![c] = u]
    /\ UNCHANGED <<mutexes, partSlots, disk, scan>>

Tick ==
    /\ pc[Reaper] = "idle"
    /\ pc' = [pc EXCEPT ![Reaper] = "queueing"]
    /\ op' = [op EXCEPT ![Reaper] = "reap"]
    /\ UNCHANGED <<mutexes, partSlots, disk, scan, on>>

-----------------------------------------------------------------------------
(* reapExpiredLocked, in ReapExpired and at the beginning of Create *)

\* Seeded fault: Create does not look for expired transfers.
LockReap_Unswept(g) ==
    /\ pc[g] = "queueing" /\ reapMu = None
    /\ reapMu' = g
    /\ due' = {u \in Transfer : stale[u]}
    /\ entries' = {} /\ counted' = {}
    /\ Goto(g, "scanning")
    /\ UNCHANGED <<locks, partSlots, disk>>

\* Take reapMu, sample the clock and list the directory.
LockReap(g) ==
    /\ pc[g] = "queueing" /\ reapMu = None
    /\ reapMu' = g
    /\ due' = {u \in Transfer : stale[u]}
    /\ entries' = Present /\ counted' = {}
    /\ Goto(g, "scanning")
    /\ UNCHANGED <<locks, partSlots, disk>>

\* Seeded fault: the lock of a transfer that has not expired is kept.
VisitEntry_Holding(g, u) ==
    /\ pc[g] = "scanning" /\ u \in entries /\ Free(u)
    /\ IF u \in due THEN SetState(u, "none") /\ UNCHANGED locks
                    ELSE Lock(g, u) /\ UNCHANGED state
    /\ stale' = [stale EXCEPT ![u] = @ /\ u \notin due]
    /\ entries' = entries \ {u} /\ due' = due \ {u}
    /\ UNCHANGED <<reapMu, partSlots, counted, local>>

\* Under the lock of the next entry: load its manifest, remove it if it has
\* expired.
VisitEntry(g, u) ==
    /\ pc[g] = "scanning" /\ u \in entries /\ Free(u)
    /\ state' = IF u \in due THEN [state EXCEPT ![u] = "none"] ELSE state
    /\ stale' = [stale EXCEPT ![u] = @ /\ u \notin due]
    /\ entries' = entries \ {u} /\ due' = due \ {u}
    /\ UNCHANGED <<mutexes, partSlots, counted, local>>

ReapDone ==
    /\ pc[Reaper] = "scanning" /\ entries = {}
    /\ Return(Reaper)
    /\ UNCHANGED <<partSlots, disk, scan>>

-----------------------------------------------------------------------------
(* Create, still under reapMu *)

\* Seeded fault: reapMu protects the scan only.
LockOwn_Unserialized(c) ==
    /\ pc[c] = "scanning" /\ c # Reaper /\ entries = {}
    /\ Free(on[c])
    /\ reapMu' = None
    /\ \/ /\ state[on[c]] = "none"
          /\ Lock(c, on[c])
          /\ entries' = Present
          /\ Goto(c, "counting")
       \/ /\ state[on[c]] # "none"
          /\ Goto(c, "answering")
          /\ UNCHANGED <<locks, entries>>
    /\ UNCHANGED <<partSlots, disk, due, counted>>

\* Take the transfer's lock; an identifier in use is answered from its manifest.
LockOwn(c) ==
    /\ pc[c] = "scanning" /\ c # Reaper /\ entries = {}
    /\ Free(on[c])
    /\ Lock(c, on[c])
    /\ IF state[on[c]] = "none"
       THEN entries' = Present /\ Goto(c, "counting")
       ELSE UNCHANGED entries /\ Goto(c, "answering")
    /\ UNCHANGED <<reapMu, partSlots, disk, due, counted>>

\* reservationsLocked: read one manifest, without its lock.
Count(c, u) ==
    /\ pc[c] = "counting" /\ u \in entries
    /\ counted' = IF Unfinished(u) THEN counted \cup {u} ELSE counted
    /\ entries' = entries \ {u}
    /\ UNCHANGED <<mutexes, partSlots, disk, due, local>>

\* The bytes the transfers of S reserve; there are as many as their sizes sum to.
Bytes(S) == {b \in S \X UNION {1..Size[u] : u \in S} : b[2] <= Size[b[1]]}

\* Seeded fault: the request's own size is left out.
WithinLimits_Others(S, u) ==
    Cardinality(S) < MaxActive /\ Cardinality(Bytes(S)) <= MaxPendingBytes

WithinLimits(S, u) ==
    /\ Cardinality(S) < MaxActive
    /\ Cardinality(Bytes(S)) + Size[u] <= MaxPendingBytes

\* Seeded fault: reapMu is released before the manifest exists.
Admit_Early(c) ==
    /\ pc[c] = "counting" /\ entries = {}
    /\ WithinLimits(counted, on[c])
    /\ SetState(on[c], "making")
    /\ reapMu' = None /\ counted' = {}
    /\ Goto(c, "saving")
    /\ UNCHANGED <<locks, partSlots, stale, due, entries>>

Admit(c) ==
    /\ pc[c] = "counting" /\ entries = {}
    /\ WithinLimits(counted, on[c])
    /\ SetState(on[c], "making")
    /\ counted' = {}
    /\ Goto(c, "saving")
    /\ UNCHANGED <<mutexes, partSlots, stale, due, entries>>

\* upload_busy
Refuse(c) ==
    /\ pc[c] = "counting" /\ entries = {}
    /\ ~WithinLimits(counted, on[c])
    /\ counted' = {}
    /\ Return(c)
    /\ UNCHANGED <<partSlots, disk, due, entries>>

\* The first manifest is saved, or the directory removed again.
SaveNew(c) ==
    /\ pc[c] = "saving"
    /\ state' = [state EXCEPT ![on[c]] = "active"] \/ state' = [state EXCEPT ![on[c]] = "none"]
    /\ Return(c)
    /\ UNCHANGED <<partSlots, stale, scan>>

\* Too little free space, or an error of the disk.
GiveUp(c) ==
    /\ pc[c] = "counting" /\ entries = {}
    /\ counted' = {}
    /\ Return(c)
    /\ UNCHANGED <<partSlots, disk, due, entries>>

\* The answer is known: unlock.
Answer(c) ==
    /\ pc[c] = "answering"
    /\ Return(c)
    /\ UNCHANGED <<partSlots, disk, scan>>

-----------------------------------------------------------------------------
(* WritePart, Complete, Cancel *)

\* authorizedManifest: wait for the transfer's lock and load the manifest.
\* No transfer, an expired one or one in another state ends the call.
LockTransfer(c) ==
    /\ pc[c] = "waiting" /\ Free(on[c])
    /\ Lock(c, on[c])
    /\ IF Unfinished(on[c]) /\ ~stale[on[c]]
       THEN Goto(c, "ready") ELSE Goto(c, "answering")
    /\ UNCHANGED <<reapMu, partSlots, disk, scan>>

\* A slot is taken or upload_busy answered; a repeated part needs none.
TakeSlot(c) ==
    /\ pc[c] = "ready" /\ op[c] = "write"
    /\ IF state[on[c]] = "active" /\ partSlots < MaxConcurrentParts
       THEN partSlots' = partSlots + 1 /\ Goto(c, "writing")
       ELSE UNCHANGED partSlots /\ Goto(c, "answering")
    /\ UNCHANGED <<mutexes, disk, scan>>

\* Seeded fault: the slot is given back on success only.
EndWrite_Leaking(c) ==
    /\ pc[c] = "writing"
    /\ \/ Renew(on[c]) /\ partSlots' = partSlots - 1
       \/ UNCHANGED <<stale, scan, partSlots>>
    /\ Return(c)
    /\ UNCHANGED state

\* The part is recorded, or the body was bad or late; the slot is given back.
EndWrite(c) ==
    /\ pc[c] = "writing"
    /\ Renew(on[c]) \/ UNCHANGED <<stale, scan>>
    /\ partSlots' = partSlots - 1
    /\ Return(c)
    /\ UNCHANGED state

\* Complete and Cancel save more than once; each save renews the transfer.
Publish(c) ==
    /\ pc[c] = "ready" /\ op[c] = "complete"
    /\ SetState(on[c], "finalizing") /\ Renew(on[c])
    /\ Goto(c, "publishing")
    /\ UNCHANGED <<mutexes, partSlots>>

\* Published, given up, or left finalizing.
EndPublish(c) ==
    /\ pc[c] = "publishing"
    /\ \/ \E s \in {"completed", "active"} : SetState(on[c], s) /\ Renew(on[c])
       \/ UNCHANGED <<disk, scan>>
    /\ Return(c)
    /\ UNCHANGED partSlots

\* A transfer found finalizing may turn out to be published.
Cancel(c) ==
    /\ pc[c] = "ready" /\ op[c] = "cancel"
    /\ \/ SetState(on[c], "cancelled") /\ Renew(on[c])
       \/ state[on[c]] = "finalizing" /\ SetState(on[c], "completed") /\ Renew(on[c])
       \/ UNCHANGED <<disk, scan>>
    /\ Return(c)
    /\ UNCHANGED partSlots

-----------------------------------------------------------------------------

Expire(u) ==
    /\ state[u] \notin {"none", "making"} /\ ~stale[u]
    /\ stale' = [stale EXCEPT ![u] = TRUE]
    /\ UNCHANGED <<mutexes, partSlots, state, scan, local>>

Scanning(g) == LockReap(g) \/ (\E u \in Transfer : VisitEntry(g, u))

Creating(c) ==
    LockOwn(c) \/ (\E u \in Transfer : Count(c, u)) \/ Admit(c) \/ Refuse(c) \/ SaveNew(c)

Handling(c) ==
    \/ LockTransfer(c) \/ TakeSlot(c) \/ EndWrite(c) \/ Publish(c) \/ EndPublish(c)
    \/ Cancel(c) \/ Answer(c)

Next ==
    \/ Tick \/ ReapDone
    \/ \E g \in Goroutine : Scanning(g)
    \/ \E c \in Client : \/ \E call \in Calls, u \in Transfer : Call(c, call, u)
                         \/ Creating(c) \/ GiveUp(c) \/ Handling(c)
    \/ \E u \in Transfer : Expire(u)

Spec == Init /\ [][Next]_vars

-----------------------------------------------------------------------------
(* Properties *)

TypeOK ==
    /\ reapMu \in Goroutine \cup {None}
    /\ locks \in [Stripe -> Goroutine \cup {None}]
    /\ partSlots \in Nat
    /\ state \in [Transfer -> {"none", "making", "active", "finalizing", "completed", "cancelled"}]
    /\ stale \in [Transfer -> BOOLEAN]
    /\ due \subseteq Transfer /\ entries \subseteq Transfer /\ counted \subseteq Transfer
    /\ pc \in [Goroutine -> {"idle", "queueing", "scanning", "counting", "saving", "answering",
                             "waiting", "ready", "writing", "publishing"}]
    /\ op \in [Goroutine -> Calls \cup {"none", "reap"}]
    /\ on \in [Goroutine -> Transfer \cup {None}]

\* Create counts manifests that other goroutines are changing; all the same
\* the unfinished transfers never exceed the limits.
Reserved == {u \in Transfer : Unfinished(u)}
ActiveWithinLimit == Cardinality(Reserved) <= MaxActive
BytesWithinLimit == Cardinality(Bytes(Reserved)) <= MaxPendingBytes

\* One goroutine at a time works on a transfer, and no scan or count meets one
\* without a manifest, which would be an error:
\* "keeping the reaper lock through the directory creation prevents it from
\* mistaking a partial transfer directory for stale state"
\* (upload_store.go:341-343).
Working(g) == pc[g] \in {"counting", "saving", "ready", "writing", "publishing"}
PartialIsPrivate ==
    /\ \A g, h \in Goroutine : g # h /\ Working(g) /\ Working(h) => on[g] # on[h]
    /\ \A g \in Goroutine, u \in entries :
          pc[g] \in {"scanning", "counting"} => state[u] # "making"

\* Every slot taken is one body being received.
SlotsAreBodies ==
    /\ partSlots = Cardinality({c \in Client : pc[c] = "writing"})
    /\ partSlots <= MaxConcurrentParts

\* A scan removes a transfer only if it has expired and no request is at work on
\* it: one that renews a transfer while the scan waits for its lock saves it.
ReapsOnlyExpired ==
    [][\A u \in Transfer : state[u] \notin {"none", "making"} /\ state'[u] = "none" =>
          stale[u] /\ \A c \in Client : Working(c) => on[c] # u]_vars

\* upload_busy for want of quota is never due to a transfer that had expired
\* when the request was looked at.
RefusalIsEarned ==
    [][\A c \in Client : pc[c] = "counting" /\ Refuse(c) => counted \cap due = {}]_vars

-----------------------------------------------------------------------------
(* Fairness: every goroutine takes its next step; a body ends, for the      *)
(* server's read timeout bounds it; and Go's mutexes let nobody who waits   *)
(* be overtaken for ever, so a lock that is free again and again is taken.  *)

FairSpec ==
    /\ Spec
    /\ SF_vars(Scanning(Reaper) \/ ReapDone)
    /\ \A c \in Client : SF_vars(Scanning(c) \/ Creating(c) \/ Handling(c))

\* Nobody waits for ever: every call and every pass of the reaper ends.
CallsEnd == \A g \in Goroutine : pc[g] # "idle" ~> pc[g] = "idle"
=============================================================================
