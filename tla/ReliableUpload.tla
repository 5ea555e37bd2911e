---------------------------- MODULE ReliableUpload ----------------------------
(***************************************************************************)
(* What a reliable upload promises its client, without manifests, staging  *)
(* files, handlers or crashes.  UploadTransfer implements it.              *)
(*                                                                         *)
(* A transfer collects parts, each once.  When all are there and agree     *)
(* with the announced digest, the whole file appears under a free name, in *)
(* one step.  The transfer may be declared completed only after the file   *)
(* was seen there, and cancelled only if the file it published is gone.    *)
(* Users change the directory at any time.                                 *)
(***************************************************************************)
CONSTANTS Upload, Part, Data, Name, Target, Announced, UserContent, None

VARIABLES
    status,     \* status[u]: "none", "active", "completed" or "cancelled"
    announced,  \* announced[u]: whole-file digest the client announced
    received,   \* received[u][p]: the part's contents once accepted
    file,       \* file[n]: what the user's directory holds under n
    own,        \* own[u]: the file under Target[u] is the one u published
    seen        \* seen[u]: the name was just found to hold u's whole file

vars == <<status, announced, received, file, own, seen>>

NoParts == [p \in Part |-> None]
Whole(u) == /\ \A p \in Part : received[u][p] # None
            /\ announced[u] \in {None, received[u]}

Init ==
    /\ status = [u \in Upload |-> "none"]
    /\ announced = [u \in Upload |-> None]
    /\ received = [u \in Upload |-> NoParts]
    /\ file = [n \in Name |-> None]
    /\ own = [u \in Upload |-> FALSE]
    /\ seen = [u \in Upload |-> FALSE]

Create(u, e) ==
    /\ status[u] = "none"
    /\ status' = [status EXCEPT ![u] = "active"]
    /\ announced' = [announced EXCEPT ![u] = e]
    /\ UNCHANGED <<received, file, own, seen>>

Accept(u, p, d) ==
    /\ status[u] = "active" /\ received[u][p] = None
    /\ received' = [received EXCEPT ![u][p] = d]
    /\ UNCHANGED <<status, announced, file, own, seen>>

Publish(u) ==
    /\ status[u] = "active" /\ Whole(u)
    /\ file[Target[u]] = None
    /\ file' = [file EXCEPT ![Target[u]] = received[u]]
    /\ own' = [own EXCEPT ![u] = TRUE]
    /\ seen' = [seen EXCEPT ![u] = TRUE]
    /\ UNCHANGED <<status, announced, received>>

\* The name already holds the very file, whoever put it there.
Observe(u) ==
    /\ status[u] = "active" /\ Whole(u)
    /\ file[Target[u]] = received[u]
    /\ seen' = [seen EXCEPT ![u] = TRUE]
    /\ UNCHANGED <<status, announced, received, file, own>>

\* An error or a crash before the completion was recorded.
Forget(lost) ==
    /\ seen' = [u \in Upload |-> seen[u] /\ u \notin lost]
    /\ UNCHANGED <<status, announced, received, file, own>>

Conclude(u) ==
    /\ status[u] = "active" /\ seen[u]
    /\ status' = [status EXCEPT ![u] = "completed"]
    /\ seen' = [seen EXCEPT ![u] = FALSE]
    /\ UNCHANGED <<announced, received, file, own>>

Cancel(u) ==
    /\ status[u] = "active" /\ ~own[u] /\ ~seen[u]
    /\ status' = [status EXCEPT ![u] = "cancelled"]
    /\ UNCHANGED <<announced, received, file, own, seen>>

\* An expired transfer is forgotten; the published file stays.
Drop(u) ==
    /\ status[u] # "none" /\ ~seen[u]
    /\ status' = [status EXCEPT ![u] = "none"]
    /\ announced' = [announced EXCEPT ![u] = None]
    /\ received' = [received EXCEPT ![u] = NoParts]
    /\ own' = [own EXCEPT ![u] = FALSE]
    /\ UNCHANGED <<file, seen>>

UserFile(n) ==
    /\ \E c \in UserContent \cup {None} : file' = [file EXCEPT ![n] = c]
    /\ own' = [u \in Upload |-> own[u] /\ Target[u] # n]
    /\ UNCHANGED <<status, announced, received, seen>>

Next ==
    \/ \E u \in Upload :
          \/ \E e \in Announced : Create(u, e)
          \/ \E p \in Part, d \in Data : Accept(u, p, d)
          \/ Publish(u) \/ Observe(u) \/ Conclude(u) \/ Cancel(u) \/ Drop(u)
    \/ \E lost \in SUBSET Upload : Forget(lost)
    \/ \E n \in Name : UserFile(n)

Spec == Init /\ [][Next]_vars
=============================================================================
