-------------------------- MODULE UploadStoreProofs --------------------------
(***************************************************************************)
(* Proofs about UploadStore, for any number of goroutines, transfers and   *)
(* locks and for every limit.                                              *)
(*                                                                         *)
(* The quota is not protected by the transfers' locks: Create counts       *)
(* manifests that change while it counts them.  It holds because reapMu    *)
(* lets one Create count at a time (MutexInv), because no transfer becomes *)
(* unfinished but under reapMu (MakingInv), and because a transfer not yet *)
(* counted is still to be read (CountInv).                                 *)
(*                                                                         *)
(* The last section proves what the end of every call rests on besides     *)
(* fairness: the two kinds of locks are taken in one order (HolderInv says *)
(* that a lock is held by who needs it), and a call's steps are bounded.   *)
(***************************************************************************)
EXTENDS UploadStore, FiniteSetTheorems, TLAPS

\* Who holds reapMu, and who holds the lock of the transfer it works on.
Reaping(g) == pc[g] \in {"scanning", "counting", "saving"} \/ (pc[g] = "answering" /\ op[g] = "create")
Holding(g) == Working(g) \/ pc[g] = "answering"

MutexInv ==
    /\ \A g \in Goroutine : Reaping(g) => reapMu = g
    /\ \A g \in Goroutine : Holding(g) => on[g] \in Transfer /\ locks[LockFor[on[g]]] = g

OpInv ==
    /\ \A c \in Client : pc[c] # "idle" => on[c] \in Transfer /\ op[c] \in Calls
    /\ pc[Reaper] \in {"idle", "queueing", "scanning"}
    /\ \A c \in Client : /\ pc[c] \in {"queueing", "scanning", "counting", "saving"} => op[c] = "create"
                         /\ pc[c] \in {"waiting", "ready", "writing", "publishing"} => op[c] # "create"

\* What a goroutine knows of the transfer whose lock it holds.
StateInv ==
    \A g \in Goroutine :
        /\ pc[g] = "counting" => state[on[g]] = "none"
        /\ pc[g] = "saving" => state[on[g]] = "making"
        /\ pc[g] \in {"ready", "writing", "publishing"} => Unfinished(on[g])

\* A transfer without a manifest is being made by some goroutine.
MakingInv == \A u \in Transfer : state[u] = "making" => \E g \in Goroutine : pc[g] = "saving" /\ on[g] = u

\* While a Create counts, what it has not counted it has still to read.
CountInv ==
    \A g \in Goroutine : pc[g] = "counting" => \A u \in Transfer : Unfinished(u) => u \in counted \cup entries

\* Transfers that count against the quota, or are about to.
Claimed == {u \in Transfer : state[u] \in {"making", "active", "finalizing"}}
QuotaInv == Cardinality(Claimed) <= MaxActive /\ Cardinality(Bytes(Claimed)) <= MaxPendingBytes

\* A scan has still to read what had expired when it began, and a Create counts
\* only when all of that is gone.
DueInv ==
    /\ \A u \in Transfer : /\ u \in due => stale[u]
                           /\ stale[u] => state[u] \notin {"none", "making"}
    /\ \A g \in Goroutine : /\ pc[g] = "scanning" => due \subseteq entries
                            /\ pc[g] = "counting" => due = {}

SlotInv ==
    /\ partSlots = Cardinality({c \in Client : pc[c] = "writing"})
    /\ partSlots <= MaxConcurrentParts

-----------------------------------------------------------------------------
(* The locks exclude: who holds reapMu, or the lock of a transfer, holds it *)
(* alone.                                                                   *)

LEMMA OneReaping ==
  ASSUME MutexInv, NEW g \in Goroutine, NEW h \in Goroutine, Reaping(g), Reaping(h)
  PROVE  g = h
  BY DEF MutexInv

LEMMA OneHolding ==
  ASSUME MutexInv, NEW g \in Goroutine, NEW h \in Goroutine, Holding(g), Holding(h), on[g] = on[h]
  PROVE  g = h
  BY DEF MutexInv

LEMMA HeldIsNotFree ==
  ASSUME MutexInv, NEW g \in Goroutine, Holding(g)
  PROVE  ~Free(on[g])
  BY GoroutineAssumption DEF MutexInv, Free

LEMMA NextMutex ==
  ASSUME TypeOK, OpInv, MutexInv, [Next]_vars
  PROVE  MutexInv'
  <1> USE GoroutineAssumption, LockAssumption, TransferAssumption
      DEF Goroutine, TypeOK, OpInv, MutexInv, Reaping, Holding, Working, mutexes, disk,
          scan, local
  <1>1. ASSUME Tick PROVE MutexInv'
    BY <1>1 DEF Tick
  <1>2. ASSUME ReapDone PROVE MutexInv'
    BY <1>2 DEF ReapDone, Return
  <1>3. ASSUME NEW c \in Client, NEW call \in Calls, NEW u \in Transfer, Call(c, call, u) PROVE MutexInv'
    BY <1>3 DEF Call, Calls
  <1>4. ASSUME NEW g \in Goroutine, LockReap(g) PROVE MutexInv'
    BY <1>4 DEF LockReap, Goto, Present
  <1>5. ASSUME NEW g \in Goroutine, NEW u \in Transfer, VisitEntry(g, u) PROVE MutexInv'
    BY <1>5 DEF VisitEntry, Free
  <1>6. ASSUME NEW c \in Client, LockOwn(c) PROVE MutexInv'
    BY <1>6 DEF LockOwn, Lock, Free, Goto, Present
  <1>7. ASSUME NEW c \in Client, NEW u \in Transfer, Count(c, u) PROVE MutexInv'
    BY <1>7 DEF Count
  <1>8. ASSUME NEW c \in Client, Admit(c) PROVE MutexInv'
    BY <1>8 DEF Admit, SetState, Goto
  <1>9. ASSUME NEW c \in Client, Refuse(c) PROVE MutexInv'
    BY <1>9 DEF Refuse, Return
  <1>10. ASSUME NEW c \in Client, SaveNew(c) PROVE MutexInv'
    BY <1>10 DEF SaveNew, Return
  <1>11. ASSUME NEW c \in Client, GiveUp(c) PROVE MutexInv'
    BY <1>11 DEF GiveUp, Return
  <1>12. ASSUME NEW c \in Client, LockTransfer(c) PROVE MutexInv'
    BY <1>12 DEF LockTransfer, Lock, Free, Goto
  <1>13. ASSUME NEW c \in Client, TakeSlot(c) PROVE MutexInv'
    BY <1>13 DEF TakeSlot, Goto
  <1>14. ASSUME NEW c \in Client, EndWrite(c) PROVE MutexInv'
    BY <1>14 DEF EndWrite, Renew, Return
  <1>15. ASSUME NEW c \in Client, Publish(c) PROVE MutexInv'
    BY <1>15 DEF Publish, SetState, Renew, Goto
  <1>16. ASSUME NEW c \in Client, EndPublish(c) PROVE MutexInv'
    BY <1>16 DEF EndPublish, SetState, Renew, Return
  <1>17. ASSUME NEW c \in Client, Cancel(c) PROVE MutexInv'
    BY <1>17 DEF Cancel, SetState, Renew, Return
  <1>18. ASSUME NEW c \in Client, Answer(c) PROVE MutexInv'
    BY <1>18 DEF Answer, Return
  <1>19. ASSUME NEW u \in Transfer, Expire(u) PROVE MutexInv'
    BY <1>19 DEF Expire
  <1>20. ASSUME UNCHANGED vars PROVE MutexInv'
    BY <1>20 DEF vars
  <1> QED
    BY <1>1, <1>2, <1>3, <1>4, <1>5, <1>6, <1>7, <1>8, <1>9, <1>10, <1>11, <1>12, <1>13,
       <1>14, <1>15, <1>16, <1>17, <1>18, <1>19, <1>20
    DEF Next, Scanning, Creating, Handling

LEMMA NextOp ==
  ASSUME TypeOK, OpInv, [Next]_vars
  PROVE  OpInv'
  <1> USE GoroutineAssumption, LockAssumption, TransferAssumption
      DEF Goroutine, TypeOK, OpInv, Calls, mutexes, disk, scan, local
  <1>1. ASSUME Tick PROVE OpInv'
    BY <1>1 DEF Tick
  <1>2. ASSUME ReapDone PROVE OpInv'
    BY <1>2 DEF ReapDone, Return
  <1>3. ASSUME NEW c \in Client, NEW call \in Calls, NEW u \in Transfer, Call(c, call, u) PROVE OpInv'
    BY <1>3 DEF Call
  <1>4. ASSUME NEW g \in Goroutine, LockReap(g) PROVE OpInv'
    BY <1>4 DEF LockReap, Goto, Present
  <1>5. ASSUME NEW g \in Goroutine, NEW u \in Transfer, VisitEntry(g, u) PROVE OpInv'
    BY <1>5 DEF VisitEntry, Free
  <1>6. ASSUME NEW c \in Client, LockOwn(c) PROVE OpInv'
    BY <1>6 DEF LockOwn, Lock, Free, Goto, Present
  <1>7. ASSUME NEW c \in Client, NEW u \in Transfer, Count(c, u) PROVE OpInv'
    BY <1>7 DEF Count
  <1>8. ASSUME NEW c \in Client, Admit(c) PROVE OpInv'
    BY <1>8 DEF Admit, SetState, Goto
  <1>9. ASSUME NEW c \in Client, Refuse(c) PROVE OpInv'
    BY <1>9 DEF Refuse, Return
  <1>10. ASSUME NEW c \in Client, SaveNew(c) PROVE OpInv'
    BY <1>10 DEF SaveNew, Return
  <1>11. ASSUME NEW c \in Client, GiveUp(c) PROVE OpInv'
    BY <1>11 DEF GiveUp, Return
  <1>12. ASSUME NEW c \in Client, LockTransfer(c) PROVE OpInv'
    BY <1>12 DEF LockTransfer, Lock, Free, Goto
  <1>13. ASSUME NEW c \in Client, TakeSlot(c) PROVE OpInv'
    BY <1>13 DEF TakeSlot, Goto
  <1>14. ASSUME NEW c \in Client, EndWrite(c) PROVE OpInv'
    BY <1>14 DEF EndWrite, Renew, Return
  <1>15. ASSUME NEW c \in Client, Publish(c) PROVE OpInv'
    BY <1>15 DEF Publish, SetState, Renew, Goto
  <1>16. ASSUME NEW c \in Client, EndPublish(c) PROVE OpInv'
    BY <1>16 DEF EndPublish, SetState, Renew, Return
  <1>17. ASSUME NEW c \in Client, Cancel(c) PROVE OpInv'
    BY <1>17 DEF Cancel, SetState, Renew, Return
  <1>18. ASSUME NEW c \in Client, Answer(c) PROVE OpInv'
    BY <1>18 DEF Answer, Return
  <1>19. ASSUME NEW u \in Transfer, Expire(u) PROVE OpInv'
    BY <1>19 DEF Expire
  <1>20. ASSUME UNCHANGED vars PROVE OpInv'
    BY <1>20 DEF vars
  <1> QED
    BY <1>1, <1>2, <1>3, <1>4, <1>5, <1>6, <1>7, <1>8, <1>9, <1>10, <1>11, <1>12, <1>13,
       <1>14, <1>15, <1>16, <1>17, <1>18, <1>19, <1>20
    DEF Next, Scanning, Creating, Handling

LEMMA NextState ==
  ASSUME TypeOK, OpInv, MutexInv, StateInv, [Next]_vars
  PROVE  StateInv'
  <1> USE GoroutineAssumption, LockAssumption, TransferAssumption
      DEF Goroutine, TypeOK, OpInv, MutexInv, StateInv, Holding, Working, Unfinished,
          mutexes, disk, scan, local
  <1>1. ASSUME Tick PROVE StateInv'
    BY <1>1 DEF Tick
  <1>2. ASSUME ReapDone PROVE StateInv'
    BY <1>2 DEF ReapDone, Return
  <1>3. ASSUME NEW c \in Client, NEW call \in Calls, NEW u \in Transfer, Call(c, call, u) PROVE StateInv'
    BY <1>3 DEF Call, Calls
  <1>4. ASSUME NEW g \in Goroutine, LockReap(g) PROVE StateInv'
    BY <1>4 DEF LockReap, Goto, Present
  <1>5. ASSUME NEW g \in Goroutine, NEW u \in Transfer, VisitEntry(g, u) PROVE StateInv'
    BY <1>5 DEF VisitEntry, Free
  <1>6. ASSUME NEW c \in Client, LockOwn(c) PROVE StateInv'
    BY <1>6 DEF LockOwn, Lock, Free, Goto, Present
  <1>7. ASSUME NEW c \in Client, NEW u \in Transfer, Count(c, u) PROVE StateInv'
    BY <1>7 DEF Count
  <1>8. ASSUME NEW c \in Client, Admit(c) PROVE StateInv'
    BY <1>8 DEF Admit, SetState, Goto
  <1>9. ASSUME NEW c \in Client, Refuse(c) PROVE StateInv'
    BY <1>9 DEF Refuse, Return
  <1>10. ASSUME NEW c \in Client, SaveNew(c) PROVE StateInv'
    BY <1>10 DEF SaveNew, Return
  <1>11. ASSUME NEW c \in Client, GiveUp(c) PROVE StateInv'
    BY <1>11 DEF GiveUp, Return
  <1>12. ASSUME NEW c \in Client, LockTransfer(c) PROVE StateInv'
    BY <1>12 DEF LockTransfer, Lock, Free, Goto
  <1>13. ASSUME NEW c \in Client, TakeSlot(c) PROVE StateInv'
    BY <1>13 DEF TakeSlot, Goto
  <1>14. ASSUME NEW c \in Client, EndWrite(c) PROVE StateInv'
    BY <1>14 DEF EndWrite, Renew, Return
  <1>15. ASSUME NEW c \in Client, Publish(c) PROVE StateInv'
    BY <1>15 DEF Publish, SetState, Renew, Goto
  <1>16. ASSUME NEW c \in Client, EndPublish(c) PROVE StateInv'
    BY <1>16 DEF EndPublish, SetState, Renew, Return
  <1>17. ASSUME NEW c \in Client, Cancel(c) PROVE StateInv'
    BY <1>17 DEF Cancel, SetState, Renew, Return
  <1>18. ASSUME NEW c \in Client, Answer(c) PROVE StateInv'
    BY <1>18 DEF Answer, Return
  <1>19. ASSUME NEW u \in Transfer, Expire(u) PROVE StateInv'
    BY <1>19 DEF Expire
  <1>20. ASSUME UNCHANGED vars PROVE StateInv'
    BY <1>20 DEF vars
  <1> QED
    BY <1>1, <1>2, <1>3, <1>4, <1>5, <1>6, <1>7, <1>8, <1>9, <1>10, <1>11, <1>12, <1>13,
       <1>14, <1>15, <1>16, <1>17, <1>18, <1>19, <1>20
    DEF Next, Scanning, Creating, Handling

LEMMA NextMaking ==
  ASSUME TypeOK, OpInv, MutexInv, StateInv, MakingInv, [Next]_vars
  PROVE  MakingInv'
  <1> USE GoroutineAssumption, LockAssumption, TransferAssumption
      DEF Goroutine, TypeOK, OpInv, MutexInv, StateInv, MakingInv, Reaping, Holding,
          Working, mutexes, disk, scan, local
  <1>1. ASSUME Tick PROVE MakingInv'
    BY <1>1 DEF Tick
  <1>2. ASSUME ReapDone PROVE MakingInv'
    BY <1>2 DEF ReapDone, Return
  <1>3. ASSUME NEW c \in Client, NEW call \in Calls, NEW u \in Transfer, Call(c, call, u) PROVE MakingInv'
    BY <1>3 DEF Call, Calls
  <1>4. ASSUME NEW g \in Goroutine, LockReap(g) PROVE MakingInv'
    BY <1>4 DEF LockReap, Goto, Present
  <1>5. ASSUME NEW g \in Goroutine, NEW u \in Transfer, VisitEntry(g, u) PROVE MakingInv'
    BY <1>5 DEF VisitEntry, Free
  <1>6. ASSUME NEW c \in Client, LockOwn(c) PROVE MakingInv'
    BY <1>6 DEF LockOwn, Lock, Free, Goto, Present
  <1>7. ASSUME NEW c \in Client, NEW u \in Transfer, Count(c, u) PROVE MakingInv'
    BY <1>7 DEF Count
  <1>8. ASSUME NEW c \in Client, Admit(c) PROVE MakingInv'
    BY <1>8 DEF Admit, SetState, Goto
  <1>9. ASSUME NEW c \in Client, Refuse(c) PROVE MakingInv'
    BY <1>9 DEF Refuse, Return
  <1>10. ASSUME NEW c \in Client, SaveNew(c) PROVE MakingInv'
    BY <1>10 DEF SaveNew, Return
  <1>11. ASSUME NEW c \in Client, GiveUp(c) PROVE MakingInv'
    BY <1>11 DEF GiveUp, Return
  <1>12. ASSUME NEW c \in Client, LockTransfer(c) PROVE MakingInv'
    BY <1>12 DEF LockTransfer, Lock, Free, Goto
  <1>13. ASSUME NEW c \in Client, TakeSlot(c) PROVE MakingInv'
    BY <1>13 DEF TakeSlot, Goto
  <1>14. ASSUME NEW c \in Client, EndWrite(c) PROVE MakingInv'
    BY <1>14 DEF EndWrite, Renew, Return
  <1>15. ASSUME NEW c \in Client, Publish(c) PROVE MakingInv'
    BY <1>15 DEF Publish, SetState, Renew, Goto
  <1>16. ASSUME NEW c \in Client, EndPublish(c) PROVE MakingInv'
    BY <1>16 DEF EndPublish, SetState, Renew, Return
  <1>17. ASSUME NEW c \in Client, Cancel(c) PROVE MakingInv'
    BY <1>17 DEF Cancel, SetState, Renew, Return
  <1>18. ASSUME NEW c \in Client, Answer(c) PROVE MakingInv'
    BY <1>18 DEF Answer, Return
  <1>19. ASSUME NEW u \in Transfer, Expire(u) PROVE MakingInv'
    BY <1>19 DEF Expire
  <1>20. ASSUME UNCHANGED vars PROVE MakingInv'
    BY <1>20 DEF vars
  <1> QED
    BY <1>1, <1>2, <1>3, <1>4, <1>5, <1>6, <1>7, <1>8, <1>9, <1>10, <1>11, <1>12, <1>13,
       <1>14, <1>15, <1>16, <1>17, <1>18, <1>19, <1>20
    DEF Next, Scanning, Creating, Handling

LEMMA NextCount ==
  ASSUME TypeOK, OpInv, MutexInv, StateInv, CountInv, [Next]_vars
  PROVE  CountInv'
  <1> USE GoroutineAssumption, LockAssumption, TransferAssumption
      DEF Goroutine, TypeOK, OpInv, MutexInv, StateInv, CountInv, Reaping, Unfinished,
          mutexes, disk, scan, local
  <1>1. ASSUME Tick PROVE CountInv'
    BY <1>1 DEF Tick
  <1>2. ASSUME ReapDone PROVE CountInv'
    BY <1>2 DEF ReapDone, Return
  <1>3. ASSUME NEW c \in Client, NEW call \in Calls, NEW u \in Transfer, Call(c, call, u) PROVE CountInv'
    BY <1>3 DEF Call, Calls
  <1>4. ASSUME NEW g \in Goroutine, LockReap(g) PROVE CountInv'
    BY <1>4 DEF LockReap, Goto, Present
  <1>5. ASSUME NEW g \in Goroutine, NEW u \in Transfer, VisitEntry(g, u) PROVE CountInv'
    BY <1>5 DEF VisitEntry, Free
  <1>6. ASSUME NEW c \in Client, LockOwn(c) PROVE CountInv'
    BY <1>6 DEF LockOwn, Lock, Free, Goto, Present
  <1>7. ASSUME NEW c \in Client, NEW u \in Transfer, Count(c, u) PROVE CountInv'
    BY <1>7 DEF Count
  <1>8. ASSUME NEW c \in Client, Admit(c) PROVE CountInv'
    BY <1>8 DEF Admit, SetState, Goto
  <1>9. ASSUME NEW c \in Client, Refuse(c) PROVE CountInv'
    BY <1>9 DEF Refuse, Return
  <1>10. ASSUME NEW c \in Client, SaveNew(c) PROVE CountInv'
    BY <1>10 DEF SaveNew, Return
  <1>11. ASSUME NEW c \in Client, GiveUp(c) PROVE CountInv'
    BY <1>11 DEF GiveUp, Return
  <1>12. ASSUME NEW c \in Client, LockTransfer(c) PROVE CountInv'
    BY <1>12 DEF LockTransfer, Lock, Free, Goto
  <1>13. ASSUME NEW c \in Client, TakeSlot(c) PROVE CountInv'
    BY <1>13 DEF TakeSlot, Goto
  <1>14. ASSUME NEW c \in Client, EndWrite(c) PROVE CountInv'
    BY <1>14 DEF EndWrite, Renew, Return
  <1>15. ASSUME NEW c \in Client, Publish(c) PROVE CountInv'
    BY <1>15 DEF Publish, SetState, Renew, Goto
  <1>16. ASSUME NEW c \in Client, EndPublish(c) PROVE CountInv'
    BY <1>16 DEF EndPublish, SetState, Renew, Return
  <1>17. ASSUME NEW c \in Client, Cancel(c) PROVE CountInv'
    BY <1>17 DEF Cancel, SetState, Renew, Return
  <1>18. ASSUME NEW c \in Client, Answer(c) PROVE CountInv'
    BY <1>18 DEF Answer, Return
  <1>19. ASSUME NEW u \in Transfer, Expire(u) PROVE CountInv'
    BY <1>19 DEF Expire
  <1>20. ASSUME UNCHANGED vars PROVE CountInv'
    BY <1>20 DEF vars
  <1> QED
    BY <1>1, <1>2, <1>3, <1>4, <1>5, <1>6, <1>7, <1>8, <1>9, <1>10, <1>11, <1>12, <1>13,
       <1>14, <1>15, <1>16, <1>17, <1>18, <1>19, <1>20
    DEF Next, Scanning, Creating, Handling

-----------------------------------------------------------------------------
(* Slots and types *)

LEMMA WritersAreFinite ==
  /\ IsFiniteSet({c \in Client : pc[c] = "writing"})
  /\ Cardinality({c \in Client : pc[c] = "writing"}) \in Nat
  BY GoroutineAssumption, FS_Subset, FS_CardinalityType

LEMMA NextSlots ==
  ASSUME TypeOK, SlotInv, [Next]_vars
  PROVE  SlotInv'
  <1> DEFINE W == {c \in Client : pc[c] = "writing"}
  <1>1. ASSUME NEW c \in Client, TakeSlot(c) PROVE SlotInv'
    <2>1. CASE state[on[c]] = "active" /\ partSlots < MaxConcurrentParts
      <3>1. W' = W \cup {c} /\ c \notin W
        BY <1>1, <2>1 DEF TypeOK, TakeSlot, Goto, Goroutine
      <3> HIDE DEF W
      <3>2. Cardinality(W \cup {c}) = Cardinality(W) + 1
        BY <3>1, WritersAreFinite, FS_AddElement DEF W
      <3>3. partSlots' = Cardinality(W')
        BY <1>1, <2>1, <3>1, <3>2 DEF SlotInv, TakeSlot, W
      <3> QED
        BY <1>1, <2>1, <3>3, LimitAssumption DEF SlotInv, TypeOK, TakeSlot, W
    <2>2. CASE ~(state[on[c]] = "active" /\ partSlots < MaxConcurrentParts)
      <3>1. W' = W
        BY <1>1, <2>2 DEF TypeOK, TakeSlot, Goto, Goroutine
      <3> QED
        BY <1>1, <2>2, <3>1 DEF SlotInv, TakeSlot
    <2> QED
      BY <2>1, <2>2
  <1>2. ASSUME NEW c \in Client, EndWrite(c) PROVE SlotInv'
    <2>1. W' = W \ {c} /\ c \in W
      BY <1>2 DEF TypeOK, EndWrite, Return, Goroutine
    <2> HIDE DEF W
    <2>2. Cardinality(W \ {c}) = Cardinality(W) - 1
      BY <2>1, WritersAreFinite, FS_RemoveElement DEF W
    <2>3. partSlots' = Cardinality(W')
      BY <1>2, <2>1, <2>2 DEF SlotInv, EndWrite, W
    <2> QED
      BY <1>2, <2>3, LimitAssumption DEF SlotInv, TypeOK, EndWrite, W
  <1>3. CASE \A c \in Client : ~TakeSlot(c) /\ ~EndWrite(c)
    <2>1. partSlots' = partSlots /\ W' = W
      BY <1>3, GoroutineAssumption
      DEF Next, Scanning, Creating, Handling, TypeOK, Goroutine, Return, Goto, vars, local,
          Tick, ReapDone, Call, LockReap, VisitEntry, LockOwn, Count, Admit, Refuse, SaveNew, GiveUp,
          LockTransfer, Publish, EndPublish, Cancel, Answer, Expire
    <2> QED
      BY <2>1 DEF SlotInv
  <1> QED
    BY <1>1, <1>2, <1>3

LEMMA WriterHasSlot ==
  ASSUME TypeOK, SlotInv, NEW c \in Client, pc[c] = "writing"
  PROVE  partSlots - 1 \in Nat
  BY WritersAreFinite, FS_EmptySet DEF SlotInv, TypeOK

LEMMA NextType ==
  ASSUME TypeOK, OpInv, SlotInv, [Next]_vars
  PROVE  TypeOK'
  <1> USE GoroutineAssumption, LockAssumption, TransferAssumption
      DEF Goroutine, TypeOK, OpInv, Calls, mutexes, disk, scan, local
  <1>1. ASSUME Tick PROVE TypeOK'
    BY <1>1 DEF Tick
  <1>2. ASSUME ReapDone PROVE TypeOK'
    BY <1>2 DEF ReapDone, Return
  <1>3. ASSUME NEW c \in Client, NEW call \in Calls, NEW u \in Transfer, Call(c, call, u) PROVE TypeOK'
    BY <1>3 DEF Call
  <1>4. ASSUME NEW g \in Goroutine, LockReap(g) PROVE TypeOK'
    BY <1>4 DEF LockReap, Goto, Present
  <1>5. ASSUME NEW g \in Goroutine, NEW u \in Transfer, VisitEntry(g, u) PROVE TypeOK'
    BY <1>5 DEF VisitEntry, Free
  <1>6. ASSUME NEW c \in Client, LockOwn(c) PROVE TypeOK'
    BY <1>6 DEF LockOwn, Lock, Free, Goto, Present
  <1>7. ASSUME NEW c \in Client, NEW u \in Transfer, Count(c, u) PROVE TypeOK'
    BY <1>7 DEF Count
  <1>8. ASSUME NEW c \in Client, Admit(c) PROVE TypeOK'
    BY <1>8 DEF Admit, SetState, Goto
  <1>9. ASSUME NEW c \in Client, Refuse(c) PROVE TypeOK'
    BY <1>9 DEF Refuse, Return
  <1>10. ASSUME NEW c \in Client, SaveNew(c) PROVE TypeOK'
    BY <1>10 DEF SaveNew, Return
  <1>11. ASSUME NEW c \in Client, GiveUp(c) PROVE TypeOK'
    BY <1>11 DEF GiveUp, Return
  <1>12. ASSUME NEW c \in Client, LockTransfer(c) PROVE TypeOK'
    BY <1>12 DEF LockTransfer, Lock, Free, Goto
  <1>13. ASSUME NEW c \in Client, TakeSlot(c) PROVE TypeOK'
    BY <1>13 DEF TakeSlot, Goto
  <1>14. ASSUME NEW c \in Client, EndWrite(c) PROVE TypeOK'
    BY <1>14, WriterHasSlot DEF EndWrite, Renew, Return
  <1>15. ASSUME NEW c \in Client, Publish(c) PROVE TypeOK'
    BY <1>15 DEF Publish, SetState, Renew, Goto
  <1>16. ASSUME NEW c \in Client, EndPublish(c) PROVE TypeOK'
    <2>1. state' \in [Transfer -> {"none", "making", "active", "finalizing", "completed", "cancelled"}]
      BY <1>16 DEF EndPublish, SetState, TypeOK, disk
    <2>2. stale' \in [Transfer -> BOOLEAN] /\ due' \subseteq Transfer
          /\ entries' \subseteq Transfer /\ counted' \subseteq Transfer
      BY <1>16 DEF EndPublish, Renew, TypeOK, disk, scan
    <2> QED
      BY <1>16, <2>1, <2>2 DEF EndPublish, Return
  <1>17. ASSUME NEW c \in Client, Cancel(c) PROVE TypeOK'
    BY <1>17 DEF Cancel, SetState, Renew, Return
  <1>18. ASSUME NEW c \in Client, Answer(c) PROVE TypeOK'
    BY <1>18 DEF Answer, Return
  <1>19. ASSUME NEW u \in Transfer, Expire(u) PROVE TypeOK'
    BY <1>19 DEF Expire
  <1>20. ASSUME UNCHANGED vars PROVE TypeOK'
    BY <1>20 DEF vars
  <1> QED
    BY <1>1, <1>2, <1>3, <1>4, <1>5, <1>6, <1>7, <1>8, <1>9, <1>10, <1>11, <1>12, <1>13,
       <1>14, <1>15, <1>16, <1>17, <1>18, <1>19, <1>20
    DEF Next, Scanning, Creating, Handling

-----------------------------------------------------------------------------
(* Sets of transfers and the bytes they reserve *)

LEMMA BytesMember ==
  ASSUME NEW S \in SUBSET Transfer, NEW u \in Transfer, NEW i \in Nat
  PROVE  <<u, i>> \in Bytes(S) <=> u \in S /\ i \in 1..Size[u]
  BY SizeAssumption DEF Bytes

LEMMA BytesArePairs ==
  ASSUME NEW S \in SUBSET Transfer, NEW b \in Bytes(S)
  PROVE  \E u \in S : \E i \in 1..Size[u] : b = <<u, i>>
  BY SizeAssumption DEF Bytes

LEMMA BytesFinite ==
  ASSUME NEW S \in SUBSET Transfer
  PROVE  IsFiniteSet(Bytes(S)) /\ Cardinality(Bytes(S)) \in Nat
  <1> DEFINE Ranges == {1..Size[u] : u \in S}
             f == [u \in S |-> 1..Size[u]]
  <1>1. IsFiniteSet(S)
    BY TransferAssumption, FS_Subset
  <1>2. f \in Surjection(S, Ranges)
    BY DEF Surjection
  <1>3. IsFiniteSet(Ranges)
    BY <1>1, <1>2, FS_Surjection
  <1>4. \A R \in Ranges : IsFiniteSet(R)
    BY FS_Interval, SizeAssumption
  <1>5. IsFiniteSet(S \X UNION Ranges)
    <2> HIDE DEF Ranges
    <2> QED
      BY <1>1, <1>3, <1>4, FS_UNION, FS_Product
  <1>6. Bytes(S) \in SUBSET (S \X UNION Ranges)
    BY DEF Bytes
  <1> QED
    BY <1>5, <1>6, FS_Subset, FS_CardinalityType

LEMMA BytesMonotonic ==
  ASSUME NEW T \in SUBSET Transfer, NEW S \in SUBSET T
  PROVE  Cardinality(Bytes(S)) <= Cardinality(Bytes(T))
  <1>1. Bytes(S) \in SUBSET Bytes(T)
    BY BytesArePairs, BytesMember, SizeAssumption
  <1> QED
    BY <1>1, BytesFinite, FS_Subset

\* A transfer not in S adds its size.
LEMMA BytesAdd ==
  ASSUME NEW S \in SUBSET Transfer, NEW u \in Transfer \ S
  PROVE  Cardinality(Bytes(S \cup {u})) = Cardinality(Bytes(S)) + Size[u]
  <1> DEFINE New == {u} \X (1..Size[u])
  <1>1. IsFiniteSet(New) /\ Cardinality(New) = Size[u]
    <2>1. IsFiniteSet(1..Size[u]) /\ Cardinality(1..Size[u]) = Size[u]
      BY FS_Interval, SizeAssumption
    <2>2. IsFiniteSet({u}) /\ Cardinality({u}) = 1
      BY FS_Singleton
    <2> QED
      BY <2>1, <2>2, FS_Product, SizeAssumption
  <1>2. Bytes(S \cup {u}) = Bytes(S) \cup New
    <2>1. ASSUME NEW b \in Bytes(S \cup {u}) PROVE b \in Bytes(S) \cup New
      BY BytesArePairs, BytesMember, SizeAssumption
    <2>2. ASSUME NEW b \in Bytes(S) PROVE b \in Bytes(S \cup {u})
      BY BytesArePairs, BytesMember, SizeAssumption
    <2>3. ASSUME NEW b \in New PROVE b \in Bytes(S \cup {u})
      BY BytesMember, SizeAssumption
    <2> QED
      BY <2>1, <2>2, <2>3
  <1>3. Bytes(S) \cap New = {}
    BY BytesArePairs
  <1>4. Cardinality(Bytes(S) \cup New) = Cardinality(Bytes(S)) + Size[u]
    <2> HIDE DEF New
    <2>1. IsFiniteSet(Bytes(S)) /\ Cardinality(Bytes(S)) \in Nat
      BY BytesFinite
    <2>2. Cardinality(Bytes(S) \cup New) =
             Cardinality(Bytes(S)) + Cardinality(New) - Cardinality(Bytes(S) \cap New)
      BY <1>1, <2>1, FS_Union
    <2> QED
      BY <1>1, <1>3, <2>1, <2>2, FS_EmptySet, SizeAssumption
  <1> QED
    BY <1>2, <1>4

\* Fewer transfers claim less.
LEMMA QuotaOfLess ==
  ASSUME QuotaInv, Claimed' \subseteq Claimed
  PROVE  QuotaInv'
  <1>1. Claimed \in SUBSET Transfer /\ Claimed' \in SUBSET Transfer /\ Claimed' \in SUBSET Claimed
    BY DEF Claimed
  <1>2. Cardinality(Claimed') <= Cardinality(Claimed)
        /\ Cardinality(Claimed) \in Nat /\ Cardinality(Claimed') \in Nat
    BY <1>1, TransferAssumption, FS_Subset, FS_CardinalityType
  <1>3. Cardinality(Bytes(Claimed')) <= Cardinality(Bytes(Claimed))
        /\ Cardinality(Bytes(Claimed)) \in Nat /\ Cardinality(Bytes(Claimed')) \in Nat
    BY <1>1, BytesMonotonic, BytesFinite
  <1>4. Bytes(Claimed)' = Bytes(Claimed')
    BY DEF Bytes
  <1> QED
    BY <1>2, <1>3, <1>4, LimitAssumption DEF QuotaInv

\* Every step but Admit leaves the claims as they are or gives one up.
LEMMA ClaimsOfStep ==
  ASSUME TypeOK, OpInv, StateInv, \A c \in Client : ~Admit(c), [Next]_vars
  PROVE  Claimed' \subseteq Claimed
  <1> USE GoroutineAssumption, LockAssumption, TransferAssumption
      DEF Claimed, TypeOK, OpInv, StateInv, Unfinished, Goroutine, mutexes, disk, scan,
          local
  <1>1. ASSUME Tick PROVE Claimed' \subseteq Claimed
    BY <1>1 DEF Tick
  <1>2. ASSUME ReapDone PROVE Claimed' \subseteq Claimed
    BY <1>2 DEF ReapDone, Return
  <1>3. ASSUME NEW c \in Client, NEW call \in Calls, NEW u \in Transfer, Call(c, call, u) PROVE Claimed' \subseteq Claimed
    BY <1>3 DEF Call, Calls
  <1>4. ASSUME NEW g \in Goroutine, LockReap(g) PROVE Claimed' \subseteq Claimed
    BY <1>4 DEF LockReap, Goto, Present
  <1>5. ASSUME NEW g \in Goroutine, NEW u \in Transfer, VisitEntry(g, u) PROVE Claimed' \subseteq Claimed
    BY <1>5 DEF VisitEntry, Free
  <1>6. ASSUME NEW c \in Client, LockOwn(c) PROVE Claimed' \subseteq Claimed
    BY <1>6 DEF LockOwn, Lock, Free, Goto, Present
  <1>7. ASSUME NEW c \in Client, NEW u \in Transfer, Count(c, u) PROVE Claimed' \subseteq Claimed
    BY <1>7 DEF Count
  <1>8. ASSUME NEW c \in Client, Admit(c) PROVE Claimed' \subseteq Claimed
    BY <1>8
  <1>9. ASSUME NEW c \in Client, Refuse(c) PROVE Claimed' \subseteq Claimed
    BY <1>9 DEF Refuse, Return
  <1>10. ASSUME NEW c \in Client, SaveNew(c) PROVE Claimed' \subseteq Claimed
    BY <1>10 DEF SaveNew, Return
  <1>11. ASSUME NEW c \in Client, GiveUp(c) PROVE Claimed' \subseteq Claimed
    BY <1>11 DEF GiveUp, Return
  <1>12. ASSUME NEW c \in Client, LockTransfer(c) PROVE Claimed' \subseteq Claimed
    BY <1>12 DEF LockTransfer, Lock, Free, Goto
  <1>13. ASSUME NEW c \in Client, TakeSlot(c) PROVE Claimed' \subseteq Claimed
    BY <1>13 DEF TakeSlot, Goto
  <1>14. ASSUME NEW c \in Client, EndWrite(c) PROVE Claimed' \subseteq Claimed
    BY <1>14 DEF EndWrite, Renew, Return
  <1>15. ASSUME NEW c \in Client, Publish(c) PROVE Claimed' \subseteq Claimed
    BY <1>15 DEF Publish, SetState, Renew, Goto
  <1>16. ASSUME NEW c \in Client, EndPublish(c) PROVE Claimed' \subseteq Claimed
    BY <1>16 DEF EndPublish, SetState, Renew, Return
  <1>17. ASSUME NEW c \in Client, Cancel(c) PROVE Claimed' \subseteq Claimed
    BY <1>17 DEF Cancel, SetState, Renew, Return
  <1>18. ASSUME NEW c \in Client, Answer(c) PROVE Claimed' \subseteq Claimed
    BY <1>18 DEF Answer, Return
  <1>19. ASSUME NEW u \in Transfer, Expire(u) PROVE Claimed' \subseteq Claimed
    BY <1>19 DEF Expire
  <1>20. ASSUME UNCHANGED vars PROVE Claimed' \subseteq Claimed
    BY <1>20 DEF vars
  <1> QED
    BY <1>1, <1>2, <1>3, <1>4, <1>5, <1>6, <1>7, <1>8, <1>9, <1>10, <1>11, <1>12, <1>13,
       <1>14, <1>15, <1>16, <1>17, <1>18, <1>19, <1>20
    DEF Next, Scanning, Creating, Handling

LEMMA NextQuota ==
  ASSUME TypeOK, OpInv, MutexInv, StateInv, MakingInv, CountInv, QuotaInv, [Next]_vars
  PROVE  QuotaInv'
  <1>1. CASE \A c \in Client : ~Admit(c)
    BY <1>1, ClaimsOfStep, QuotaOfLess
  <1>2. ASSUME NEW c \in Client, Admit(c) PROVE QuotaInv'
    <2> DEFINE u == on[c]
    <2>1. u \in Transfer /\ state[u] = "none" /\ pc[c] = "counting" /\ entries = {} /\ c \in Goroutine
      BY <1>2 DEF Admit, OpInv, StateInv, Goroutine
    <2>2. Claimed \in SUBSET counted
      <3> SUFFICES ASSUME NEW w \in Claimed PROVE w \in counted
        BY DEF Claimed
      <3>1. state[w] # "making"
        BY <2>1, OneReaping DEF MakingInv, Claimed, Reaping
      <3> QED
        BY <2>1, <3>1 DEF CountInv, Claimed, Unfinished
    <2>3. u \notin Claimed /\ Claimed \in SUBSET Transfer /\ counted \in SUBSET Transfer
      BY <2>1 DEF Claimed, TypeOK
    <2>4. Claimed' = Claimed \cup {u}
      BY <1>2, <2>1 DEF Admit, SetState, Claimed, TypeOK
    <2>5. WithinLimits(counted, u)
      BY <1>2 DEF Admit
    <2>6. Cardinality(Claimed') <= MaxActive
      <3>1. IsFiniteSet(Claimed) /\ IsFiniteSet(counted) /\ Cardinality(Claimed) <= Cardinality(counted)
            /\ Cardinality(Claimed) \in Nat /\ Cardinality(counted) \in Nat
        BY <2>2, <2>3, TransferAssumption, FS_Subset, FS_CardinalityType
      <3>2. Cardinality(Claimed \cup {u}) = Cardinality(Claimed) + 1
        BY <2>3, <3>1, FS_AddElement
      <3> QED
        BY <2>4, <2>5, <3>1, <3>2, LimitAssumption DEF WithinLimits
    <2>7. Cardinality(Bytes(Claimed')) <= MaxPendingBytes
      <3>1. Cardinality(Bytes(Claimed \cup {u})) = Cardinality(Bytes(Claimed)) + Size[u]
        BY <2>1, <2>3, BytesAdd
      <3>2. Cardinality(Bytes(Claimed)) <= Cardinality(Bytes(counted))
        BY <2>2, <2>3, BytesMonotonic
      <3>3. Cardinality(Bytes(Claimed)) \in Nat /\ Cardinality(Bytes(counted)) \in Nat
        BY <2>3, BytesFinite
      <3> QED
        BY <2>1, <2>4, <2>5, <3>1, <3>2, <3>3, LimitAssumption, SizeAssumption DEF WithinLimits
    <2>8. Bytes(Claimed)' = Bytes(Claimed')
      BY DEF Bytes
    <2> QED
      BY <2>6, <2>7, <2>8 DEF QuotaInv
  <1> QED
    BY <1>1, <1>2

-----------------------------------------------------------------------------
(* What a scan has sampled *)

LEMMA VisitKeepsDue ==
  ASSUME TypeOK, DueInv, NEW g \in Goroutine, NEW u \in Transfer, VisitEntry(g, u)
  PROVE  DueInv'
  <1>1. due' = due \ {u} /\ \A w \in Transfer : stale'[w] = (stale[w] /\ (w = u => w \notin due))
    BY DEF VisitEntry, TypeOK
  <1>2. \A w \in Transfer : (w \in due' => stale'[w])
                            /\ (stale'[w] => state'[w] \notin {"none", "making"})
    BY <1>1 DEF VisitEntry, DueInv, TypeOK
  <1>3. \A h \in Goroutine : /\ pc'[h] = "scanning" => due' \subseteq entries'
                             /\ pc'[h] = "counting" => due' = {}
    BY <1>1 DEF VisitEntry, DueInv, local
  <1> QED
    BY <1>2, <1>3 DEF DueInv

LEMMA NextDue ==
  ASSUME TypeOK, OpInv, MutexInv, StateInv, DueInv, [Next]_vars
  PROVE  DueInv'
  <1> USE GoroutineAssumption, LockAssumption, TransferAssumption
      DEF Goroutine, TypeOK, OpInv, MutexInv, StateInv, DueInv, Reaping, Unfinished,
          mutexes, disk, scan, local
  <1>1. ASSUME Tick PROVE DueInv'
    BY <1>1 DEF Tick
  <1>2. ASSUME ReapDone PROVE DueInv'
    BY <1>2 DEF ReapDone, Return
  <1>3. ASSUME NEW c \in Client, NEW call \in Calls, NEW u \in Transfer, Call(c, call, u) PROVE DueInv'
    BY <1>3 DEF Call, Calls
  <1>4. ASSUME NEW g \in Goroutine, LockReap(g) PROVE DueInv'
    BY <1>4 DEF LockReap, Goto, Present
  <1>5. ASSUME NEW g \in Goroutine, NEW u \in Transfer, VisitEntry(g, u) PROVE DueInv'
    BY <1>5, VisitKeepsDue
  <1>6. ASSUME NEW c \in Client, LockOwn(c) PROVE DueInv'
    BY <1>6 DEF LockOwn, Lock, Free, Goto, Present
  <1>7. ASSUME NEW c \in Client, NEW u \in Transfer, Count(c, u) PROVE DueInv'
    BY <1>7 DEF Count
  <1>8. ASSUME NEW c \in Client, Admit(c) PROVE DueInv'
    BY <1>8 DEF Admit, SetState, Goto
  <1>9. ASSUME NEW c \in Client, Refuse(c) PROVE DueInv'
    BY <1>9 DEF Refuse, Return
  <1>10. ASSUME NEW c \in Client, SaveNew(c) PROVE DueInv'
    BY <1>10 DEF SaveNew, Return
  <1>11. ASSUME NEW c \in Client, GiveUp(c) PROVE DueInv'
    BY <1>11 DEF GiveUp, Return
  <1>12. ASSUME NEW c \in Client, LockTransfer(c) PROVE DueInv'
    BY <1>12 DEF LockTransfer, Lock, Free, Goto
  <1>13. ASSUME NEW c \in Client, TakeSlot(c) PROVE DueInv'
    BY <1>13 DEF TakeSlot, Goto
  <1>14. ASSUME NEW c \in Client, EndWrite(c) PROVE DueInv'
    BY <1>14 DEF EndWrite, Renew, Return
  <1>15. ASSUME NEW c \in Client, Publish(c) PROVE DueInv'
    BY <1>15 DEF Publish, SetState, Renew, Goto
  <1>16. ASSUME NEW c \in Client, EndPublish(c) PROVE DueInv'
    BY <1>16 DEF EndPublish, SetState, Renew, Return
  <1>17. ASSUME NEW c \in Client, Cancel(c) PROVE DueInv'
    BY <1>17 DEF Cancel, SetState, Renew, Return
  <1>18. ASSUME NEW c \in Client, Answer(c) PROVE DueInv'
    BY <1>18 DEF Answer, Return
  <1>19. ASSUME NEW u \in Transfer, Expire(u) PROVE DueInv'
    BY <1>19 DEF Expire
  <1>20. ASSUME UNCHANGED vars PROVE DueInv'
    BY <1>20 DEF vars
  <1> QED
    BY <1>1, <1>2, <1>3, <1>4, <1>5, <1>6, <1>7, <1>8, <1>9, <1>10, <1>11, <1>12, <1>13,
       <1>14, <1>15, <1>16, <1>17, <1>18, <1>19, <1>20
    DEF Next, Scanning, Creating, Handling

-----------------------------------------------------------------------------
(* The invariant and the theorems *)

IInv ==
    /\ TypeOK /\ MutexInv /\ OpInv /\ StateInv /\ MakingInv /\ CountInv
    /\ QuotaInv /\ SlotInv /\ DueInv

LEMMA InitIInv == Init => IInv
  <1> SUFFICES ASSUME Init PROVE IInv
    OBVIOUS
  <1>1. TypeOK /\ MutexInv /\ OpInv /\ StateInv /\ MakingInv /\ CountInv /\ DueInv
    BY GoroutineAssumption
    DEF Init, Goroutine, TypeOK, MutexInv, OpInv, StateInv, MakingInv, CountInv, Reaping, Holding,
        Working, Unfinished, DueInv
  <1>2. QuotaInv
    <2>1. Claimed = {} /\ Bytes({}) = {}
      BY DEF Init, Claimed, Bytes
    <2> QED
      BY <2>1, FS_EmptySet, LimitAssumption DEF QuotaInv
  <1>3. SlotInv
    <2>1. {c \in Client : pc[c] = "writing"} = {}
      BY DEF Init, Goroutine
    <2> QED
      BY <2>1, FS_EmptySet, LimitAssumption DEF Init, SlotInv
  <1> QED
    BY <1>1, <1>2, <1>3 DEF IInv

LEMMA SpecIInv == Spec => []IInv
  <1>1. IInv /\ [Next]_vars => IInv'
    BY NextType, NextMutex, NextOp, NextState, NextMaking, NextCount, NextQuota, NextSlots, NextDue
    DEF IInv
  <1> QED
    BY <1>1, InitIInv, PTL DEF Spec

\* Every variable keeps its type: no slot is given back twice.
THEOREM TypeCorrect == Spec => []TypeOK
  <1>1. IInv => TypeOK
    BY DEF IInv
  <1> QED
    BY <1>1, SpecIInv, PTL

\* Create admits no transfer beyond maxActiveTransfers, though the manifests
\* it counts change while it counts them.
THEOREM ActiveStaysWithinLimit == Spec => []ActiveWithinLimit
  <1>1. ASSUME IInv PROVE ActiveWithinLimit
    <2>1. Reserved \in SUBSET Claimed /\ Claimed \in SUBSET Transfer
      BY DEF Reserved, Claimed, Unfinished
    <2>2. Cardinality(Reserved) <= Cardinality(Claimed)
          /\ Cardinality(Reserved) \in Nat /\ Cardinality(Claimed) \in Nat
      BY <2>1, TransferAssumption, FS_Subset, FS_CardinalityType
    <2> QED
      BY <1>1, <2>2, LimitAssumption DEF IInv, QuotaInv, ActiveWithinLimit
  <1> QED
    BY <1>1, SpecIInv, PTL

\* The same for the bytes the unfinished transfers may still write.
THEOREM BytesStayWithinLimit == Spec => []BytesWithinLimit
  <1>1. ASSUME IInv PROVE BytesWithinLimit
    <2>1. Reserved \in SUBSET Claimed /\ Claimed \in SUBSET Transfer
      BY DEF Reserved, Claimed, Unfinished
    <2>2. Cardinality(Bytes(Reserved)) <= Cardinality(Bytes(Claimed))
          /\ Cardinality(Bytes(Reserved)) \in Nat /\ Cardinality(Bytes(Claimed)) \in Nat
      BY <2>1, BytesMonotonic, BytesFinite
    <2> QED
      BY <1>1, <2>2, LimitAssumption DEF IInv, QuotaInv, BytesWithinLimit
  <1> QED
    BY <1>1, SpecIInv, PTL

\* No two goroutines work on one transfer, whatever stripes the transfers
\* share, and no scan meets the directory of a transfer without its manifest.
THEOREM PartialStaysPrivate == Spec => []PartialIsPrivate
  <1>1. ASSUME IInv PROVE PartialIsPrivate
    <2>1. ASSUME NEW g \in Goroutine, NEW h \in Goroutine, g # h, Working(g), Working(h)
          PROVE  on[g] # on[h]
      BY <1>1, <2>1, OneHolding DEF IInv, Holding
    <2>2. ASSUME NEW g \in Goroutine, NEW u \in entries, pc[g] \in {"scanning", "counting"},
                 state[u] = "making"
          PROVE  FALSE
      <3>1. PICK h \in Goroutine : pc[h] = "saving" /\ on[h] = u
        BY <1>1, <2>2 DEF IInv, MakingInv, TypeOK
      <3> QED
        BY <1>1, <2>2, <3>1, OneReaping DEF IInv, Reaping
    <2> QED
      BY <2>1, <2>2 DEF PartialIsPrivate
  <1> QED
    BY <1>1, SpecIInv, PTL

\* A slot is one body: none is lost by a request that fails, none is given
\* twice, and there are never more bodies than maxConcurrentParts.
THEOREM SlotsStayBodies == Spec => []SlotsAreBodies
  <1>1. IInv => SlotsAreBodies
    BY DEF IInv, SlotInv, SlotsAreBodies
  <1> QED
    BY <1>1, SpecIInv, PTL

\* Only VisitEntry and a Create that fails leave no manifest behind.
LEMMA RemovalIsVisit ==
  ASSUME TypeOK, OpInv, StateInv, [Next]_vars, NEW u \in Transfer,
         state[u] \notin {"none", "making"}, state'[u] = "none"
  PROVE  \E g \in Goroutine : VisitEntry(g, u) /\ u \in due
  BY GoroutineAssumption
  DEF Next, Scanning, Creating, Handling, TypeOK, OpInv, StateInv, Unfinished, Goroutine, SetState,
      vars, disk, Tick, ReapDone, Call, LockReap, VisitEntry, LockOwn, Count, Admit, Refuse, SaveNew,
      GiveUp, LockTransfer, TakeSlot, EndWrite, Publish, EndPublish, Cancel, Answer, Expire

\* A transfer is removed when it has expired, and under no request's hands.
THEOREM OnlyExpiredAreReaped == Spec => ReapsOnlyExpired
  <1>1. ASSUME IInv, [Next]_vars, NEW u \in Transfer,
               state[u] \notin {"none", "making"}, state'[u] = "none"
        PROVE  stale[u] /\ \A c \in Client : Working(c) => on[c] # u
    <2>1. PICK g \in Goroutine : VisitEntry(g, u) /\ u \in due
      BY <1>1, RemovalIsVisit DEF IInv
    <2>2. stale[u]
      BY <1>1, <2>1 DEF IInv, DueInv
    <2>3. ASSUME NEW c \in Client, Working(c), on[c] = u PROVE FALSE
      BY <1>1, <2>1, <2>3, HeldIsNotFree DEF IInv, VisitEntry, Holding, Goroutine
    <2> QED
      BY <2>2, <2>3
  <1>2. IInv /\ [Next]_vars =>
          [\A u \in Transfer : state[u] \notin {"none", "making"} /\ state'[u] = "none" =>
              stale[u] /\ \A c \in Client : Working(c) => on[c] # u]_vars
    BY <1>1
  <1> QED
    BY <1>2, SpecIInv, PTL DEF Spec, ReapsOnlyExpired

\* Every transfer that had expired is gone before Create counts.
THEOREM RefusalsAreEarned == Spec => RefusalIsEarned
  <1>1. IInv => [\A c \in Client : pc[c] = "counting" /\ Refuse(c) => counted \cap due = {}]_vars
    BY DEF IInv, DueInv, Goroutine
  <1> QED
    BY <1>1, SpecIInv, PTL DEF RefusalIsEarned

-----------------------------------------------------------------------------
(* Nobody waits in a circle, and every call is a bounded number of steps:  *)
(* what CallsEnd needs besides fairness.                                   *)

\* Who holds a lock is at a step that needs it.
HolderInv ==
    /\ reapMu # None => Reaping(reapMu)
    /\ \A s \in Stripe : locks[s] # None => Holding(locks[s]) /\ LockFor[on[locks[s]]] = s

\* The lock of transfer u is what g needs next: for its call, for an entry of its
\* scan, or to create u.
Needs(g, u) ==
    \/ pc[g] = "waiting" /\ u = on[g]
    \/ pc[g] = "scanning" /\ u \in entries
    \/ pc[g] = "scanning" /\ g # Reaper /\ entries = {} /\ u = on[g]

WaitsFor(g, h) ==
    \/ pc[g] = "queueing" /\ reapMu = h
    \/ \E u \in Transfer : Needs(g, u) /\ locks[LockFor[u]] = h

\* A lock is waited for by nobody who has it, and who is waited for waits for at
\* most one more, who waits for none.
NoCircularWait ==
    /\ \A g \in Goroutine : ~WaitsFor(g, g)
    /\ \A g, h, k \in Goroutine : WaitsFor(g, h) /\ WaitsFor(h, k) =>
          pc[g] = "queueing" /\ reapMu = h /\ \A l \in Goroutine : ~WaitsFor(k, l)

\* Steps(g) is enabled, as TLC finds of every state of the instance of store_live.
CanMove(g) ==
    \/ pc[g] = "queueing" /\ reapMu = None
    \/ \E u \in Transfer : Needs(g, u) /\ Free(u)
    \/ g = Reaper /\ pc[g] = "scanning" /\ entries = {}
    \/ pc[g] \in {"counting", "saving", "answering", "writing", "publishing"}
    \/ pc[g] = "ready" /\ op[g] \in {"write", "complete", "cancel"}

SomebodyMoves ==
    \A g \in Goroutine : pc[g] # "idle" =>
        \/ CanMove(g)
        \/ \E h \in Goroutine : WaitsFor(g, h) /\ (CanMove(h) \/ \E k \in Goroutine : WaitsFor(h, k) /\ CanMove(k))

\* An upper bound of the steps that g's call has still to take.
Left(g) ==
    CASE pc[g] = "queueing" -> 2 * Cardinality(Transfer) + 4
      [] pc[g] = "scanning" -> Cardinality(Transfer) + Cardinality(entries) + 3
      [] pc[g] = "counting" -> Cardinality(entries) + 2
      [] pc[g] = "waiting" -> 3
      [] pc[g] = "ready" -> 2
      [] pc[g] \in {"saving", "answering", "writing", "publishing"} -> 1
      [] pc[g] = "idle" -> 0

Steps(g) == Scanning(g) \/ IF g = Reaper THEN ReapDone ELSE Creating(g) \/ GiveUp(g) \/ Handling(g)

\* No call goes in circles: each of its steps brings it closer to its end, and
\* nobody else's step takes it back.
CallsAreBounded ==
    [][\A g \in Goroutine : pc[g] # "idle" => IF Steps(g) THEN Left(g)' < Left(g) ELSE Left(g)' = Left(g)]_vars

LEMMA NextHolder ==
  ASSUME TypeOK, OpInv, MutexInv, HolderInv, [Next]_vars
  PROVE  HolderInv'
  <1> USE GoroutineAssumption, LockAssumption, TransferAssumption
      DEF Goroutine, TypeOK, OpInv, MutexInv, HolderInv, Reaping, Holding, Working, mutexes, disk,
          scan, local
  <1>1. ASSUME Tick PROVE HolderInv'
    BY <1>1 DEF Tick
  <1>2. ASSUME ReapDone PROVE HolderInv'
    BY <1>2 DEF ReapDone, Return
  <1>3. ASSUME NEW c \in Client, NEW call \in Calls, NEW u \in Transfer, Call(c, call, u) PROVE HolderInv'
    BY <1>3 DEF Call, Calls
  <1>4. ASSUME NEW g \in Goroutine, LockReap(g) PROVE HolderInv'
    BY <1>4 DEF LockReap, Goto, Present
  <1>5. ASSUME NEW g \in Goroutine, NEW u \in Transfer, VisitEntry(g, u) PROVE HolderInv'
    BY <1>5 DEF VisitEntry, Free
  <1>6. ASSUME NEW c \in Client, LockOwn(c) PROVE HolderInv'
    BY <1>6 DEF LockOwn, Lock, Free, Goto, Present
  <1>7. ASSUME NEW c \in Client, NEW u \in Transfer, Count(c, u) PROVE HolderInv'
    BY <1>7 DEF Count
  <1>8. ASSUME NEW c \in Client, Admit(c) PROVE HolderInv'
    BY <1>8 DEF Admit, SetState, Goto
  <1>9. ASSUME NEW c \in Client, Refuse(c) PROVE HolderInv'
    BY <1>9 DEF Refuse, Return
  <1>10. ASSUME NEW c \in Client, SaveNew(c) PROVE HolderInv'
    BY <1>10 DEF SaveNew, Return
  <1>11. ASSUME NEW c \in Client, GiveUp(c) PROVE HolderInv'
    BY <1>11 DEF GiveUp, Return
  <1>12. ASSUME NEW c \in Client, LockTransfer(c) PROVE HolderInv'
    BY <1>12 DEF LockTransfer, Lock, Free, Goto
  <1>13. ASSUME NEW c \in Client, TakeSlot(c) PROVE HolderInv'
    BY <1>13 DEF TakeSlot, Goto
  <1>14. ASSUME NEW c \in Client, EndWrite(c) PROVE HolderInv'
    BY <1>14 DEF EndWrite, Renew, Return
  <1>15. ASSUME NEW c \in Client, Publish(c) PROVE HolderInv'
    BY <1>15 DEF Publish, SetState, Renew, Goto
  <1>16. ASSUME NEW c \in Client, EndPublish(c) PROVE HolderInv'
    BY <1>16 DEF EndPublish, SetState, Renew, Return
  <1>17. ASSUME NEW c \in Client, Cancel(c) PROVE HolderInv'
    BY <1>17 DEF Cancel, SetState, Renew, Return
  <1>18. ASSUME NEW c \in Client, Answer(c) PROVE HolderInv'
    BY <1>18 DEF Answer, Return
  <1>19. ASSUME NEW u \in Transfer, Expire(u) PROVE HolderInv'
    BY <1>19 DEF Expire
  <1>20. ASSUME UNCHANGED vars PROVE HolderInv'
    BY <1>20 DEF vars
  <1> QED
    BY <1>1, <1>2, <1>3, <1>4, <1>5, <1>6, <1>7, <1>8, <1>9, <1>10, <1>11, <1>12, <1>13,
       <1>14, <1>15, <1>16, <1>17, <1>18, <1>19, <1>20
    DEF Next, Scanning, Creating, Handling

LEMMA SpecHolder == Spec => []HolderInv
  <1>1. Init => HolderInv
    BY DEF Init, HolderInv
  <1>2. IInv /\ HolderInv /\ [Next]_vars => HolderInv'
    BY NextHolder DEF IInv
  <1> QED
    BY <1>1, <1>2, SpecIInv, PTL DEF Spec

\* Who waits for a transfer's lock waits for somebody who waits for none.
LEMMA HolderMoves ==
  ASSUME TypeOK, OpInv, HolderInv, NEW h \in Goroutine, Holding(h)
  PROVE  CanMove(h) /\ \A k \in Goroutine : ~WaitsFor(h, k)
  <1>1. pc[h] \in {"counting", "saving", "answering", "ready", "writing", "publishing"}
    BY DEF Holding, Working
  <1>2. pc[h] = "ready" => op[h] \in {"write", "complete", "cancel"}
    BY DEF OpInv, Goroutine, Calls
  <1> QED
    BY <1>1, <1>2 DEF CanMove, WaitsFor, Needs

LEMMA NeededIsHeld ==
  ASSUME TypeOK, HolderInv, NEW g \in Goroutine, NEW u \in Transfer, Needs(g, u), ~Free(u)
  PROVE  LET h == locks[LockFor[u]] IN h \in Goroutine /\ Holding(h) /\ WaitsFor(g, h)
  BY LockAssumption DEF TypeOK, HolderInv, Free, WaitsFor

LEMMA ScanMoves ==
  ASSUME TypeOK, OpInv, HolderInv, NEW g \in Goroutine, pc[g] \in {"scanning", "waiting"}
  PROVE  CanMove(g) \/ \E h \in Goroutine : WaitsFor(g, h) /\ CanMove(h)
  <1>1. CASE \E u \in Transfer : Needs(g, u)
    BY <1>1, NeededIsHeld, HolderMoves DEF CanMove
  <1>2. CASE ~\E u \in Transfer : Needs(g, u)
    <2>1. g = Reaper /\ pc[g] = "scanning" /\ entries = {}
      BY <1>2 DEF Needs, TypeOK, OpInv, Goroutine
    <2> QED
      BY <2>1 DEF CanMove
  <1> QED
    BY <1>1, <1>2

\* However the requests, the reaper and slow bodies cross, and whatever stripes the
\* transfers share: nobody waits in a circle, and who waits waits for somebody
\* who can go on, or whose lock is held by somebody who can.
THEOREM LocksAreOrdered == Spec => [](NoCircularWait /\ SomebodyMoves)
  <1>1. ASSUME IInv, HolderInv PROVE NoCircularWait
    <2> USE <1>1 DEF IInv
    <2>1. ASSUME NEW g \in Goroutine, NEW h \in Goroutine, WaitsFor(g, h)
          PROVE  \/ pc[g] = "queueing" /\ reapMu = h /\ Reaping(h)
                 \/ pc[g] \in {"waiting", "scanning"} /\ Holding(h)
      BY <2>1, GoroutineAssumption, LockAssumption DEF WaitsFor, Needs, HolderInv
    <2>2. ASSUME NEW g \in Goroutine PROVE ~WaitsFor(g, g)
      BY <2>1 DEF Reaping, Holding, Working
    <2>3. ASSUME NEW g \in Goroutine, NEW h \in Goroutine, NEW k \in Goroutine,
                 WaitsFor(g, h), WaitsFor(h, k)
          PROVE  pc[g] = "queueing" /\ reapMu = h /\ \A l \in Goroutine : ~WaitsFor(k, l)
      <3>1. ~Holding(h)
        BY <2>3, HolderMoves
      <3>2. pc[g] = "queueing" /\ reapMu = h /\ Reaping(h)
        BY <2>1, <2>3, <3>1
      <3>3. Holding(k)
        BY <2>1, <2>3, <3>2 DEF Reaping
      <3> QED
        BY <3>2, <3>3, HolderMoves
    <2> QED
      BY <2>2, <2>3 DEF NoCircularWait
  <1>2. ASSUME IInv, HolderInv PROVE SomebodyMoves
    <2> USE <1>2 DEF IInv
    <2> SUFFICES ASSUME NEW g \in Goroutine, pc[g] # "idle"
                 PROVE  \/ CanMove(g)
                        \/ \E h \in Goroutine : WaitsFor(g, h) /\
                              (CanMove(h) \/ \E k \in Goroutine : WaitsFor(h, k) /\ CanMove(k))
      BY DEF SomebodyMoves
    <2>1. CASE pc[g] \in {"scanning", "waiting"}
      BY <2>1, ScanMoves
    <2>2. CASE pc[g] = "queueing"
      <3>1. CASE reapMu = None
        BY <2>2, <3>1 DEF CanMove
      <3>2. CASE reapMu # None
        <4>1. reapMu \in Goroutine /\ Reaping(reapMu) /\ WaitsFor(g, reapMu)
          BY <2>2, <3>2 DEF TypeOK, HolderInv, WaitsFor
        <4>2. CASE pc[reapMu] = "scanning"
          BY <4>1, <4>2, ScanMoves
        <4>3. CASE pc[reapMu] # "scanning"
          BY <4>1, <4>3 DEF Reaping, CanMove
        <4> QED
          BY <4>2, <4>3
      <3> QED
        BY <3>1, <3>2
    <2>3. CASE pc[g] \notin {"scanning", "waiting", "queueing"}
      <3>1. Holding(g)
        BY <2>3 DEF TypeOK, Holding, Working
      <3> QED
        BY <3>1, HolderMoves
    <2> QED
      BY <2>1, <2>2, <2>3
  <1> QED
    BY <1>1, <1>2, SpecIInv, SpecHolder, PTL


\* Only who holds reapMu counts on the entries.
Scans(g) == pc[g] \in {"scanning", "counting"}
Others(g) == \A h \in Goroutine : h # g => pc'[h] = pc[h] /\ (Scans(h) => entries' = entries)

LEMMA Amounts ==
  ASSUME TypeOK
  PROVE  /\ Cardinality(Transfer) \in Nat /\ Cardinality(entries) \in Nat
         /\ Cardinality(entries) <= Cardinality(Transfer)
         /\ \A u \in entries : Cardinality(entries \ {u}) = Cardinality(entries) - 1
  BY TransferAssumption, FS_Subset, FS_CardinalityType, FS_RemoveElement DEF TypeOK

\* A step of g's call goes one step on and is seen by nobody else's.
LEMMA StepGoesOn ==
  ASSUME IInv, IInv', NEW g \in Goroutine, Steps(g)
  PROVE  pc[g] # "idle" /\ Left(g)' < Left(g) /\ Others(g)
  <1> DEFINE N == Cardinality(Transfer)
             E == Cardinality(entries)
  <1>0. /\ N \in Nat /\ E \in Nat /\ E <= N /\ E' \in Nat /\ E' <= N
        /\ \A u \in entries : Cardinality(entries \ {u}) = E - 1
    <2>1. N' = N
      OBVIOUS
    <2>2. TypeOK /\ TypeOK'
      BY DEF IInv
    <2>3. /\ Cardinality(Transfer) \in Nat /\ Cardinality(entries) \in Nat
          /\ Cardinality(entries) <= Cardinality(Transfer)
          /\ \A u \in entries : Cardinality(entries \ {u}) = Cardinality(entries) - 1
      BY <2>2, Amounts
    <2>4. Cardinality(entries') \in Nat /\ Cardinality(entries') <= Cardinality(Transfer)
      BY <2>2, TransferAssumption, FS_Subset, FS_CardinalityType DEF TypeOK
    <2> QED
      BY <2>3, <2>4
  <1>a. TypeOK /\ OpInv /\ MutexInv
    BY DEF IInv
  <1>b. \A h \in Goroutine : h # g /\ (reapMu = None \/ reapMu = g) => ~Scans(h)
    BY <1>a, GoroutineAssumption DEF MutexInv, Reaping, Scans, Goroutine
  <1>1. ASSUME LockReap(g) PROVE pc[g] # "idle" /\ Left(g)' < Left(g) /\ Others(g)
    <2>1. pc[g] = "queueing" /\ pc'[g] = "scanning" /\ \A h \in Goroutine : h # g => pc'[h] = pc[h]
      BY <1>a, <1>1 DEF LockReap, Goto, TypeOK
    <2>2. Left(g) = 2 * N + 4 /\ Left(g)' = N + E' + 3
      BY <2>1 DEF Left
    <2>3. Others(g)
      BY <1>1, <1>b, <2>1 DEF LockReap, Others
    <2> QED
      BY <1>0, <2>1, <2>2, <2>3
  <1>2. ASSUME NEW u \in Transfer, VisitEntry(g, u) PROVE pc[g] # "idle" /\ Left(g)' < Left(g) /\ Others(g)
    <2>1. pc[g] = "scanning" /\ pc' = pc /\ u \in entries /\ entries' = entries \ {u}
      BY <1>2 DEF VisitEntry, local
    <2>2. Left(g) = N + E + 3 /\ Left(g)' = N + E' + 3 /\ E' = E - 1
      BY <1>0, <2>1 DEF Left
    <2>3. reapMu = g
      BY <1>a, <2>1 DEF MutexInv, Reaping
    <2>4. Others(g)
      BY <1>b, <2>1, <2>3 DEF Others
    <2> QED
      BY <1>0, <2>1, <2>2, <2>4
  <1>3. ASSUME g \in Client, LockOwn(g) PROVE pc[g] # "idle" /\ Left(g)' < Left(g) /\ Others(g)
    <2>1. /\ pc[g] = "scanning" /\ pc'[g] \in {"counting", "answering"}
          /\ \A h \in Goroutine : h # g => pc'[h] = pc[h]
      BY <1>a, <1>3 DEF LockOwn, Goto, TypeOK
    <2>2. Left(g) = N + E + 3 /\ Left(g)' <= E' + 2
      BY <1>0, <2>1 DEF Left
    <2>3. reapMu = g
      BY <1>a, <2>1 DEF MutexInv, Reaping
    <2>4. Others(g)
      BY <1>b, <2>1, <2>3 DEF Others
    <2>5. Left(g)' \in Nat
      BY <1>0, <2>1 DEF Left
    <2> QED
      BY <1>0, <2>1, <2>2, <2>4, <2>5
  <1>4. ASSUME g \in Client, NEW u \in Transfer, Count(g, u) PROVE pc[g] # "idle" /\ Left(g)' < Left(g) /\ Others(g)
    <2>1. pc[g] = "counting" /\ pc' = pc /\ u \in entries /\ entries' = entries \ {u}
      BY <1>4 DEF Count, local
    <2>2. Left(g) = E + 2 /\ Left(g)' = E' + 2 /\ E' = E - 1
      BY <1>0, <2>1 DEF Left
    <2>3. reapMu = g
      BY <1>a, <2>1 DEF MutexInv, Reaping
    <2>4. Others(g)
      BY <1>b, <2>1, <2>3 DEF Others
    <2> QED
      BY <1>0, <2>1, <2>2, <2>4
  <1>5. ASSUME \/ g = Reaper /\ ReapDone
               \/ g \in Client /\ (Admit(g) \/ Refuse(g) \/ SaveNew(g) \/ GiveUp(g) \/ Handling(g))
        PROVE  pc[g] # "idle" /\ Left(g)' < Left(g) /\ Others(g)
    <2>1. entries' = entries /\ \A h \in Goroutine : h # g => pc'[h] = pc[h]
      BY <1>a, <1>5 DEF ReapDone, Admit, Refuse, SaveNew, GiveUp, Handling, LockTransfer, TakeSlot, EndWrite,
         Publish, EndPublish, Cancel, Answer, Return, Goto, Renew, scan, TypeOK
    <2>2. \/ pc[g] \in {"scanning", "counting"} /\ pc'[g] \in {"idle", "saving"}
          \/ pc[g] = "waiting" /\ pc'[g] \in {"ready", "answering"}
          \/ pc[g] = "ready" /\ pc'[g] \in {"writing", "publishing", "answering", "idle"}
          \/ pc[g] \in {"saving", "answering", "writing", "publishing"} /\ pc'[g] = "idle"
      BY <1>a, <1>5 DEF ReapDone, Admit, Refuse, SaveNew, GiveUp, Handling, LockTransfer, TakeSlot, EndWrite,
         Publish, EndPublish, Cancel, Answer, Return, Goto, TypeOK
    <2>3. Left(g)' < Left(g)
      BY <1>0, <2>2 DEF Left
    <2> QED
      BY <2>1, <2>2, <2>3 DEF Others
  <1> QED
    BY <1>1, <1>2, <1>3, <1>4, <1>5 DEF Steps, Scanning, Creating, Goroutine

LEMMA OthersStay ==
  ASSUME NEW g \in Goroutine, NEW h \in Goroutine, h # g, Others(g)
  PROVE  Left(h)' = Left(h)
  <1>1. pc'[h] = pc[h] /\ (Scans(h) => entries' = entries)
    BY DEF Others
  <1>2. CASE Scans(h)
    BY <1>1, <1>2 DEF Left
  <1>3. CASE ~Scans(h)
    BY <1>1, <1>3 DEF Left, Scans
  <1> QED
    BY <1>2, <1>3

\* For any number of transfers, locks and goroutines a call takes at most
\* Left steps once it is there: a pass of the reaper meets each entry once, and so do the
\* scan and the count of a Create, whatever others make or renew meanwhile.
THEOREM CallsStayBounded == Spec => CallsAreBounded
  <1>1. ASSUME IInv, IInv', Next, NEW g \in Goroutine, pc[g] # "idle"
        PROVE  IF Steps(g) THEN Left(g)' < Left(g) ELSE Left(g)' = Left(g)
    <2>1. CASE Steps(g)
      BY <1>1, <2>1, StepGoesOn
    <2>2. ASSUME NEW h \in Goroutine, Steps(h), ~Steps(g) PROVE Left(g)' = Left(g)
      <3>1. h # g /\ Others(h)
        BY <1>1, <2>2, StepGoesOn
      <3> QED
        BY <3>1, OthersStay
    <2>3. ASSUME \/ Tick \/ \E c \in Client, call \in Calls, u \in Transfer : Call(c, call, u)
                 \/ \E u \in Transfer : Expire(u)
          PROVE  Left(g)' = Left(g)
      <3>0. TypeOK /\ pc[g] # "idle"
        BY <1>1 DEF IInv
      <3>a. ASSUME Tick PROVE pc'[g] = pc[g] /\ entries' = entries
        BY <3>0, <3>a DEF Tick, scan, TypeOK
      <3>b. ASSUME NEW c \in Client, NEW call \in Calls, NEW u \in Transfer, Call(c, call, u)
            PROVE  pc'[g] = pc[g] /\ entries' = entries
        BY <3>0, <3>b DEF Call, scan, TypeOK
      <3>c. ASSUME NEW u \in Transfer, Expire(u) PROVE pc'[g] = pc[g] /\ entries' = entries
        BY <3>c DEF Expire, scan, local
      <3>1. pc'[g] = pc[g] /\ entries' = entries
        BY <2>3, <3>a, <3>b, <3>c
      <3> QED
        BY <3>1 DEF Left
    <2>4. CASE ~Steps(g) /\ \E h \in Goroutine : Steps(h)
      BY <2>2, <2>4
    <2>5. \/ \E h \in Goroutine : Steps(h)
          \/ Tick \/ \E c \in Client, call \in Calls, u \in Transfer : Call(c, call, u)
          \/ \E u \in Transfer : Expire(u)
      BY <1>1, GoroutineAssumption DEF Next, Steps, Goroutine
    <2>6. CASE ~Steps(g) /\ ~\E h \in Goroutine : Steps(h)
      <3>1. Left(g)' = Left(g)
        BY <2>3, <2>5, <2>6
      <3> QED
        BY <2>6, <3>1
    <2> QED
      BY <2>1, <2>4, <2>6
  <1>2. IInv /\ IInv' /\ [Next]_vars =>
          [\A g \in Goroutine : pc[g] # "idle" => IF Steps(g) THEN Left(g)' < Left(g) ELSE Left(g)' = Left(g)]_vars
    BY <1>1
  <1> QED
    BY <1>2, SpecIInv, PTL DEF Spec, CallsAreBounded

=============================================================================
