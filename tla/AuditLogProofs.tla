--------------------------- MODULE AuditLogProofs ---------------------------
(***************************************************************************)
(* Proofs about AuditLog, for any number of rotations and any size.        *)
(*                                                                         *)
(* A rotation loses nothing but the oldest file because the files are in   *)
(* order (FilesInOrder) and because the place a file is renamed to is free *)
(* (PlaceInv); the newest record is safe because a file that is rotated    *)
(* holds one (RotationInv).  How much is kept is a matter of age: each     *)
(* file is at least as many full files old as its number says, less the    *)
(* places that rotations cut short have left free (AgeInv).                *)
(***************************************************************************)
EXTENDS AuditLog, FiniteSetTheorems, TLAPS

\* The files are in order, the newest records in audit.jsonl.
FilesInOrder ==
    /\ \A i \in 1..Rotations : \A r \in rotated[i], s \in log : r < s
    /\ \A i, j \in 1..Rotations : i < j =>
          \A r \in rotated[j], s \in rotated[i] : r < s

\* The next rename overwrites nothing.
PlaceInv ==
    /\ pc = "shifting" => index < Rotations /\ rotated[index + 1] = {}
    /\ pc = "promoting" => rotated[1] = {}

\* What is rotated is not empty, and ends with a whole line.
RotationInv ==
    /\ pc \in Rotating \cup {"removing"} => log # {}
    /\ torn => pc \in {"down", "opening", "broken"}

IInv == TypeOK /\ FilesInOrder /\ PlaceInv /\ RotationInv /\ TrailIsSuffix /\ AuditReadable

-----------------------------------------------------------------------------

LEMMA InitIInv == Init => IInv
  <1> SUFFICES ASSUME Init PROVE IInv
    OBVIOUS
  <1>1. TypeOK
    <2>1. 1 \in 1..Rotations /\ 0 \in 0..Rotations /\ 0 \in Nat
      BY SizeAssumption
    <2>2. rotated \in [1..Rotations -> SUBSET (1..count)]
      BY DEF Init
    <2> QED
      BY <2>1, <2>2 DEF Init, TypeOK
  <1>2. Retained = {}
    BY DEF Init, Retained
  <1>3. FilesInOrder /\ PlaceInv /\ RotationInv /\ AuditReadable
    BY DEF Init, FilesInOrder, PlaceInv, RotationInv, AuditReadable, Rotating
  <1>4. TrailIsSuffix
    BY <1>2 DEF Init, TrailIsSuffix
  <1> QED
    BY <1>1, <1>3, <1>4 DEF IInv

\* Steps that leave the files alone.
QuietStep == Start \/ Repair \/ Record \/ Reopen \/ RotationFails \/ Stop

LEMMA QuietKeepsFiles == QuietStep => UNCHANGED <<log, rotated, mangled, index, count>>
  BY DEF QuietStep, Start, Repair, Record, Reopen, RotationFails, Stop, disk

LEMMA FullIsNotEmpty ==
  ASSUME log = {}
  PROVE  ~(Cardinality(log) >= Capacity)
  BY SizeAssumption, FS_EmptySet

LEMMA QuietStepInv ==
  ASSUME IInv, QuietStep
  PROVE  IInv'
  <1>1. FilesInOrder' /\ TrailIsSuffix'
    <2>1. Retained' = Retained
      BY QuietKeepsFiles DEF Retained
    <2> QED
      BY <2>1, QuietKeepsFiles DEF IInv, FilesInOrder, TrailIsSuffix
  <1>2. TypeOK'
    <2>1. cut' \in 0..Rotations
      <3>1. cut \in 0..Rotations
        BY DEF IInv, TypeOK
      <3>2. CASE NoteCut
        BY <3>1, <3>2, SizeAssumption DEF NoteCut
      <3>3. CASE cut' = cut
        BY <3>1, <3>3
      <3> QED
        BY <3>2, <3>3 DEF QuietStep, Start, Repair, Record, Reopen, RotationFails, Stop
    <2>2. /\ torn' \in BOOLEAN
          /\ pc' \in {"down", "opening", "refused", "open", "appending", "broken", "removing"}
      BY DEF IInv, TypeOK, QuietStep, Start, Repair, Record, Reopen, RotationFails, Stop, disk
    <2> QED
      BY <2>1, <2>2, QuietKeepsFiles DEF IInv, TypeOK
  <1>3. PlaceInv'
    BY DEF IInv, PlaceInv, QuietStep, Start, Repair, Record, Reopen, RotationFails, Stop, disk
  <1>4. RotationInv' /\ AuditReadable'
    <2>1. CASE Start \/ Reopen \/ RotationFails
      BY <2>1 DEF IInv, RotationInv, AuditReadable, Rotating, Start, Reopen, RotationFails, disk
    <2>2. CASE Repair
      BY <2>2 DEF IInv, RotationInv, AuditReadable, Rotating, Repair
    <2>3. CASE Record
      BY <2>3, FullIsNotEmpty DEF IInv, RotationInv, AuditReadable, Rotating, Record, disk
    <2>4. CASE Stop
      BY <2>4 DEF IInv, RotationInv, AuditReadable, Rotating, Stop
    <2> QED
      BY <2>1, <2>2, <2>3, <2>4 DEF QuietStep
  <1> QED
    BY <1>1, <1>2, <1>3, <1>4 DEF IInv

\* A record is written behind all others.
LEMMA WrittenKeepsFiles ==
  ASSUME TypeOK, FilesInOrder, TrailIsSuffix, Written
  PROVE  FilesInOrder' /\ TrailIsSuffix' /\ count' \in Nat
         /\ log' \subseteq 1..count' /\ rotated' \in [1..Rotations -> SUBSET (1..count')]
  <1>1. Retained' = Retained \cup {count + 1}
    BY DEF Written, Retained
  <1>2. count' \in Nat /\ 1..count' = 1..count \cup {count + 1}
    BY DEF TypeOK, Written
  <1>3. log' \subseteq 1..count' /\ rotated' \in [1..Rotations -> SUBSET (1..count')]
    BY <1>2 DEF TypeOK, Written
  <1>4. FilesInOrder'
    BY DEF TypeOK, Written, FilesInOrder
  <1>5. \A r \in Retained : r \in 1..count
    BY DEF TypeOK, Retained
  <1>6. TrailIsSuffix'
    BY <1>1, <1>5 DEF TypeOK, Written, TrailIsSuffix
  <1> QED
    BY <1>2, <1>3, <1>4, <1>6

LEMMA AppendInv ==
  ASSUME IInv, Append \/ AppendFails
  PROVE  IInv'
  <1>1. CASE Written
    <2>1. pc' \in {"open", "broken"} /\ index' = index /\ cut' = cut /\ ~torn /\ torn' = FALSE /\ mangled' = mangled
      BY <1>1 DEF IInv, TypeOK, RotationInv, Append, AppendFails, Written
    <2> QED
      BY <1>1, <2>1, WrittenKeepsFiles
      DEF IInv, TypeOK, PlaceInv, RotationInv, AuditReadable, Rotating
  <1>2. CASE AppendFails /\ torn' \in {torn, TRUE} /\ UNCHANGED <<log, rotated, mangled, count>>
    <2>1. Retained' = Retained
      BY <1>2 DEF Retained
    <2>2. pc' = "broken" /\ index' = index /\ cut' = cut /\ torn' \in BOOLEAN
      BY <1>2 DEF IInv, TypeOK, AppendFails
    <2> QED
      BY <1>2, <2>1, <2>2
      DEF IInv, TypeOK, FilesInOrder, TrailIsSuffix, PlaceInv, RotationInv, AuditReadable, Rotating
  <1> QED
    BY <1>1, <1>2 DEF Append, AppendFails

\* The oldest file goes, and every record in it is older than all others.
LEMMA RemoveInv ==
  ASSUME IInv, RemoveOldest
  PROVE  IInv'
  <1>1. TypeOK'
    BY SizeAssumption DEF IInv, TypeOK, RemoveOldest, Rotating
  <1>2. FilesInOrder'
    BY DEF IInv, TypeOK, RemoveOldest, FilesInOrder
  <1>3. PlaceInv' /\ RotationInv' /\ AuditReadable'
    BY SizeAssumption
    DEF IInv, TypeOK, RemoveOldest, PlaceInv, RotationInv, AuditReadable, Rotating
  <1>4. Retained' = Retained \ rotated[Rotations]
    <2>1. \A r \in rotated[Rotations] : r \notin log /\ \A i \in 1..Rotations : i # Rotations => r \notin rotated[i]
      BY SizeAssumption DEF IInv, TypeOK, FilesInOrder
    <2> QED
      BY <2>1, SizeAssumption DEF IInv, TypeOK, RemoveOldest, Retained
  <1>5. \A r \in Retained', s \in rotated[Rotations] : s < r
    <2>1. Rotations \in 1..Rotations
      BY SizeAssumption
    <2>2. ASSUME NEW s \in rotated[Rotations], NEW r \in log PROVE s < r
      BY <2>1, <2>2 DEF IInv, FilesInOrder
    <2>3. ASSUME NEW s \in rotated[Rotations], NEW i \in 1..Rotations,
                 NEW r \in rotated[i], r \notin rotated[Rotations]
          PROVE  s < r
      <3>1. i < Rotations
        BY <2>3, SizeAssumption
      <3> QED
        BY <2>1, <2>3, <3>1 DEF IInv, FilesInOrder
    <2> QED
      BY <1>4, <2>2, <2>3 DEF Retained
  <1>6. count \notin rotated[Rotations]
    <2>1. Rotations \in 1..Rotations /\ count \in Nat
      BY SizeAssumption DEF IInv, TypeOK
    <2>2. PICK s \in log : TRUE
      BY DEF IInv, RotationInv, RemoveOldest
    <2>3. s \in 1..count
      BY <2>2 DEF IInv, TypeOK
    <2>4. ASSUME count \in rotated[Rotations] PROVE FALSE
      <3>1. count < s
        BY <2>1, <2>2, <2>4 DEF IInv, FilesInOrder
      <3> QED
        BY <2>1, <2>3, <3>1
    <2> QED
      BY <2>4
  <1>7. TrailIsSuffix'
    <2>1. count' = count /\ \A r \in Retained : r \in Nat
      BY DEF RemoveOldest, IInv, TypeOK, Retained
    <2>2. ASSUME NEW r \in Retained', NEW s \in r..count PROVE s \in Retained'
      <3>1. r \in Retained /\ s \in Retained
        BY <1>4, <2>2 DEF IInv, TrailIsSuffix
      <3>2. s \notin rotated[Rotations]
        BY <1>5, <2>1, <2>2, <3>1
      <3> QED
        BY <1>4, <3>1, <3>2
    <2> QED
      BY <1>4, <1>6, <2>1, <2>2 DEF IInv, TrailIsSuffix
  <1> QED
    BY <1>1, <1>2, <1>3, <1>7 DEF IInv

\* A rename to a free place changes no record's file but for the number.
LEMMA ShiftInv ==
  ASSUME IInv, Shift
  PROVE  IInv'
  <1>1. index \in 1..Rotations /\ index < Rotations /\ index + 1 \in 1..Rotations
        /\ rotated[index + 1] = {}
    BY SizeAssumption DEF IInv, TypeOK, PlaceInv, Shift
  <1>2. rotated' = [rotated EXCEPT ![index + 1] = rotated[index], ![index] = {}]
    BY <1>1 DEF IInv, TypeOK, Shift, Rename
  <1>3. TypeOK'
    <2>1. rotated' \in [1..Rotations -> SUBSET (1..count)]
      BY <1>1, <1>2 DEF IInv, TypeOK
    <2>2. index' \in 1..Rotations
      BY <1>1, SizeAssumption DEF Shift
    <2>3. pc' \in Rotating
      BY DEF Shift, Rotating
    <2> QED
      BY <2>1, <2>2, <2>3 DEF IInv, TypeOK, Shift
  <1>4. Retained' = Retained
    <2>1. UNION {rotated'[i] : i \in 1..Rotations} = UNION {rotated[i] : i \in 1..Rotations}
      BY <1>1, <1>2 DEF IInv, TypeOK
    <2> QED
      BY <2>1 DEF Shift, Retained
  <1>5. FilesInOrder'
    BY <1>1, <1>2, SizeAssumption, SMTT(30) DEF IInv, TypeOK, FilesInOrder, Shift
  <1>6. PlaceInv'
    BY <1>1, <1>2, SizeAssumption DEF IInv, TypeOK, PlaceInv, Shift
  <1>7. RotationInv' /\ AuditReadable' /\ TrailIsSuffix'
    BY <1>4 DEF IInv, RotationInv, AuditReadable, TrailIsSuffix, Rotating, Shift
  <1> QED
    BY <1>3, <1>5, <1>6, <1>7 DEF IInv

LEMMA PromoteInv ==
  ASSUME IInv, Promote
  PROVE  IInv'
  <1>1. 1 \in 1..Rotations /\ rotated[1] = {} /\ ~torn
    BY SizeAssumption DEF IInv, PlaceInv, RotationInv, Promote
  <1>2. TypeOK'
    BY <1>1 DEF IInv, TypeOK, Promote
  <1>3. Retained' = Retained
    <2>1. UNION {rotated'[i] : i \in 1..Rotations} = log \cup UNION {rotated[i] : i \in 1..Rotations}
      BY <1>1 DEF IInv, TypeOK, Promote
    <2> QED
      BY <2>1 DEF Promote, Retained
  <1>4. FilesInOrder'
    BY <1>1 DEF IInv, TypeOK, FilesInOrder, Promote
  <1>5. PlaceInv' /\ RotationInv' /\ AuditReadable' /\ TrailIsSuffix'
    BY <1>1, <1>3 DEF IInv, PlaceInv, RotationInv, AuditReadable, TrailIsSuffix, Rotating, Promote
  <1> QED
    BY <1>2, <1>4, <1>5 DEF IInv

LEMMA SpecIInv == Spec => []IInv
  <1>1. ASSUME IInv, Next PROVE IInv'
    BY <1>1, QuietStepInv, AppendInv, RemoveInv, ShiftInv, PromoteInv DEF Next, QuietStep
  <1>2. ASSUME IInv, UNCHANGED vars PROVE IInv'
    BY <1>2
    DEF vars, disk, IInv, TypeOK, FilesInOrder, PlaceInv, RotationInv, TrailIsSuffix, AuditReadable,
        Retained, Rotating
  <1>3. IInv /\ [Next]_vars => IInv'
    BY <1>1, <1>2
  <1> QED
    BY <1>3, InitIInv, PTL DEF Spec

-----------------------------------------------------------------------------
(* What is kept: the age of records, in full files.                        *)

\* Records that were written to the files now numbered.
Base == count - Cardinality(log)

\* At least k full files, less c, are written behind r and numbered.
Behind(r, k, c) == r + k * Capacity <= Base + c * Capacity

\* Places that may be free below the file i: one for each rotation cut short,
\* and the one that the rotation under way has still to fill.
Free(i) == IF pc = "promoting" \/ (pc = "shifting" /\ index < i) THEN cut + 1 ELSE cut

\* A file is as old as its number says, what is gone is older than all of them,
\* and what is rotated is full.
AgeInv ==
    /\ \A i \in 1..Rotations : \A r \in rotated[i] : Behind(r, i - 1, Free(i))
    /\ \A r \in 1..count : r \notin Retained =>
          Behind(r, Rotations, IF pc \in Rotating THEN cut + 1 ELSE cut)
    /\ pc \in Rotating \cup {"removing"} => Cardinality(log) >= Capacity

LEMMA TimesCapacity ==
  /\ \A k \in Int : k * Capacity \in Int /\ (k + 1) * Capacity = k * Capacity + Capacity
  /\ \A k, n \in Int : k <= n => k * Capacity <= n * Capacity
  BY SizeAssumption, SMT

LEMMA LogIsFinite ==
  ASSUME TypeOK
  PROVE  /\ IsFiniteSet(log) /\ Cardinality(log) \in Nat /\ Cardinality(log) <= count
         /\ Base \in Int /\ Base <= count
  <1>1. IsFiniteSet(1..count) /\ Cardinality(1..count) = count
    BY FS_Interval DEF TypeOK
  <1>2. IsFiniteSet(log) /\ Cardinality(log) <= count
    <2>1. log \in SUBSET (1..count)
      BY DEF TypeOK
    <2> QED
      BY <1>1, <2>1, FS_Subset
  <1>3. Cardinality(log) \in Nat
    BY <1>2, FS_CardinalityType
  <1> QED
    BY <1>2, <1>3 DEF TypeOK, Base

LEMMA FreeIsNumber ==
  ASSUME TypeOK, NEW i \in Nat
  PROVE  Free(i) \in Nat /\ cut \in Nat /\ cut <= Free(i) /\ Free(i) <= cut + 1
  BY SizeAssumption DEF TypeOK, Free

\* What is older than audit.jsonl was in the files now numbered.
LEMMA OlderThanLog ==
  ASSUME TypeOK, NEW r \in 1..count, \A s \in log : r < s
  PROVE  r <= Base
  <1>1. log \in SUBSET ((r + 1)..count)
    BY DEF TypeOK
  <1>2. IsFiniteSet((r + 1)..count) /\ Cardinality((r + 1)..count) = count - r
    BY FS_Interval DEF TypeOK
  <1>3. Cardinality(log) <= count - r
    BY <1>1, <1>2, FS_Subset
  <1> QED
    BY <1>3, LogIsFinite DEF TypeOK, Base

LEMMA GoneIsOlder ==
  ASSUME TypeOK, TrailIsSuffix, NEW r \in 1..count, r \notin Retained
  PROVE  r <= Base
  <1>1. ASSUME NEW s \in log PROVE r < s
    <2>1. s \in Retained /\ s \in 1..count
      BY DEF TypeOK, Retained
    <2> QED
      BY <2>1 DEF TypeOK, TrailIsSuffix
  <1> QED
    BY <1>1, OlderThanLog

LEMMA BehindWeaker ==
  ASSUME TypeOK, NEW r \in Nat, NEW k \in Int, NEW c \in Int, NEW d \in Int,
         Behind(r, k, c), c <= d
  PROVE  Behind(r, k, d)
  <1>1. c * Capacity \in Int /\ d * Capacity \in Int /\ k * Capacity \in Int /\ c * Capacity <= d * Capacity
    BY TimesCapacity
  <1>2. \A a, b, e, f \in Int : a <= b + e /\ e <= f => a <= b + f
    OBVIOUS
  <1> QED
    BY <1>1, <1>2, LogIsFinite DEF Behind

\* All that is behind the number of files is behind nothing.
LEMMA BehindAll ==
  ASSUME TypeOK, NEW r \in Nat, r <= Base, NEW k \in Int, k <= Rotations
  PROVE  Behind(r, k, Rotations)
  <1>1. k * Capacity \in Int /\ Rotations * Capacity \in Int /\ k * Capacity <= Rotations * Capacity
    BY TimesCapacity, SizeAssumption
  <1>2. \A a, b, e, f \in Int : a <= b /\ e <= f => a + e <= b + f
    OBVIOUS
  <1> QED
    BY <1>1, <1>2, LogIsFinite DEF Behind

LEMMA RecordsAreNumbers ==
  ASSUME TypeOK
  PROVE  \A i \in 1..Rotations : \A r \in rotated[i] : r \in 1..count /\ r \in Nat
  BY DEF TypeOK

LEMMA InitAge == Init => AgeInv
  BY DEF Init, AgeInv, Rotating

\* A rotation that is cut short leaves one place free.
LEMMA CutAge ==
  ASSUME IInv, AgeInv, RotationFails \/ Stop
  PROVE  AgeInv'
  <1>0. TypeOK /\ TrailIsSuffix /\ FilesInOrder
    BY DEF IInv
  <1>1. /\ UNCHANGED <<log, rotated, count, index>> /\ NoteCut
        /\ pc' \notin Rotating \cup {"removing"}
    BY DEF RotationFails, Stop, disk, Rotating
  <1>2. Base' = Base /\ Retained' = Retained
    BY <1>1 DEF Base, Retained
  <1>3. \A i \in Nat : Free(i)' = cut'
    BY <1>1 DEF Free, Rotating
  <1>4. CASE cut' = Rotations
    <2>1. ASSUME NEW i \in 1..Rotations, NEW r \in rotated[i] PROVE Behind(r, i - 1, Rotations)
      <3>1. r \in 1..count /\ r \in Nat /\ \A s \in log : r < s
        BY <1>0, <2>1, RecordsAreNumbers DEF FilesInOrder
      <3>2. r <= Base
        BY <1>0, <3>1, OlderThanLog
      <3>3. i - 1 \in Int /\ i - 1 <= Rotations
        BY SizeAssumption
      <3> QED
        BY <1>0, <3>1, <3>2, <3>3, BehindAll
    <2>2. ASSUME NEW r \in 1..count, r \notin Retained PROVE Behind(r, Rotations, Rotations)
      BY <1>0, <2>2, GoneIsOlder, BehindAll, SizeAssumption DEF TypeOK
    <2> QED
      BY <1>1, <1>2, <1>3, <1>4, <2>1, <2>2 DEF AgeInv, Behind
  <1>5. CASE cut' # Rotations
    <2>1. cut' = (IF pc \in Rotating THEN cut + 1 ELSE cut) /\ cut' \in Int
      BY <1>0, <1>1, <1>5, SizeAssumption DEF NoteCut, TypeOK
    <2>2. \A i \in Nat : Free(i) \in Int /\ Free(i) <= cut'
      BY <1>0, <2>1, FreeIsNumber, SizeAssumption DEF Free, Rotating, TypeOK
    <2>3. ASSUME NEW i \in 1..Rotations, NEW r \in rotated[i] PROVE Behind(r, i - 1, cut')
      <3>1. r \in Nat /\ i \in Nat /\ i - 1 \in Int /\ Behind(r, i - 1, Free(i))
        BY <1>0, <2>3, RecordsAreNumbers DEF AgeInv
      <3> QED
        BY <1>0, <2>1, <2>2, <3>1, BehindWeaker
    <2>4. ASSUME NEW r \in 1..count, r \notin Retained PROVE Behind(r, Rotations, cut')
      BY <2>1, <2>4 DEF AgeInv
    <2> QED
      BY <1>1, <1>2, <1>3, <2>3, <2>4 DEF AgeInv, Behind
  <1> QED
    BY <1>4, <1>5

\* Outside rotations nothing ages.
LEMMA CalmAge ==
  ASSUME IInv, AgeInv, Start \/ Repair \/ Record \/ Reopen \/ Append \/ AppendFails
  PROVE  AgeInv'
  <1>0. TypeOK
    BY DEF IInv
  <1>1. /\ rotated' = rotated /\ cut' = cut
        /\ pc \notin Rotating /\ pc' \notin Rotating
        /\ pc' = "removing" => Cardinality(log) >= Capacity /\ log' = log
    BY DEF Start, Repair, Record, Reopen, Append, AppendFails, Written, disk, Rotating
  <1>2. (log' = log /\ count' = count) \/ (log' = log \cup {count + 1} /\ count' = count + 1)
    BY DEF Start, Repair, Record, Reopen, Append, AppendFails, Written, disk
  <1>3. Base' = Base
    <2>1. CASE log' = log /\ count' = count
      BY <2>1 DEF Base
    <2>2. CASE log' = log \cup {count + 1} /\ count' = count + 1
      <3>1. count + 1 \notin log
        BY <1>0 DEF TypeOK
      <3>2. Cardinality(log') = Cardinality(log) + 1
        BY <1>0, <2>2, <3>1, FS_AddElement, LogIsFinite
      <3> QED
        BY <1>0, <2>2, <3>2, LogIsFinite DEF Base, TypeOK
    <2> QED
      BY <1>2, <2>1, <2>2
  <1>4. \A i : Free(i) = cut /\ Free(i)' = cut
    BY <1>1 DEF Free, Rotating
  <1>5. ASSUME NEW r \in 1..count', r \notin Retained' PROVE r \in 1..count /\ r \notin Retained
    BY <1>0, <1>1, <1>2, <1>5 DEF Retained, TypeOK
  <1> QED
    BY <1>1, <1>3, <1>4, <1>5 DEF AgeInv, Behind

LEMMA RemoveAge ==
  ASSUME IInv, AgeInv, RemoveOldest
  PROVE  AgeInv'
  <1>0. TypeOK /\ cut \in Nat /\ Rotations \in Nat /\ Rotations \in 1..Rotations
    BY SizeAssumption DEF IInv, TypeOK
  <1>1. /\ log' = log /\ count' = count /\ cut' = cut /\ Base' = Base
        /\ rotated' = [rotated EXCEPT ![Rotations] = {}]
        /\ pc' \in Rotating /\ pc = "removing"
    BY DEF RemoveOldest, Rotating, Base
  <1>2. ASSUME NEW i \in 1..Rotations, NEW r \in rotated'[i] PROVE Behind(r, i - 1, Free(i)')
    <2>1. i # Rotations /\ i < Rotations /\ r \in rotated[i] /\ r \in Nat
      BY <1>0, <1>1, <1>2, RecordsAreNumbers DEF TypeOK
    <2>2. Free(i) = cut /\ Free(i)' = cut
      BY <1>0, <1>1, <2>1 DEF Free, RemoveOldest
    <2> QED
      BY <2>1, <2>2 DEF AgeInv
  <1>3. ASSUME NEW r \in 1..count, r \notin Retained' PROVE Behind(r, Rotations, cut + 1)
    <2>1. CASE r \in rotated[Rotations]
      <3>1. Behind(r, Rotations - 1, cut)
        BY <1>0, <1>1, <2>1 DEF AgeInv, Free
      <3>2. /\ Rotations * Capacity = (Rotations - 1) * Capacity + Capacity
            /\ (cut + 1) * Capacity = cut * Capacity + Capacity
            /\ (Rotations - 1) * Capacity \in Int /\ cut * Capacity \in Int
        BY <1>0, TimesCapacity
      <3>3. \A a, b, e, f, g \in Int : a + b <= e + f => a + (b + g) <= e + (f + g)
        OBVIOUS
      <3>4. r \in Int /\ Base \in Int /\ Capacity \in Int
        BY <1>0, LogIsFinite, SizeAssumption
      <3> QED
        BY <3>1, <3>2, <3>3, <3>4 DEF Behind
    <2>2. CASE r \notin rotated[Rotations]
      <3>1. r \notin Retained
        BY <1>0, <1>1, <1>3, <2>2 DEF Retained, TypeOK
      <3>2. Behind(r, Rotations, cut)
        BY <1>1, <3>1 DEF AgeInv, Rotating
      <3> QED
        BY <1>0, <3>2, BehindWeaker
    <2> QED
      BY <2>1, <2>2
  <1>4. Cardinality(log') >= Capacity
    BY <1>1 DEF AgeInv
  <1> QED
    BY <1>1, <1>2, <1>3, <1>4 DEF AgeInv, Behind

LEMMA ShiftAge ==
  ASSUME IInv, AgeInv, Shift
  PROVE  AgeInv'
  <1>0. TypeOK /\ TypeOK' /\ cut \in Nat
    BY ShiftInv, SizeAssumption DEF IInv, TypeOK
  <1>1. index \in 1..Rotations /\ index < Rotations /\ index + 1 \in 1..Rotations
        /\ rotated[index + 1] = {}
    BY SizeAssumption DEF IInv, TypeOK, PlaceInv, Shift
  <1>2. rotated' = [rotated EXCEPT ![index + 1] = rotated[index], ![index] = {}]
    BY <1>1 DEF IInv, TypeOK, Shift, Rename
  <1>3. /\ log' = log /\ count' = count /\ cut' = cut /\ Base' = Base
        /\ pc = "shifting" /\ pc' \in Rotating
    BY DEF Shift, Rotating, Base
  <1>4. Retained' = Retained
    <2>1. UNION {rotated'[i] : i \in 1..Rotations} = UNION {rotated[i] : i \in 1..Rotations}
      BY <1>1, <1>2 DEF IInv, TypeOK
    <2> QED
      BY <2>1, <1>3 DEF Retained
  <1>5. ASSUME NEW i \in 1..Rotations, NEW r \in rotated'[i] PROVE Behind(r, i - 1, Free(i)')
    <2>1. CASE i = index + 1
      <3>1. r \in rotated[index] /\ r \in Nat
        BY <1>0, <1>1, <1>2, <1>5, <2>1, RecordsAreNumbers DEF TypeOK
      <3>2. Behind(r, index - 1, cut)
        <4>1. Free(index) = cut
          BY <1>0, <1>1, <1>3 DEF Free, TypeOK
        <4> QED
          BY <1>1, <3>1, <4>1 DEF AgeInv
      <3>3. Free(i)' = cut + 1
        BY <1>0, <1>1, <1>3, <2>1 DEF Free, Shift, TypeOK
      <3>4. /\ index * Capacity = (index - 1) * Capacity + Capacity
            /\ (cut + 1) * Capacity = cut * Capacity + Capacity
            /\ (index - 1) * Capacity \in Int /\ cut * Capacity \in Int
        BY <1>0, <1>1, TimesCapacity, SMTT(30)
      <3>5. \A a, b, e, f, g \in Int : a + b <= e + f => a + (b + g) <= e + (f + g)
        OBVIOUS
      <3>6. r \in Int /\ Base \in Int /\ Capacity \in Int /\ i - 1 = index
        BY <1>0, <1>1, <2>1, <3>1, LogIsFinite, SizeAssumption
      <3>7. Behind(r, index, cut + 1)
        BY <3>2, <3>4, <3>5, <3>6 DEF Behind
      <3> QED
        BY <3>3, <3>6, <3>7
    <2>2. CASE i # index + 1
      <3>1. i # index /\ r \in rotated[i]
        BY <1>0, <1>1, <1>2, <1>5, <2>2 DEF TypeOK
      <3>2. Free(i)' = Free(i)
        BY <1>0, <1>1, <1>3, <2>2, <3>1, SizeAssumption DEF Free, Shift, TypeOK
      <3> QED
        BY <3>1, <3>2 DEF AgeInv
    <2> QED
      BY <2>1, <2>2
  <1>6. pc \in Rotating
    BY <1>3 DEF Rotating
  <1> QED
    BY <1>3, <1>4, <1>5, <1>6 DEF AgeInv, Behind

\* A full file more is numbered.
LEMMA PromoteAge ==
  ASSUME IInv, AgeInv, Promote
  PROVE  AgeInv'
  <1>0. TypeOK /\ cut \in Nat /\ count \in Nat /\ Rotations \in Nat
    BY SizeAssumption DEF IInv, TypeOK
  <1>1. 1 \in 1..Rotations /\ rotated[1] = {}
    BY SizeAssumption DEF IInv, PlaceInv, Promote
  <1>2. /\ rotated' = [rotated EXCEPT ![1] = log] /\ log' = {} /\ count' = count /\ cut' = cut
        /\ pc = "promoting" /\ pc' = "reopening" /\ pc \in Rotating /\ pc' \notin Rotating \cup {"removing"}
    BY DEF Promote, Rotating
  <1>3. Base' = count /\ Base + Capacity <= count /\ Base \in Int /\ Capacity \in Int
    <2>1. Base' = count
      BY <1>0, <1>2, FS_EmptySet DEF Base
    <2>2. Cardinality(log) >= Capacity
      BY <1>2 DEF AgeInv
    <2> QED
      BY <1>0, <2>1, <2>2, LogIsFinite, SizeAssumption DEF Base
  <1>4. ASSUME NEW r \in Nat, NEW k \in Int, Behind(r, k, cut + 1) PROVE r + k * Capacity <= count + cut * Capacity
    <2>1. /\ (cut + 1) * Capacity = cut * Capacity + Capacity
          /\ k * Capacity \in Int /\ cut * Capacity \in Int
      BY <1>0, TimesCapacity
    <2>2. \A a, b, e, f, g, h \in Int : a + b <= e + (f + g) /\ e + g <= h => a + b <= h + f
      OBVIOUS
    <2> QED
      BY <1>0, <1>3, <1>4, <2>1, <2>2 DEF Behind
  <1>5. Retained' = Retained
    <2>1. UNION {rotated'[i] : i \in 1..Rotations} = log \cup UNION {rotated[i] : i \in 1..Rotations}
      BY <1>0, <1>1, <1>2 DEF TypeOK
    <2> QED
      BY <1>2, <2>1 DEF Retained
  <1>6. ASSUME NEW i \in 1..Rotations, NEW r \in rotated'[i]
        PROVE  r + (i - 1) * Capacity <= count + cut * Capacity
    <2>1. CASE i = 1
      <3>1. r \in 1..count
        BY <1>0, <1>1, <1>2, <1>6, <2>1 DEF TypeOK
      <3>2. (i - 1) * Capacity = 0 /\ cut * Capacity \in Nat
        BY <1>0, <2>1, SizeAssumption
      <3> QED
        BY <1>0, <3>1, <3>2
    <2>2. CASE i # 1
      <3>1. r \in rotated[i] /\ r \in Nat /\ i - 1 \in Int
        BY <1>0, <1>1, <1>2, <1>6, <2>2, RecordsAreNumbers DEF TypeOK
      <3>2. Behind(r, i - 1, cut + 1)
        BY <1>2, <3>1 DEF AgeInv, Free
      <3> QED
        BY <1>4, <3>1, <3>2
    <2> QED
      BY <2>1, <2>2
  <1>7. ASSUME NEW r \in 1..count, r \notin Retained PROVE r + Rotations * Capacity <= count + cut * Capacity
    BY <1>0, <1>2, <1>4, <1>7 DEF AgeInv
  <1>8. \A i : Free(i)' = cut
    BY <1>2 DEF Free
  <1> QED
    BY <1>2, <1>3, <1>5, <1>6, <1>7, <1>8 DEF AgeInv, Behind

LEMMA SpecAge == Spec => []AgeInv
  <1>1. ASSUME IInv, AgeInv, Next PROVE AgeInv'
    BY <1>1, CutAge, CalmAge, RemoveAge, ShiftAge, PromoteAge DEF Next
  <1>2. ASSUME AgeInv, UNCHANGED vars PROVE AgeInv'
    BY <1>2 DEF vars, disk, AgeInv, Behind, Base, Free, Retained
  <1>3. IInv /\ AgeInv /\ [Next]_vars => AgeInv'
    BY <1>1, <1>2
  <1> QED
    BY <1>3, InitAge, SpecIInv, PTL DEF Spec

-----------------------------------------------------------------------------
(* Theorems *)

\* Every variable keeps its type.
THEOREM TypeCorrect == Spec => []TypeOK
  <1>1. IInv => TypeOK
    BY DEF IInv
  <1> QED
    BY <1>1, SpecIInv, PTL

\* What the files hold is the end of what was written, whatever was cut short.
THEOREM TrailStaysSuffix == Spec => []TrailIsSuffix
  <1>1. IInv => TrailIsSuffix
    BY DEF IInv
  <1> QED
    BY <1>1, SpecIInv, PTL

\* The numbered files put together give the records in their order.
THEOREM FilesStayInOrder == Spec => []FilesInOrder
  <1>1. IInv => FilesInOrder
    BY DEF IInv
  <1> QED
    BY <1>1, SpecIInv, PTL

\* Start-up never finds a line that is no record, but at the very end.
THEOREM AuditStaysReadable == Spec => []AuditReadable
  <1>1. IInv => AuditReadable
    BY DEF IInv
  <1> QED
    BY <1>1, SpecIInv, PTL

\* As many full files as rotations are kept, less one for each rotation that was
\* cut short: wherever that was, it costs the places of one file.
THEOREM RetentionIsFull == Spec => []FullRetention
  <1>1. ASSUME IInv, AgeInv, NEW r \in 1..count, r \notin Retained,
               r + (Rotations - cut) * Capacity > count
        PROVE  FALSE
    <2>0. TypeOK /\ cut \in Nat /\ count \in Nat /\ Rotations \in Nat /\ Base \in Int /\ Base <= count
      BY <1>1, LogIsFinite, SizeAssumption DEF IInv, TypeOK
    <2>1. /\ (Rotations - cut) * Capacity = Rotations * Capacity - cut * Capacity
          /\ (cut + 1) * Capacity = cut * Capacity + Capacity
          /\ Rotations * Capacity \in Int /\ cut * Capacity \in Int /\ Capacity \in Int
      BY <2>0, SizeAssumption, SMT
    <2>2. CASE pc \in Rotating
      <3>1. r + Rotations * Capacity <= Base + (cut + 1) * Capacity /\ Cardinality(log) >= Capacity
        BY <1>1, <2>2 DEF AgeInv, Behind
      <3>2. Base + Capacity <= count
        BY <2>0, <2>1, <3>1, LogIsFinite DEF Base
      <3>3. \A a, b, c, e, f, g \in Int : a + b <= e + (c + f) /\ e + f <= g => ~(a + (b - c) > g)
        OBVIOUS
      <3> QED
        BY <1>1, <2>0, <2>1, <3>1, <3>2, <3>3
    <2>3. CASE pc \notin Rotating
      <3>1. r + Rotations * Capacity <= Base + cut * Capacity
        BY <1>1, <2>3 DEF AgeInv, Behind
      <3>3. \A a, b, c, e, g \in Int : a + b <= e + c /\ e <= g => ~(a + (b - c) > g)
        OBVIOUS
      <3> QED
        BY <1>1, <2>0, <2>1, <3>1, <3>3
    <2> QED
      BY <2>2, <2>3
  <1>2. IInv /\ AgeInv => FullRetention
    BY <1>1 DEF FullRetention
  <1> QED
    BY <1>2, SpecIInv, SpecAge, PTL
=============================================================================
