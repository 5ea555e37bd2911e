------------------------------ MODULE AuditLog ------------------------------
(***************************************************************************)
(* The audit log on the disk (runtime.go): audit.jsonl, its numbered       *)
(* rotations, and what start-up repairs.  Record is serialized by the      *)
(* log's mutex, so there is one writer; it may fail or die between any two *)
(* file operations, and in the middle of a write.                          *)
(*                                                                         *)
(* Records are numbered in the order of their writing.  A file is the set  *)
(* of the records in it; a file that does not exist is the empty set, for  *)
(* rotations are never empty and an empty audit.jsonl is as good as none.  *)
(* Stat of the open file is taken not to fail (it would rotate early).     *)
(***************************************************************************)
EXTENDS Naturals, FiniteSets

CONSTANTS
    Rotations,      \* auditRetentionLogs
    Capacity,       \* records of maxAuditLogBytes, taken to be of one length
    MaxRecords,     \* bound: records written
    Faults          \* whether file operations may report errors

ASSUME SizeAssumption == Rotations \in Nat \ {0} /\ Capacity \in Nat \ {0}
ASSUME BoundAssumption == MaxRecords \in Nat /\ Faults \in BOOLEAN

VARIABLES
    log,        \* records in audit.jsonl
    rotated,    \* rotated[i]: records in audit.jsonl.i
    torn,       \* audit.jsonl ends with a part of a line
    mangled,    \* a line of a file is no record: a part of one, and then another
    pc,         \* the next step of the process
    index,      \* the rotation to be renamed next
    count,      \* history: records written
    cut         \* history: rotations cut short, up to Rotations

disk == <<log, rotated, torn, mangled>>
vars == <<disk, pc, index, count, cut>>

\* The oldest rotation is gone and no new one is there.
Rotating == {"shifting", "promoting"}

Init ==
    /\ log = {} /\ rotated = [i \in 1..Rotations |-> {}]
    /\ torn = FALSE /\ mangled = FALSE
    /\ pc = "down" /\ index = 1
    /\ count = 0 /\ cut = 0

\* A rotation that goes no further.
NoteCut == cut' = IF pc \in Rotating /\ cut < Rotations THEN cut + 1 ELSE cut

-----------------------------------------------------------------------------
(* newAuditLog, openAuditFile *)

Start ==
    /\ pc = "down"
    /\ pc' = "opening"
    /\ UNCHANGED <<disk, index, count, cut>>

\* validateAuditJSONL cuts off a part of a line at the end and accepts nothing
\* but records before it; then the file is opened, or made.
Repair ==
    /\ pc = "opening"
    /\ IF mangled THEN UNCHANGED torn /\ pc' = "refused"
                  ELSE torn' = FALSE /\ pc' = "open"
    /\ UNCHANGED <<log, rotated, mangled, index, count, cut>>

-----------------------------------------------------------------------------
(* Record *)

\* Seeded fault: the file is rotated one record too early.
Record_Early ==
    /\ pc = "open" /\ count < MaxRecords
    /\ pc' = IF Cardinality(log) + 1 >= Capacity THEN "removing" ELSE "appending"
    /\ UNCHANGED <<disk, index, count, cut>>

Record ==
    /\ pc = "open" /\ count < MaxRecords
    /\ pc' = IF Cardinality(log) >= Capacity THEN "removing" ELSE "appending"
    /\ UNCHANGED <<disk, index, count, cut>>

\* The line is written behind whatever the file ends with.
Written ==
    /\ count' = count + 1
    /\ log' = log \cup {count + 1}
    /\ mangled' = (mangled \/ torn) /\ torn' = FALSE
    /\ UNCHANGED rotated

\* Seeded fault: a failed write leaves the log in use.
AppendFails_Healthy ==
    /\ pc = "appending" /\ Faults
    /\ \/ Written
       \/ torn' \in {torn, TRUE} /\ UNCHANGED <<log, rotated, mangled, count>>
    /\ pc' = "open"
    /\ UNCHANGED <<index, cut>>

Append ==
    /\ pc = "appending"
    /\ Written
    /\ pc' = "open"
    /\ UNCHANGED <<index, cut>>

\* Write or Sync fails: nothing, a part of the line or the line is there, and
\* the log is not used again.
AppendFails ==
    /\ pc = "appending" /\ Faults
    /\ \/ Written
       \/ torn' \in {torn, TRUE} /\ UNCHANGED <<log, rotated, mangled, count>>
    /\ pc' = "broken"
    /\ UNCHANGED <<index, cut>>

-----------------------------------------------------------------------------
(* rotateLocked *)

\* The last rotation goes; the others follow from behind.
RemoveOldest ==
    /\ pc = "removing"
    /\ rotated' = [rotated EXCEPT ![Rotations] = {}]
    /\ IF Rotations = 1 THEN pc' = "promoting" /\ UNCHANGED index
                        ELSE pc' = "shifting" /\ index' = Rotations - 1
    /\ UNCHANGED <<log, torn, mangled, count, cut>>

\* os.Rename replaces its destination; a file that is not there is no error.
Rename(i) ==
    rotated' = IF rotated[i] = {} THEN rotated
               ELSE [rotated EXCEPT ![i + 1] = rotated[i], ![i] = {}]

\* Seeded fault: an error of the rename is not noticed.
Shift_Unchecked ==
    /\ pc = "shifting"
    /\ Rename(index) \/ (Faults /\ UNCHANGED rotated)
    /\ IF index = 1 THEN pc' = "promoting" /\ UNCHANGED index
                    ELSE index' = index - 1 /\ UNCHANGED pc
    /\ UNCHANGED <<log, torn, mangled, count, cut>>

Shift ==
    /\ pc = "shifting"
    /\ Rename(index)
    /\ IF index = 1 THEN pc' = "promoting" /\ UNCHANGED index
                    ELSE index' = index - 1 /\ UNCHANGED pc
    /\ UNCHANGED <<log, torn, mangled, count, cut>>

\* audit.jsonl becomes the newest rotation.
Promote ==
    /\ pc = "promoting"
    /\ rotated' = [rotated EXCEPT ![1] = log]
    /\ log' = {} /\ torn' = FALSE /\ mangled' = (mangled \/ torn)
    /\ pc' = "reopening"
    /\ UNCHANGED <<index, count, cut>>

\* The new file is there: the record that asked for the rotation is written.
Reopen ==
    /\ pc = "reopening"
    /\ pc' = "appending"
    /\ UNCHANGED <<disk, index, count, cut>>

\* A file operation fails, before its effect or in the sync that follows it.
RotationFails ==
    /\ pc \in Rotating \cup {"removing", "reopening"} /\ Faults
    /\ pc' = "broken"
    /\ NoteCut
    /\ UNCHANGED <<disk, index, count>>

-----------------------------------------------------------------------------

\* The process ends, orderly or not; a write under way may be torn.
Stop ==
    /\ pc \notin {"down", "refused"}
    /\ torn' \in IF pc = "appending" THEN {torn, TRUE} ELSE {torn}
    /\ pc' = "down"
    /\ NoteCut
    /\ UNCHANGED <<log, rotated, mangled, index, count>>

Next ==
    \/ Start \/ Repair
    \/ Record \/ Append \/ AppendFails
    \/ RemoveOldest \/ Shift \/ Promote \/ Reopen \/ RotationFails
    \/ Stop

Spec == Init /\ [][Next]_vars

-----------------------------------------------------------------------------
(* Properties *)

TypeOK ==
    /\ log \subseteq 1..count
    /\ rotated \in [1..Rotations -> SUBSET (1..count)]
    /\ torn \in BOOLEAN /\ mangled \in BOOLEAN
    /\ pc \in {"down", "opening", "refused", "open", "appending", "broken", "removing", "reopening"}
            \cup Rotating
    /\ index \in 1..Rotations
    /\ count \in Nat /\ cut \in 0..Rotations

Retained == log \cup UNION {rotated[i] : i \in 1..Rotations}

\* Wherever rotations were cut short, what is left of the log is its end: no
\* record is missing between two that are there, and the last one written is
\* there.  Every rename and the removal take part in this.
TrailIsSuffix ==
    /\ \A r \in Retained : r..count \subseteq Retained
    /\ count > 0 => count \in Retained

\* A torn line is cut off before anything is written behind it, so that
\* start-up never finds the log corrupt.
AuditReadable == ~mangled /\ pc # "refused"

\* As many full files as rotations are kept, less one for each rotation that
\* was cut short.
FullRetention ==
    \A r \in 1..count : r + (Rotations - cut) * Capacity > count => r \in Retained
=============================================================================
