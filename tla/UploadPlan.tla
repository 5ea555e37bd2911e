----------------------------- MODULE UploadPlan -----------------------------
(***************************************************************************)
(* How a file is cut into parts, by the server (upload_store.go,           *)
(* upload_handlers.go) and by the page (queue.ts), which never exchange    *)
(* the sizes of parts: the server says how many parts there are and how    *)
(* many bytes a full one has, and both compute the rest.  Sums stay within *)
(* an int64 as long as upload-max-bytes is a chunk below its end.          *)
(***************************************************************************)
EXTENDS Integers, FiniteSets, Sequences
LOCAL INSTANCE SequencesExt
LOCAL INSTANCE FiniteSetsExt

PartCount(size, chunk) ==
    IF chunk <= 0 \/ size < 0 THEN 0
    ELSE IF size = 0 THEN 1
    ELSE (size + chunk - 1) \div chunk

Indexes(size, chunk) == 0..PartCount(size, chunk) - 1

(* What Validate asks of the limits, and validateCreate of a request.      *)
LimitsValid(maxBytes, chunk, maxParts) ==
    /\ maxBytes >= 0 /\ chunk > 0 /\ maxParts >= 1
    /\ maxBytes > 0 => (maxBytes + chunk - 1) \div chunk <= maxParts
RequestValid(size, maxBytes, chunk, maxParts) ==
    /\ size >= 0 /\ size <= maxBytes
    /\ PartCount(size, chunk) <= maxParts

Remaining(size, chunk, index) == size - index * chunk
ExpectedPartSize(size, chunk, index) ==
    IF size = 0 THEN 0
    ELSE IF index < PartCount(size, chunk) - 1 \/ Remaining(size, chunk, index) = 0 THEN chunk
    ELSE Remaining(size, chunk, index)
ExpectedStatusPartSize(size, chunk, index) ==
    IF index \notin Indexes(size, chunk) THEN 0 ELSE ExpectedPartSize(size, chunk, index)

(* WritePart reads at most one byte more than it expects.                  *)
Accepted(size, chunk, index, length) ==
    LET expected == ExpectedPartSize(size, chunk, index)
        written == IF length < expected + 1 THEN length ELSE expected + 1
    IN written = expected

(* The slices of the file the page sends; slice ends where the file does.  *)
SliceStart(chunk, index) == index * chunk
SliceEnd(size, chunk, index) ==
    IF size < SliceStart(chunk, index) + chunk THEN size ELSE SliceStart(chunk, index) + chunk
SliceSize(size, chunk, index) == SliceEnd(size, chunk, index) - SliceStart(chunk, index)

(* Recorded parts as the server lists them: one pass over the indexes in   *)
(* their order, which ends the last range or begins one.                   *)
Ascending(parts) ==
    IF parts = {} THEN <<>>
    ELSE SelectSeq([n \in 1..Max(parts) + 1 |-> n - 1], LAMBDA index : index \in parts)
ReceivedRanges(parts) ==
    LET Extended(ranges, index) ==
            IF ranges = <<>> \/ index # Last(ranges).end + 1
            THEN Append(ranges, [start |-> index, end |-> index])
            ELSE [ranges EXCEPT ![Len(ranges)].end = index]
    IN FoldLeft(Extended, <<>>, Ascending(parts))
ReceivedBytes(size, chunk, parts) ==
    MapThenSumSet(LAMBDA index : ExpectedPartSize(size, chunk, index), parts)

(* What the page makes of that list, and what it sends.                    *)
ReceivedIndexes(ranges) == UNION {ranges[r].start..ranges[r].end : r \in DOMAIN ranges}
Outstanding(size, chunk, ranges) == Indexes(size, chunk) \ ReceivedIndexes(ranges)

-----------------------------------------------------------------------------
(* The page cuts what the server expects: a slice has the length that      *)
(* WritePart accepts and that the handler's limit lets through, for an     *)
(* empty file, a last part that is full and one that is not; a body of any *)
(* other length is refused.                                                *)
SliceIsExpected(size, chunk, index, length) ==
    /\ SliceSize(size, chunk, index) = ExpectedPartSize(size, chunk, index)
    /\ SliceSize(size, chunk, index) = ExpectedStatusPartSize(size, chunk, index)
    /\ Accepted(size, chunk, index, length) <=> length = SliceSize(size, chunk, index)

(* The parts are the file: Complete joins them in the order of their       *)
(* indexes, each begins where the one before it ends, the first begins and *)
(* the last ends with the file, and none but that of an empty file is      *)
(* empty.                                                                  *)
PartsJoin(size, chunk) ==
    LET last == PartCount(size, chunk) - 1 IN
    /\ last >= 0
    /\ SliceStart(chunk, 0) = 0 /\ SliceEnd(size, chunk, last) = size
    /\ \A index \in Indexes(size, chunk) \ {last} :
           SliceEnd(size, chunk, index) = SliceStart(chunk, index + 1)
    /\ size > 0 => \A index \in Indexes(size, chunk) : SliceSize(size, chunk, index) \in 1..chunk

(* Every byte is in one part.                                              *)
ByteInOnePart(size, chunk, byte) ==
    \E index \in Indexes(size, chunk) :
        \A other \in Indexes(size, chunk) :
            (SliceStart(chunk, other) <= byte /\ byte < SliceEnd(size, chunk, other)) <=> other = index

(* A server whose limits Validate has let pass never refuses a file of an  *)
(* admitted size for its number of parts (validateCreate).                 *)
LimitsAgree(size, maxBytes, chunk, maxParts) ==
    LimitsValid(maxBytes, chunk, maxParts) /\ size \in 0..maxBytes
        => RequestValid(size, maxBytes, chunk, maxParts)

(* The list of ranges says which parts are recorded, in the fewest ranges, *)
(* and the page sends exactly the others.                                  *)
RangesNameParts(size, chunk, parts) ==
    LET ranges == ReceivedRanges(parts) IN
    /\ ReceivedIndexes(ranges) = parts
    /\ Outstanding(size, chunk, ranges) = Indexes(size, chunk) \ parts
    /\ \A r \in DOMAIN ranges :
           /\ ranges[r].start <= ranges[r].end
           /\ r > 1 => ranges[r].start > ranges[r - 1].end + 1

(* What is reported as received is the whole file when all parts are, and  *)
(* less before.                                                            *)
BytesAddUp(size, chunk, parts) ==
    /\ ReceivedBytes(size, chunk, Indexes(size, chunk)) = size
    /\ parts # Indexes(size, chunk) /\ size > 0 => ReceivedBytes(size, chunk, parts) < size
=============================================================================
