--------------------------- MODULE MCUploadQueue ---------------------------
(* A small instance of UploadQueue for TLC, and the arithmetic of parts    *)
(* for small files and parts of few bytes.                                 *)
EXTENDS UploadQueue, UploadPlan

Sizes == 0..9
Chunks == 1..5
Limits == 0..12

ASSUME SlicesChecked ==
    \A size \in Sizes, chunk \in Chunks : \A index \in Indexes(size, chunk), length \in 0..11 :
        SliceIsExpected(size, chunk, index, length)
ASSUME PartsChecked ==
    \A size \in Sizes, chunk \in Chunks :
        PartsJoin(size, chunk) /\ \A byte \in 0..size - 1 : ByteInOnePart(size, chunk, byte)
ASSUME LimitsChecked ==
    \A size, maxBytes \in Limits, chunk \in Chunks, maxParts \in 0..6 :
        LimitsAgree(size, maxBytes, chunk, maxParts)
ASSUME RangesChecked ==
    \A size \in Sizes, chunk \in Chunks : \A parts \in SUBSET Indexes(size, chunk) :
        RangesNameParts(size, chunk, parts) /\ BytesAddUp(size, chunk, parts)
=============================================================================
