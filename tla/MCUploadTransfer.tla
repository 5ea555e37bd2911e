-------------------------- MODULE MCUploadTransfer --------------------------
(* Small instances of UploadTransfer for TLC. *)
EXTENDS UploadTransfer

CONSTANTS u1, u2, p1, p2, a, b, n1, foreign

\* One transfer of two parts; a client may announce the digest of <<a, b>>.
OneUpload == {u1}
TwoParts == {p1, p2}
AB == [p \in TwoParts |-> IF p = p1 THEN a ELSE b]
OneTarget == [u \in {u1} |-> n1]
OnePlace == [u \in {u1} |-> 1]
OneAnnounced == {None, AB}
OneUserContent == {AB, foreign}

\* Two transfers of one part each, aiming at the same name.
BothUploads == {u1, u2}
OnePart == {p1}
SameTarget == [u \in {u1, u2} |-> n1]
TwoPlaces == [u \in {u1, u2} |-> IF u = u1 THEN 1 ELSE 2]
TwoUserContent == {foreign}
=============================================================================
