--------------------------- MODULE MCUploadStore ---------------------------
(* Small instances of UploadStore for TLC. *)
EXTENDS UploadStore, TLC

CONSTANTS c1, c2, t1, t2, t3, x, y

\* Two transfers share a stripe; all three together exceed either limit.
ThreeTransfers == {t1, t2, t3}
TwoStripes == {x, y}
Stripes3 == [u \in ThreeTransfers |-> IF u = t3 THEN y ELSE x]
Sizes3 == [u \in ThreeTransfers |-> IF u = t2 THEN 2 ELSE 1]

TwoTransfers == {t1, t2}
OneStripe == {x}
Stripes2 == [u \in TwoTransfers |-> x]
Sizes2 == [u \in TwoTransfers |-> 1]

ClientSymmetry == Permutations({c1, c2})
=============================================================================
