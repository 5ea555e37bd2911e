------------------------- MODULE MCServerLifecycle -------------------------
(* Small instances of ServerLifecycle for TLC. *)
EXTENDS ServerLifecycle, TLC

CONSTANTS s1, s2, r1, r2

\* The processes are interchangeable; the requests are not: r2 uploads a part.
Symmetry == Permutations({s1, s2})
=============================================================================
