-------------------------- MODULE MCFileOperations --------------------------
(* A small instance of FileOperations for TLC. *)
EXTENDS FileOperations, TLC

CONSTANTS here, there, a, b, c1, c2, c3, c4

\* The contents that are not there yet are interchangeable.
Symmetry == Permutations({c3, c4})

Both == {<<a, b>>}
OneMounted == {{}, {there}}
FileAndFolder ==
    [p \in Path |-> CASE p = In(here, a) -> File(c1)
                     [] p = In(here, b) -> [kind |-> "directory", has |-> {c2}]
                     [] OTHER -> Absent]
=============================================================================
