---------------------------- MODULE MCWorkspace ----------------------------
(* A small instance of Workspace for TLC: a text file and an archive; and  *)
(* the functions of the page for paths of up to three names, some of them  *)
(* those of its own routes, and for amounts around every rounding.         *)
EXTENDS Workspace, PageFunctions, TLC

CONSTANTS notes, docs

TwoAttributes ==
    notes :> [kind |-> "file", archive |-> TRUE, previewable |-> TRUE, editable |-> TRUE]
    @@ docs :> [kind |-> "directory", archive |-> FALSE, previewable |-> FALSE, editable |-> FALSE]
TwoFolders == {<<>>, <<docs>>}
Root == <<>>

Paths == UNION {[1..n -> {"d", "edit", "a"}] : n \in 0..3}
Around(bytes) == bytes - 60..bytes + 60
Amounts == 0..1200 \cup UNION {Around(bytes) :
    bytes \in {9995, 99950, 999500, 999950, 1000000, 9994999}}

ASSUME LinksChecked ==
    \A base, path \in Paths, slash \in {<<>>, <<"">>} : LinkLeadsThere(base, path, slash)
ASSUME AmountsChecked ==
    \A bytes \in Amounts, lastUnit \in 1..2 : ShownInItsUnit(bytes, lastUnit)
=============================================================================
