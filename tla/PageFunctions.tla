--------------------------- MODULE PageFunctions ---------------------------
(***************************************************************************)
(* What the page computes without state: the addresses of directories and  *)
(* of files being edited (runtime.ts, Workspace.tsx), and how it shows a   *)
(* number of bytes (formatBytes.ts).                                       *)
(*                                                                         *)
(* An address is the sequence of its segments, "" at the end standing for  *)
(* a trailing slash.  Segments are decoded, as encodeURIComponent leaves   *)
(* no slash in one and decodeURIComponent undoes it.  A path is a sequence *)
(* of names, a base one of segments; none of these is empty.               *)
(***************************************************************************)
EXTENDS Integers, Sequences, SequencesExt

Names(segments) == SelectSeq(segments, LAMBDA s : s # "")

BaseUrlFrom(base, path) == base \o path
ItemUrl(base, prefix, path) ==
    IF prefix = "d" /\ path = <<>> THEN BaseUrlFrom(base, <<>>)
    ELSE BaseUrlFrom(base, <<prefix>> \o Names(path))

Unslashed(url) == IF url # <<>> /\ Last(url) = "" THEN Front(url) ELSE url
Behind(prefix, url) == Names(SubSeq(url, Len(prefix) + 1, Len(url)))

DirectoryPathFromLocation(base, url) ==
    LET here == Unslashed(url)
        prefix == ItemUrl(base, "d", <<>>) \o <<"d">>
    IN IF IsStrictPrefix(prefix, here) THEN Behind(prefix, here) ELSE <<>>

(* <<>> where the code has null: no file has an empty path.                *)
EditorPathFromLocation(base, url) ==
    LET here == Unslashed(url)
        prefix == ItemUrl(base, "d", <<>>) \o <<"edit">>
    IN IF IsStrictPrefix(prefix, here) THEN Behind(prefix, here) ELSE <<>>

DirectoryPathForEditor(base, editorPath, url) ==
    IF editorPath # <<>> THEN Front(editorPath) ELSE DirectoryPathFromLocation(base, url)

-----------------------------------------------------------------------------
(* An amount is the fraction [n |-> n, d |-> d] of a unit.                 *)
Power(k) == 1000 ^ k
AtLeast(v, x) == v.n >= x * v.d
FractionDigits(v) == IF AtLeast(v, 100) THEN 0 ELSE IF AtLeast(v, 10) THEN 1 ELSE 2

(* Half up, as Math.round and NumberFormat do for amounts above zero: the  *)
(* amount in units of its last digit.                                      *)
Factor(digits) == 10 ^ digits
Rounded(v, digits) == (2 * v.n * Factor(digits) + v.d) \div (2 * v.d)

(* Where the loop over the units ends.                                     *)
Unit(bytes, lastUnit) ==
    CHOOSE k \in 0..lastUnit :
        /\ k = lastUnit \/ bytes < Power(k + 1)
        /\ \A j \in 0..k - 1 : bytes >= Power(j + 1)
Amount(bytes, k) == [n |-> bytes, d |-> Power(k)]

FormatBytes(bytes, lastUnit) ==
    LET k == Unit(bytes, lastUnit)
        v == Amount(bytes, k)
        promoted == k < lastUnit /\ Rounded(v, FractionDigits(v)) >= 1000 * Factor(FractionDigits(v))
        unit == IF promoted THEN k + 1 ELSE k
        digits == FractionDigits(Amount(bytes, unit))
    IN [shown |-> Rounded(Amount(bytes, unit), digits), digits |-> digits, unit |-> unit]

-----------------------------------------------------------------------------
(* A link leads where it says: the page that opens it, or is loaded at it, *)
(* shows the directory or opens the file the link was made for, and over   *)
(* the editor the directory the file is in, with or without a slash at the *)
(* end, and whatever names the base and the path have.                     *)
LinkLeadsThere(base, path, slash) ==
    LET directory == ItemUrl(base, "d", path) \o slash
        file == ItemUrl(base, "edit", path) \o slash
    IN /\ DirectoryPathFromLocation(base, directory) = path
       /\ EditorPathFromLocation(base, directory) = <<>>
       /\ DirectoryPathForEditor(base, EditorPathFromLocation(base, directory), directory) = path
       /\ path # <<>> =>
              /\ EditorPathFromLocation(base, file) = path
              /\ DirectoryPathForEditor(base, EditorPathFromLocation(base, file), file) = Front(path)

(* One promotion after the rounding is enough: no amount is shown as a     *)
(* thousand of a unit that has a next one, none below one but in bytes,    *)
(* and none is off by more than half of its last digit.                    *)
ShownInItsUnit(bytes, lastUnit) ==
    LET f == FormatBytes(bytes, lastUnit) IN
    /\ f.unit < lastUnit => f.shown < 1000 * Factor(f.digits)
    /\ f.unit > 0 => f.shown >= Factor(f.digits)
    /\ LET off == f.shown * Power(f.unit) - bytes * Factor(f.digits)
       IN 2 * (IF off < 0 THEN -off ELSE off) <= Power(f.unit)
=============================================================================
