------------------------------ MODULE MCWatch ------------------------------
(***************************************************************************)
(* Watch on a small API server: a selected object, a selected one whose    *)
(* events carry no version, and one outside the selection.                 *)
(***************************************************************************)
EXTENDS Watch

Attempts(n, codes) ==
  [NoPolicy EXCEPT !.max_attempts = n, !.methods = {"GET"}, !.status_codes = codes]

Twice == Attempts(2, {"unavailable"})

AnyPolicy == {NoPolicy, Twice, Attempts(3, {"unavailable", "gone"})}
TwiceOrNever == {NoPolicy, Twice}
AnyStart == {0, NoVersion}
ListVersion == {0}
MostRecent == {NoVersion}
=============================================================================
