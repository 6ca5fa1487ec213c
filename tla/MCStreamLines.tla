--------------------------- MODULE MCStreamLines ---------------------------
(* StreamLines without a policy and with three attempts.                    *)
EXTENDS StreamLines

AnyPolicy ==
  {NoPolicy,
   [NoPolicy EXCEPT !.max_attempts = 3, !.methods = {"HEAD"},
                    !.status_codes = {"unavailable"}]}
=============================================================================
