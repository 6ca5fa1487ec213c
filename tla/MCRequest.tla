----------------------------- MODULE MCRequest -----------------------------
(* Request with one retried and one protected method.                       *)
EXTENDS Request

Policy(n, backoff, cap, retryAfter) ==
  [max_attempts |-> n, initial_backoff |-> backoff, max_backoff |-> cap,
   max_retry_after |-> retryAfter, methods |-> {"GET"},
   status_codes |-> {"unavailable"}]

AnyPolicy == {NoPolicy, Policy(1, 1, 4, 5), Policy(3, 1, 4, 5), Policy(4, 3, 9, 2)}

ASSUME PoliciesAreValid ==
  \A p \in AnyPolicy \ {NoPolicy} : ValidPolicy(p, Methods, Statuses)

\* A date in the past, an integer, one beyond max_retry_after, the first past
\* MaxFloat, and no header.
AnyHeader == {-1, 2, 100, MaxFloat + 1, NoHeader}
=============================================================================
