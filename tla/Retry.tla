------------------------------- MODULE Retry -------------------------------
(***************************************************************************)
(* RetryPolicy (src/httpx2_k8s/_retry.py) as a record, with the three      *)
(* questions the clients ask of it: may this method be retried, is this    *)
(* attempt the last, and how long to wait after it.  Durations are natural *)
(* numbers of an arbitrary unit; a status code is any value.               *)
(***************************************************************************)
EXTENDS Integers

\* What __post_init__ accepts.  Methods are names in upper case; Statuses is the
\* caller's set of HTTP codes: nothing keeps a successful one out of status_codes.
ValidPolicy(p, Methods, Statuses) ==
  /\ p.max_attempts \in 1..20
  /\ p.initial_backoff \in Nat
  /\ p.max_backoff \in Nat /\ p.max_backoff >= p.initial_backoff
  /\ p.max_retry_after \in Nat
  /\ p.methods \subseteq Methods /\ p.methods # {}
  /\ p.status_codes \subseteq Statuses /\ p.status_codes # {}

\* retry_policy=None.  Every test of the form "policy is None or ..." and
\* "policy is not None and ..." in the clients gives the answer this record
\* gives: one attempt, nothing retriable.
NoPolicy ==
  [max_attempts |-> 1, initial_backoff |-> 0, max_backoff |-> 0,
   max_retry_after |-> 0, methods |-> {}, status_codes |-> {}]

\* A method is what method.upper() makes of the argument.
Allows(p, method) == method \in p.methods

\* Mistakes the runs must notice: one attempt too many, one too few.
AttemptsLeftOffByOne(attempt, attempts) == attempt < attempts
AttemptsLeftTooFew(attempt, attempts) == attempt + 2 < attempts

\* attempts counts from zero, so attempt n is followed by another one only
\* when n + 1 is still below the limit.
AttemptsLeft(attempt, attempts) == attempt + 1 < attempts

Retriable(p, status, attempt, attempts) ==
  status \in p.status_codes /\ AttemptsLeft(attempt, attempts)

Smaller(a, b) == IF a <= b THEN a ELSE b

\* A Retry-After is an integer when it gives seconds or a date, and any other value
\* when it is absent or neither.  float() raises OverflowError for an integer past
\* max_float, the largest double: delay then has no value, and its caller ends.
Overflows(header, max_float) == header \in Int /\ header > max_float

\* _retry_after where it does not overflow: the date may lie in the past.
RetryAfter(seconds) == IF seconds < 0 THEN 0 ELSE seconds

\* A mistake: max_retry_after is not applied.
DelayUncapped(p, attempt, header) ==
  IF header \in Int
  THEN RetryAfter(header)
  ELSE Smaller(p.initial_backoff * 2^attempt, p.max_backoff)

\* Where the header does not overflow.  Without one, or with one that cannot be
\* read, delay falls back to the exponential backoff.
Delay(p, attempt, header) ==
  IF header \in Int
  THEN Smaller(RetryAfter(header), p.max_retry_after)
  ELSE Smaller(p.initial_backoff * 2^attempt, p.max_backoff)
=============================================================================
