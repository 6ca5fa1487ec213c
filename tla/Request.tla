------------------------------ MODULE Request ------------------------------
(***************************************************************************)
(* One buffered request: KubeClient._request_response (_client.py) and its *)
(* awaiting twin, with every verb helper that ends there.                  *)
(*                                                                         *)
(* The server either carries a request out or never sees it.  It may do so *)
(* after the client has given that attempt up, and an answer other than a  *)
(* success says nothing about whether it did.                              *)
(***************************************************************************)
EXTENDS Retry

CONSTANTS
  Methods,   \* HTTP methods
  Policies,  \* retry policies (NoPolicy stands for None)
  Statuses,  \* status classes of an answer
  Successes, \* the ones response.is_success accepts
  Headers,   \* values of Retry-After: seconds, or NoHeader
  NoHeader,  \* absent or unreadable
  MaxFloat   \* the largest double

ASSUME RequestAssumption ==
  /\ Successes \subseteq Statuses
  /\ Headers \subseteq Int \union {NoHeader} /\ NoHeader \notin Int
  /\ MaxFloat \in Nat
  /\ Statuses \intersect {"none", "credential", "transport", "overflow", "cancelled"} = {}
  /\ \A p \in Policies : p.status_codes \subseteq Statuses
  /\ \A p \in Policies :
       p = NoPolicy \/ (/\ p.max_attempts \in Nat \ {0}
                        /\ p.initial_backoff \in Nat /\ p.max_backoff \in Nat
                        /\ p.max_retry_after \in Nat)

VARIABLES
  call,     \* the method, and the client's retry policy
  pc,       \* "ready" to send, "sent", "done"
  attempt,  \* the local of that name
  sends,    \* requests put on the wire
  reached,  \* the server carried out the request of the current attempt
  strays,   \* abandoned attempts the server may still carry out
  applied,  \* times the server carried out the request
  slept,    \* total time waited between attempts
  outcome   \* how the call ended: a status or an exception

client == <<call, pc, attempt, sends, slept, outcome>>
server == <<reached, strays, applied>>
vars == <<client, server>>

Calls == [method : Methods, policy : Policies]

\* A mistake: the method is not asked about.
AttemptsForAnyMethod == call.policy.max_attempts

\* A request that may not be retried is a policy of one attempt.
Attempts ==
  IF Allows(call.policy, call.method) THEN call.policy.max_attempts ELSE 1

Init ==
  /\ call \in Calls /\ pc = "ready"
  /\ attempt = 0 /\ sends = 0 /\ slept = 0 /\ outcome = "none"
  /\ reached = FALSE /\ strays = 0 /\ applied = 0

Finish(how) ==
  /\ pc' = "done" /\ outcome' = how
  /\ UNCHANGED <<call, attempt, sends, slept, server>>

\* Certificate refresh and token come before the try block of each attempt.
CredentialError == pc = "ready" /\ Finish("credential")

Send ==
  /\ pc = "ready" /\ pc' = "sent" /\ sends' = sends + 1
  /\ UNCHANGED <<call, attempt, slept, outcome, server>>

\* The server may still carry out what the client has stopped waiting for.
Abandon ==
  /\ strays' = IF reached THEN strays ELSE strays + 1
  /\ reached' = FALSE /\ UNCHANGED applied

\* sleep, attempt += 1, continue.  The header is one that has a delay.
TryAgain(header) ==
  /\ pc' = "ready" /\ attempt' = attempt + 1
  /\ slept' = slept + Delay(call.policy, attempt, header)
  /\ Abandon
  /\ UNCHANGED <<call, sends, outcome>>

\* Retry-After is read from an answer only.
TransportError ==
  /\ pc = "sent"
  /\ \/ AttemptsLeft(attempt, Attempts) /\ TryAgain(NoHeader)
     \/ ~AttemptsLeft(attempt, Attempts) /\ Finish("transport")

\* Nothing catches the OverflowError of delay(): it ends the call, with attempts
\* left.
Response(status, header) ==
  LET retriable == Retriable(call.policy, status, attempt, Attempts)
  IN /\ pc = "sent"
     /\ status \in Successes => reached
     /\ \/ retriable /\ ~Overflows(header, MaxFloat) /\ TryAgain(header)
        \/ retriable /\ Overflows(header, MaxFloat) /\ Finish("overflow")
        \/ ~retriable /\ Finish(status)

\* A task of the asynchronous client is cancelled at an await.
Cancel == pc # "done" /\ Finish("cancelled")

\* The server carries out the request of the current attempt, once it was sent,
\* or one of an earlier attempt.
Apply ==
  /\ applied' = applied + 1
  /\ \/ sends > attempt /\ ~reached /\ reached' = TRUE /\ UNCHANGED strays
     \/ strays > 0 /\ strays' = strays - 1 /\ UNCHANGED reached
  /\ UNCHANGED client

ClientStep ==
  \/ CredentialError \/ Send \/ TransportError
  \/ \E s \in Statuses, h \in Headers : Response(s, h)

Next == ClientStep \/ Cancel \/ Apply

Spec == Init /\ [][Next]_vars

-----------------------------------------------------------------------------
(***************************************************************************)
(* Properties                                                              *)
(***************************************************************************)
TypeOK ==
  /\ call \in Calls /\ pc \in {"ready", "sent", "done"}
  /\ attempt \in 0..(Attempts - 1) /\ sends \in Nat /\ slept \in Nat
  /\ reached \in BOOLEAN /\ strays \in Nat /\ applied \in Nat
  /\ outcome \in {"none", "credential", "transport", "overflow", "cancelled"}
                 \union Statuses

\* reliability.md: mutating requests are not retried, so the same write is not
\* performed twice.  This holds whatever is lost and however late the server
\* carries out an attempt the client has given up.
NeverTwice ==
  ~Allows(call.policy, call.method) => applied <= 1

\* Even a retried method is carried out at most max_attempts times.
AppliedAtMostAttempts == applied <= call.policy.max_attempts

Longest == IF call.policy.max_backoff >= call.policy.max_retry_after
           THEN call.policy.max_backoff ELSE call.policy.max_retry_after

\* The time between the first request and the last is bounded by the policy,
\* whatever Retry-After the server sends and however the backoff grows: a value
\* past the cap is cut, and one that overflows is never slept.
WaitBounded == slept <= (call.policy.max_attempts - 1) * Longest

\* A failure the policy calls temporary reaches the caller only when every
\* attempt the method is allowed has been used.  (An answer whose Retry-After
\* overflows does not reach the caller: the OverflowError does.)
TemporaryFailureIsLast ==
  outcome = "transport" \/ outcome \in call.policy.status_codes => sends = Attempts
=============================================================================
