---------------------------- MODULE StreamLines ----------------------------
(***************************************************************************)
(* One streamed response: KubeClient.stream_lines (_client.py) and its     *)
(* awaiting twin, as pod logs use it, and iter_watch_response              *)
(* (_official_api.py), which decodes each line of it.                      *)
(*                                                                         *)
(* The server appends lines to a text; a stream sends the text from its    *)
(* first line, so a second stream begins at the same line as the first.    *)
(* A line is delivered when stream_lines hands it on, blank or not, and    *)
(* seen when the caller of the iterator gets it.                           *)
(***************************************************************************)
EXTENDS Retry, Sequences

CONSTANTS
  Policies,  \* retry policies (NoPolicy stands for None)
  Statuses,  \* status classes of the answer, "ok" among them
  Kinds,     \* "text", "blank" and "malformed" lines the server may write
  MaxLines   \* bound: lines of the text

\* No status is named like the other ways to end.
ASSUME StreamAssumption ==
  /\ \A p \in Policies : p.max_attempts \in Nat \ {0}
  /\ Statuses \intersect {"none", "transport"} = {}
  /\ MaxLines \in Nat

VARIABLES
  call,      \* the client's policy, and whether iter_watch_response decodes
  pc,        \* "ready", "requested", "streaming", "done"
  attempt,   \* the local of that name
  delivered, \* the local of that name
  seen,      \* line numbers handed to the caller
  requests,  \* requests sent
  outcome,   \* how the call ended: "returned", a status or an exception
  text,      \* the lines the server holds
  position   \* lines the open stream has sent

vars == <<call, pc, attempt, delivered, seen, requests, outcome, text, position>>

Calls == [policy : Policies, decode : BOOLEAN]

Attempts == call.policy.max_attempts

Init ==
  /\ call \in Calls /\ pc = "ready" /\ attempt = 0 /\ delivered = FALSE
  /\ seen = <<>> /\ requests = 0 /\ outcome = "none"
  /\ text = <<>> /\ position = 0

Finish(how) ==
  /\ pc' = "done" /\ outcome' = how
  /\ UNCHANGED <<call, attempt, delivered, seen, requests, text, position>>

\* sleep, attempt += 1, and back to the top of the loop.
TryAgain ==
  /\ pc' = "ready" /\ attempt' = attempt + 1 /\ position' = 0
  /\ UNCHANGED <<call, delivered, seen, requests, outcome, text>>

CredentialError == pc = "ready" /\ Finish("credential")

\* A GET, whatever the methods of the policy.
SendRequest ==
  /\ pc = "ready" /\ pc' = "requested" /\ requests' = requests + 1
  /\ UNCHANGED <<call, attempt, delivered, seen, outcome, text, position>>

\* The Retry-After of an answer to be retried may overflow, which nothing catches.
Response(status) ==
  LET retriable == Retriable(call.policy, status, attempt, Attempts)
  IN /\ pc = "requested"
     /\ \/ retriable /\ TryAgain
        \/ retriable /\ Finish("overflow")
        \/ ~retriable /\ status # "ok" /\ Finish(status)
        \/ /\ ~retriable /\ status = "ok" /\ pc' = "streaming"
           /\ UNCHANGED <<call, attempt, delivered, seen, requests, outcome,
                          text, position>>

\* A mistake: a broken stream is retried although lines were delivered.
TransportErrorAlwaysRetries ==
  /\ pc \in {"requested", "streaming"}
  /\ LET retry == AttemptsLeft(attempt, Attempts)
     IN (retry /\ TryAgain) \/ (~retry /\ Finish("transport"))

TransportError ==
  /\ pc \in {"requested", "streaming"}
  /\ LET retry == ~delivered /\ AttemptsLeft(attempt, Attempts)
     IN (retry /\ TryAgain) \/ (~retry /\ Finish("transport"))

\* delivered is set before the line is yielded; iter_watch_response then drops
\* a blank line and fails on one its model refuses.
ReceiveLine ==
  /\ pc = "streaming" /\ position < Len(text)
  /\ position' = position + 1 /\ delivered' = TRUE
  /\ \/ /\ call.decode /\ text[position + 1] = "malformed"
        /\ pc' = "done" /\ outcome' = "invalid" /\ UNCHANGED seen
     \/ /\ call.decode => text[position + 1] = "text"
        /\ seen' = Append(seen, position + 1) /\ UNCHANGED <<pc, outcome>>
     \/ /\ call.decode /\ text[position + 1] = "blank"
        /\ UNCHANGED <<seen, pc, outcome>>
  /\ UNCHANGED <<call, attempt, requests, text>>

\* A mistake: a stream that ends is opened again, as a watch would.
StreamClosedReconnects ==
  /\ pc = "streaming"
  /\ LET retry == AttemptsLeft(attempt, Attempts)
     IN (retry /\ TryAgain) \/ (~retry /\ Finish("returned"))

\* The server ends the response, after the last line it has or before.
StreamClosed == pc = "streaming" /\ Finish("returned")

\* The consumer closes the generator, or its task is cancelled.
ConsumerStop == pc # "done" /\ Finish("stopped")

ServerWrite ==
  /\ Len(text) < MaxLines
  /\ \E k \in Kinds : text' = Append(text, k)
  /\ UNCHANGED <<call, pc, attempt, delivered, seen, requests, outcome, position>>

ClientStep ==
  \/ CredentialError \/ SendRequest \/ TransportError \/ ReceiveLine
  \/ StreamClosed \/ \E s \in Statuses : Response(s)

Next == ClientStep \/ ConsumerStop \/ ServerWrite

Spec == Init /\ [][Next]_vars

-----------------------------------------------------------------------------
TypeOK ==
  /\ call \in Calls /\ pc \in {"ready", "requested", "streaming", "done"}
  /\ attempt \in 0..(Attempts - 1) /\ delivered \in BOOLEAN
  /\ seen \in Seq(1..Len(text)) /\ requests \in 0..Attempts
  /\ outcome \in {"none", "credential", "transport", "overflow", "invalid",
                  "returned", "stopped"} \union Statuses
  /\ text \in Seq(Kinds) /\ position \in 0..Len(text)

Wanted(n) == ~call.decode \/ text[n] = "text"

\* What the caller has is the beginning of the text: every line it should get
\* up to the last one it got, once, in order.  A stream opened again sends the
\* same first lines, so a retry after a yield would repeat them.
SeenIsPrefix ==
  /\ \A i \in 1..Len(seen) : Wanted(seen[i])
  /\ \A i, j \in 1..Len(seen) : i < j => seen[i] < seen[j]
  /\ \A i \in 1..Len(seen) : \A n \in 1..seen[i] :
       Wanted(n) => \E j \in 1..i : seen[j] = n

\* Once a line was handed on, blank or not, no further request is sent.
NoRequestAfterLine == [][delivered => requests' = requests]_vars

\* A transport failure the caller sees before any line has used every attempt.
FailsOnlyWhenExhausted ==
  outcome = "transport" /\ ~delivered => requests = Attempts
=============================================================================
