--------------------------- MODULE RequestProofs ---------------------------
(***************************************************************************)
(* Theorems about one buffered request, for any methods, policies and      *)
(* answers.  The inductive invariant accounts for every request that was   *)
(* put on the wire: the server carried it out, or still may.               *)
(* A second one adds up the waiting: no wait is longer than the policy     *)
(* allows, and there is one for every attempt but the first.               *)
(***************************************************************************)
EXTENDS Request, FiniteSetTheorems, TLAPS

\* The types the accounting needs.
Typed ==
  /\ call \in Calls /\ pc \in {"ready", "sent", "done"}
  /\ attempt \in 0..(Attempts - 1) /\ sends \in Nat
  /\ strays \in Nat /\ applied \in Nat

\* 1 while the request of the current attempt is sent but not carried out.
Pending == IF sends > attempt /\ ~reached THEN 1 ELSE 0

Accounting ==
  /\ pc = "ready" => sends = attempt
  /\ pc = "sent" => sends = attempt + 1
  /\ sends \in {attempt, attempt + 1}
  /\ reached => sends > attempt
  /\ applied + strays + Pending = sends

\* A failure that ends the call, and could have been retried, is the last
\* attempt's.
LastFailure ==
  /\ outcome \in {"none", "credential", "transport", "overflow", "cancelled"}
                 \union Statuses
  /\ pc # "done" => outcome = "none"
  /\ TemporaryFailureIsLast

RequestInv == Typed /\ Accounting /\ LastFailure

\* The attempts a policy allows, never more than max_attempts.
LEMMA AttemptsType ==
  ASSUME call \in Calls
  PROVE  /\ call.policy.max_attempts \in Nat \ {0}
         /\ Attempts \in 1..call.policy.max_attempts
         /\ ~Allows(call.policy, call.method) => Attempts = 1
         /\ call.policy.status_codes \subseteq Statuses
<1>1. call.policy \in Policies
  BY DEF Calls
<1>2. call.policy.max_attempts \in Nat \ {0}
  BY <1>1, RequestAssumption DEF NoPolicy
<1>3. call.policy.status_codes \subseteq Statuses
  BY <1>1, RequestAssumption
<1> QED
  BY <1>2, <1>3 DEF Attempts

LEMMA InitInv == Init => RequestInv
<1> SUFFICES ASSUME Init PROVE RequestInv
  OBVIOUS
<1>1. call \in Calls
  BY DEF Init
<1>2. "none" \notin call.policy.status_codes
  BY <1>1, AttemptsType, RequestAssumption
<1>3. Typed /\ Accounting
  <2>1. Attempts \in Nat \ {0}
    BY <1>1, AttemptsType
  <2> QED
    BY <1>1, <2>1 DEF Init, Typed, Accounting, Pending
<1>4. LastFailure
  BY <1>1, <1>2 DEF Init, LastFailure, TemporaryFailureIsLast
<1> QED
  BY <1>3, <1>4 DEF RequestInv

\* Ending the call leaves the accounts as they are.
LEMMA FinishStep ==
  ASSUME RequestInv,
         NEW how \in {"credential", "transport", "overflow", "cancelled"} \union Statuses,
         Finish(how),
         how = "transport" \/ how \in call.policy.status_codes => sends = Attempts
  PROVE  RequestInv'
BY AttemptsType
DEF RequestInv, Typed, Accounting, Pending, LastFailure, TemporaryFailureIsLast,
    Finish, server, Attempts

\* Going round the loop turns a request that is still pending into a stray.
LEMMA TryAgainStep ==
  ASSUME RequestInv, pc = "sent", AttemptsLeft(attempt, Attempts),
         NEW header, TryAgain(header)
  PROVE  RequestInv'
<1>1. /\ attempt' = attempt + 1 /\ pc' = "ready" /\ sends' = sends
      /\ UNCHANGED <<call, outcome, applied>> /\ Attempts' = Attempts
      /\ strays' = (IF reached THEN strays ELSE strays + 1) /\ reached' = FALSE
  BY DEF TryAgain, Abandon, Attempts
<1>2. Typed'
  <2>1. Attempts \in Nat \ {0} /\ call' \in Calls
    BY <1>1, AttemptsType DEF RequestInv, Typed
  <2>2. attempt' \in 0..(Attempts' - 1)
    BY <1>1, <2>1 DEF RequestInv, Typed, AttemptsLeft
  <2> QED
    BY <1>1, <2>1, <2>2 DEF RequestInv, Typed, Calls
<1>3. Accounting'
  BY <1>1 DEF RequestInv, Typed, Accounting, Pending
<1>4. outcome = "none" /\ "none" \notin call.policy.status_codes
  BY AttemptsType, RequestAssumption DEF RequestInv, Typed, LastFailure
<1>5. LastFailure'
  BY <1>1, <1>4 DEF LastFailure, TemporaryFailureIsLast
<1> QED
  BY <1>2, <1>3, <1>5 DEF RequestInv

LEMMA SendStep ==
  ASSUME RequestInv, Send
  PROVE  RequestInv'
<1>1. /\ pc = "ready" /\ pc' = "sent" /\ sends' = sends + 1 /\ Attempts' = Attempts
      /\ UNCHANGED <<call, attempt, outcome, reached, strays, applied>>
  BY DEF Send, server, Attempts
<1>2. Typed' /\ Accounting'
  BY <1>1, AttemptsType DEF RequestInv, Typed, Accounting, Pending
<1>3. outcome = "none" /\ "none" \notin call.policy.status_codes
  BY <1>1, AttemptsType, RequestAssumption DEF RequestInv, Typed, LastFailure
<1>4. LastFailure'
  BY <1>1, <1>3 DEF LastFailure, TemporaryFailureIsLast
<1> QED
  BY <1>2, <1>4 DEF RequestInv

\* The server moves a request from pending or stray to applied.
LEMMA ApplyStep ==
  ASSUME RequestInv, Apply
  PROVE  RequestInv'
<1>1. /\ UNCHANGED <<call, pc, attempt, sends, outcome>> /\ Attempts' = Attempts
      /\ applied' = applied + 1
      /\ \/ sends > attempt /\ ~reached /\ reached' = TRUE /\ strays' = strays
         \/ strays > 0 /\ strays' = strays - 1 /\ reached' = reached
  BY DEF Apply, client, Attempts
<1>2. Typed'
  BY <1>1 DEF RequestInv, Typed, Calls
<1>3. Accounting'
  BY <1>1 DEF RequestInv, Typed, Accounting, Pending
<1>4. LastFailure'
  BY <1>1 DEF RequestInv, LastFailure, TemporaryFailureIsLast
<1> QED
  BY <1>2, <1>3, <1>4 DEF RequestInv

LEMMA RequestStep ==
  ASSUME RequestInv, [Next]_vars
  PROVE  RequestInv'
<1>1. CASE UNCHANGED vars
  BY <1>1
  DEF RequestInv, Typed, Accounting, Pending, LastFailure, TemporaryFailureIsLast,
      vars, client, server, Attempts
<1>2. CASE CredentialError
  BY <1>2, FinishStep, AttemptsType, RequestAssumption DEF CredentialError, RequestInv, Typed
<1>3. CASE Send
  BY <1>3, SendStep
<1>4. CASE TransportError
  <2>1. pc = "sent" /\ sends = attempt + 1 /\ attempt \in 0..(Attempts - 1)
        /\ Attempts \in Nat
    BY <1>4, AttemptsType DEF TransportError, RequestInv, Typed, Accounting
  <2>2. CASE AttemptsLeft(attempt, Attempts) /\ TryAgain(NoHeader)
    BY <2>1, <2>2, TryAgainStep
  <2>3. CASE ~AttemptsLeft(attempt, Attempts) /\ Finish("transport")
    <3>1. sends = Attempts
      BY <2>1, <2>3 DEF AttemptsLeft
    <3> QED
      BY <3>1, <2>3, FinishStep
  <2> QED
    BY <1>4, <2>2, <2>3 DEF TransportError
<1>5. ASSUME NEW s \in Statuses, NEW h \in Headers, Response(s, h)
      PROVE  RequestInv'
  <2>1. pc = "sent" /\ sends = attempt + 1 /\ attempt \in 0..(Attempts - 1)
        /\ Attempts \in Nat
    BY <1>5, AttemptsType DEF Response, RequestInv, Typed, Accounting
  <2>2. CASE Retriable(call.policy, s, attempt, Attempts) /\ TryAgain(h)
    BY <2>1, <2>2, TryAgainStep DEF Retriable
  <2>4. CASE Finish("overflow")
    <3>1. "overflow" \notin call.policy.status_codes
      BY AttemptsType, RequestAssumption DEF RequestInv, Typed
    <3> QED
      BY <3>1, <2>4, FinishStep
  <2>3. CASE ~Retriable(call.policy, s, attempt, Attempts) /\ Finish(s)
    <3>1. s \in call.policy.status_codes => sends = Attempts
      BY <2>1, <2>3 DEF Retriable, AttemptsLeft
    <3>2. s # "transport"
      BY RequestAssumption
    <3> QED
      BY <3>1, <3>2, <2>3, FinishStep
  <2> QED
    BY <1>5, <2>2, <2>3, <2>4 DEF Response
<1>6. CASE Cancel
  BY <1>6, FinishStep, AttemptsType, RequestAssumption DEF Cancel, RequestInv, Typed
<1>7. CASE Apply
  BY <1>7, ApplyStep
<1> QED
  BY <1>1, <1>2, <1>3, <1>4, <1>5, <1>6, <1>7 DEF Next, ClientStep

-----------------------------------------------------------------------------
(***************************************************************************)
(* The theorems                                                            *)
(***************************************************************************)
\* The accounts are right in every state of every call.
THEOREM RequestInvariant == Spec => []RequestInv
BY InitInv, RequestStep, PTL DEF Spec

\* A method the policy does not allow is carried out at most once, however late
\* and whatever the client has made of it.
THEOREM RequestNeverTwice == Spec => []NeverTwice
<1>1. RequestInv => NeverTwice
  BY AttemptsType DEF RequestInv, Typed, Accounting, Pending, NeverTwice
<1> QED
  BY <1>1, RequestInvariant, PTL

\* Any method is carried out at most max_attempts times.
THEOREM RequestAppliedAtMostAttempts == Spec => []AppliedAtMostAttempts
<1>1. RequestInv => AppliedAtMostAttempts
  BY AttemptsType DEF RequestInv, Typed, Accounting, Pending, AppliedAtMostAttempts
<1> QED
  BY <1>1, RequestInvariant, PTL

\* The caller sees a failure that could have been retried only after the last
\* attempt the method is allowed.
THEOREM RequestTemporaryFailureIsLast == Spec => []TemporaryFailureIsLast
<1>1. RequestInv => TemporaryFailureIsLast
  BY DEF RequestInv, LastFailure
<1> QED
  BY <1>1, RequestInvariant, PTL

-----------------------------------------------------------------------------
(***************************************************************************)
(* The waiting                                                             *)
(***************************************************************************)
\* A power of two is a number: it counts the subsets of an interval.
LEMMA PowerOfTwo == \A n \in Nat : 2^n \in Nat
<1> TAKE n \in Nat
<1>1. IsFiniteSet(1..n) /\ Cardinality(1..n) = n
  BY FS_Interval
<1>2. IsFiniteSet(SUBSET (1..n)) /\ Cardinality(SUBSET (1..n)) = 2^n
  BY <1>1, FS_SUBSET
<1> QED
  BY <1>2, FS_CardinalityType

\* The limits of a policy, None included, are numbers.
LEMMA LimitsType ==
  ASSUME call \in Calls
  PROVE  /\ call.policy.initial_backoff \in Nat /\ call.policy.max_backoff \in Nat
         /\ call.policy.max_retry_after \in Nat /\ Longest \in Nat
<1>1. call.policy \in Policies
  BY DEF Calls
<1> QED
  BY <1>1, RequestAssumption DEF NoPolicy, Longest

\* No wait is negative or longer than the policy allows, whatever the header says,
\* as long as it has a float, and however often the backoff has doubled.
LEMMA DelayBounded ==
  ASSUME call \in Calls, attempt \in Nat, NEW header \in Headers \union {NoHeader},
         ~Overflows(header, MaxFloat)
  PROVE  Delay(call.policy, attempt, header) \in 0..Longest
<1> DEFINE power == 2^attempt
<1>1. power \in Nat
  BY PowerOfTwo
<1> HIDE DEF power
<1>2. call.policy.initial_backoff * power \in Nat
  BY <1>1, LimitsType
<1>3. CASE header \in Int
  BY <1>3, LimitsType DEF Delay, Smaller, RetryAfter, Longest
<1>4. CASE header \notin Int
  BY <1>2, <1>4, LimitsType DEF Delay, Smaller, Longest, power
<1> QED
  BY <1>3, <1>4

\* More waits of the same length take no less time.
LEMMA Monotone ==
  ASSUME NEW a \in Nat, NEW b \in Nat, NEW c \in Nat, a <= b
  PROVE  a * c <= b * c
<1>1. b * c = a * c + (b - a) * c /\ b - a \in Nat
  OBVIOUS
<1> DEFINE rest == (b - a) * c
<1>2. rest \in Nat /\ a * c \in Nat
  BY <1>1
<1>3. b * c = a * c + rest
  BY <1>1
<1> HIDE DEF rest
<1> QED
  BY <1>2, <1>3

\* One wait for each attempt behind.
Waited == slept \in Nat /\ slept <= attempt * Longest

LEMMA WaitedStep ==
  ASSUME RequestInv, Waited, [Next]_vars
  PROVE  Waited'
<1>1. call' = call /\ Longest' = Longest /\ Longest \in Nat /\ attempt \in Nat
  <2>1. call \in Calls /\ attempt \in Nat
    BY AttemptsType DEF RequestInv, Typed
  <2>2. call' = call
    BY DEF Next, ClientStep, CredentialError, Send, TransportError, Response, TryAgain,
           Cancel, Apply, Finish, client, vars
  <2> QED
    BY <2>1, <2>2, LimitsType DEF Longest
<1>2. CASE UNCHANGED <<attempt, slept>>
  BY <1>1, <1>2 DEF Waited
<1>3. ASSUME NEW header \in Headers \union {NoHeader},
             ~Overflows(header, MaxFloat), TryAgain(header)
      PROVE  Waited'
  <2>1. Delay(call.policy, attempt, header) \in 0..Longest
    BY <1>1, <1>3, DelayBounded DEF RequestInv, Typed
  <2>2. attempt' = attempt + 1 /\ slept' = slept + Delay(call.policy, attempt, header)
    BY <1>3 DEF TryAgain
  <2>3. attempt' * Longest = attempt * Longest + Longest /\ attempt * Longest \in Nat
    BY <1>1, <2>2
  <2> QED
    BY <1>1, <2>1, <2>2, <2>3 DEF Waited
<1>4. ASSUME ~UNCHANGED <<attempt, slept>>
      PROVE  \E header \in Headers \union {NoHeader} :
               ~Overflows(header, MaxFloat) /\ TryAgain(header)
  <2>1. ~Overflows(NoHeader, MaxFloat)
    BY RequestAssumption DEF Overflows
  <2>2. CASE TransportError
    BY <1>4, <2>1, <2>2 DEF TransportError, Finish
  <2>3. CASE \E s \in Statuses, h \in Headers : Response(s, h)
    BY <1>4, <2>3 DEF Response, Finish
  <2>4. CASE CredentialError \/ Send \/ Cancel \/ Apply \/ UNCHANGED vars
    BY <1>4, <2>4 DEF CredentialError, Send, Cancel, Apply, Finish, client, vars
  <2> QED
    BY <2>2, <2>3, <2>4 DEF Next, ClientStep
<1> QED
  BY <1>2, <1>3, <1>4

\* The time a call has waited is a number, and bounded by the attempts behind it.
THEOREM RequestWaited == Spec => []Waited
<1>1. Init => Waited
  <2> SUFFICES ASSUME Init PROVE Waited
    OBVIOUS
  <2>1. Longest \in Nat /\ attempt = 0 /\ slept = 0
    BY LimitsType DEF Init
  <2>2. attempt * Longest = 0
    BY <2>1
  <2> QED
    BY <2>1, <2>2 DEF Waited
<1> QED
  BY <1>1, RequestInvariant, WaitedStep, PTL DEF Spec

\* The time between the first request and the last is bounded by the policy, for
\* any policy and whatever Retry-After the server sends.
THEOREM RequestWaitBounded == Spec => []WaitBounded
<1>1. ASSUME RequestInv, Waited PROVE WaitBounded
  <2> DEFINE last == call.policy.max_attempts - 1
  <2>1. last \in Nat /\ attempt \in Nat /\ attempt <= last /\ Longest \in Nat
    BY <1>1, AttemptsType, LimitsType DEF RequestInv, Typed
  <2> HIDE DEF last
  <2>2. attempt * Longest <= last * Longest
    BY <2>1, Monotone
  <2>3. slept <= last * Longest
    <3>1. slept \in Nat /\ slept <= attempt * Longest
      BY <1>1 DEF Waited
    <3>2. attempt * Longest \in Nat /\ last * Longest \in Nat
      BY <2>1
    <3> QED
      BY <2>2, <3>1, <3>2
  <2> QED
    BY <2>3 DEF WaitBounded, last
<1> QED
  BY <1>1, RequestInvariant, RequestWaited, PTL

\* Counters, flags and endings have their types, for any policies and answers: every
\* delay slept is a number, and an answer whose Retry-After has none ends the call.
THEOREM RequestTypeOK == Spec => []TypeOK
<1>1. Init => reached \in BOOLEAN
  BY DEF Init
<1>2. reached \in BOOLEAN /\ [Next]_vars => (reached \in BOOLEAN)'
  BY DEF Next, ClientStep, CredentialError, Send, TransportError, Response, TryAgain,
         Abandon, Cancel, Apply, Finish, server, vars
<1>3. RequestInv /\ Waited /\ reached \in BOOLEAN => TypeOK
  BY DEF RequestInv, Typed, LastFailure, Waited, TypeOK
<1> QED
  BY <1>1, <1>2, <1>3, RequestInvariant, RequestWaited, PTL DEF Spec
=============================================================================
