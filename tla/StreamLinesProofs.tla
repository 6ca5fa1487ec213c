-------------------------- MODULE StreamLinesProofs --------------------------
(***************************************************************************)
(* Theorems about one streamed response, for any policies, statuses and    *)
(* kinds of line.  The inductive invariant relates what the caller has to  *)
(* the position of the stream, and the requests to the attempts.           *)
(***************************************************************************)
EXTENDS StreamLines, TLAPS

\* One request per attempt, and none is open once a line was handed on.
OneRequestPerAttempt ==
  /\ pc = "ready" => requests = attempt
  /\ pc \in {"requested", "streaming"} => requests = attempt + 1
  /\ pc \in {"ready", "requested"} => ~delivered
  /\ pc # "done" => outcome = "none"

\* The caller has every line it should get of what the stream has sent.
SeenIsSent ==
  /\ ~delivered => seen = <<>>
  /\ \A i \in 1..Len(seen) : seen[i] \in 1..position /\ Wanted(seen[i])
  /\ \A i, j \in 1..Len(seen) : i < j => seen[i] < seen[j]
  /\ \A n \in 1..position : Wanted(n) => \E j \in 1..Len(seen) : seen[j] = n

StreamInv == TypeOK /\ OneRequestPerAttempt /\ SeenIsSent /\ FailsOnlyWhenExhausted

LEMMA StreamInit == Init => StreamInv
<1> SUFFICES ASSUME Init PROVE StreamInv
  OBVIOUS
<1>1. Attempts \in Nat \ {0}
  BY StreamAssumption DEF Init, Calls, Attempts
<1>2. seen \in Seq(1..Len(text)) /\ text \in Seq(Kinds) /\ position \in 0..Len(text)
  BY DEF Init
<1>3. TypeOK
  <2>1. attempt \in 0..(Attempts - 1) /\ requests \in 0..Attempts
    BY <1>1 DEF Init
  <2>2. delivered \in BOOLEAN
    BY DEF Init
  <2> QED
    BY <1>2, <2>1, <2>2 DEF Init, TypeOK
<1> QED
  BY <1>3 DEF Init, StreamInv, OneRequestPerAttempt, SeenIsSent, FailsOnlyWhenExhausted

LEMMA FinishStep ==
  ASSUME StreamInv,
         NEW how \in {"credential", "transport", "invalid", "returned", "stopped", "overflow"}
                       \union Statuses,
         Finish(how),
         (how = "transport" /\ ~delivered) => requests = Attempts
  PROVE  StreamInv'
<1> USE DEF StreamInv, Finish, Attempts
<1>1. TypeOK'
  BY DEF TypeOK
<1>2. OneRequestPerAttempt'
  BY DEF OneRequestPerAttempt
<1>3. SeenIsSent'
  BY DEF SeenIsSent, Wanted
<1>4. FailsOnlyWhenExhausted'
  BY DEF FailsOnlyWhenExhausted
<1> QED
  BY <1>1, <1>2, <1>3, <1>4

\* Only before the first line.
LEMMA TryAgainStep ==
  ASSUME StreamInv, pc \in {"requested", "streaming"}, ~delivered,
         AttemptsLeft(attempt, Attempts), TryAgain
  PROVE  StreamInv'
<1> USE DEF StreamInv, TryAgain
<1>1. Attempts \in Nat /\ attempt + 1 \in 0..(Attempts - 1) /\ UNCHANGED Attempts
  BY StreamAssumption DEF TypeOK, Calls, Attempts, AttemptsLeft
<1>2. TypeOK'
  BY <1>1 DEF TypeOK
<1>3. OneRequestPerAttempt'
  BY DEF OneRequestPerAttempt
<1>4. seen' = <<>> /\ position' = 0
  BY DEF SeenIsSent
<1>5. SeenIsSent'
  BY <1>4 DEF SeenIsSent
<1>6. FailsOnlyWhenExhausted'
  BY DEF FailsOnlyWhenExhausted, OneRequestPerAttempt
<1> QED
  BY <1>2, <1>3, <1>5, <1>6

LEMMA TransportErrorStep ==
  ASSUME StreamInv, TransportError
  PROVE  StreamInv'
<1>1. CASE ~delivered /\ AttemptsLeft(attempt, Attempts)
  BY <1>1, TryAgainStep DEF TransportError
<1>2. CASE ~(~delivered /\ AttemptsLeft(attempt, Attempts))
  <2>1. ~delivered => requests = Attempts
    BY <1>2, StreamAssumption
    DEF StreamInv, TypeOK, OneRequestPerAttempt, TransportError, AttemptsLeft, Attempts, Calls
  <2> QED
    BY <1>2, <2>1, FinishStep DEF TransportError
<1> QED
  BY <1>1, <1>2

LEMMA ResponseStep ==
  ASSUME StreamInv, NEW s \in Statuses, Response(s)
  PROVE  StreamInv'
<1> DEFINE retriable == Retriable(call.policy, s, attempt, Attempts)
<1>0. pc = "requested" /\ ~delivered /\ s # "transport"
  BY StreamAssumption DEF Response, StreamInv, OneRequestPerAttempt
<1>1. CASE retriable /\ TryAgain
  BY <1>0, <1>1, TryAgainStep DEF Retriable
<1>2. CASE Finish(s)
  BY <1>0, <1>2, FinishStep
<1>3. CASE Finish("overflow")
  BY <1>0, <1>3, FinishStep
<1>4. CASE /\ pc' = "streaming"
           /\ UNCHANGED <<call, attempt, delivered, seen, requests, outcome, text, position>>
  BY <1>0, <1>4
  DEF StreamInv, TypeOK, OneRequestPerAttempt, SeenIsSent, Wanted, FailsOnlyWhenExhausted, Attempts
<1> QED
  BY <1>1, <1>2, <1>3, <1>4 DEF Response

LEMMA SendRequestStep ==
  ASSUME StreamInv, SendRequest
  PROVE  StreamInv'
<1>1. Attempts \in Nat /\ UNCHANGED Attempts
  BY StreamAssumption DEF StreamInv, TypeOK, Calls, Attempts, SendRequest
<1>2. TypeOK'
  BY <1>1 DEF StreamInv, TypeOK, SendRequest, OneRequestPerAttempt
<1>3. OneRequestPerAttempt' /\ FailsOnlyWhenExhausted'
  BY DEF StreamInv, TypeOK, SendRequest, OneRequestPerAttempt, FailsOnlyWhenExhausted
<1>4. SeenIsSent'
  BY DEF StreamInv, SendRequest, SeenIsSent, Wanted
<1> QED
  BY <1>2, <1>3, <1>4 DEF StreamInv

LEMMA ReceiveLineStep ==
  ASSUME StreamInv, ReceiveLine
  PROVE  StreamInv'
<1> USE DEF StreamInv
<1> DEFINE n == position + 1
<1>1. /\ n \in 1..Len(text) /\ position' = n /\ delivered' /\ position \in Nat
      /\ UNCHANGED <<call, attempt, requests, text>>
      /\ pc = "streaming" /\ Len(text) \in Nat /\ UNCHANGED Attempts
  BY DEF ReceiveLine, TypeOK, Attempts
<1>2. \/ UNCHANGED seen /\ ~Wanted(n)
      \/ seen' = Append(seen, n) /\ Wanted(n)
  BY DEF ReceiveLine, Wanted
<1>3. pc' \in {"streaming", "done"} /\ outcome' \in {outcome, "invalid"}
      /\ (pc' # "done" => UNCHANGED outcome)
  BY <1>1 DEF ReceiveLine
<1>4. seen \in Seq(1..Len(text)) /\ seen' \in Seq(1..Len(text))
  BY <1>1, <1>2 DEF TypeOK
<1>5. TypeOK'
  BY <1>1, <1>3, <1>4 DEF TypeOK
<1>6. OneRequestPerAttempt' /\ FailsOnlyWhenExhausted'
  BY <1>1, <1>3 DEF OneRequestPerAttempt, FailsOnlyWhenExhausted
<1>7. \A k : Wanted(k)' <=> Wanted(k)
  BY <1>1 DEF Wanted
<1>8. SeenIsSent'
  <2>1. CASE UNCHANGED seen /\ ~Wanted(n)
    BY <1>1, <1>4, <1>7, <2>1 DEF SeenIsSent
  <2>2. CASE seen' = Append(seen, n) /\ Wanted(n)
    <3>1. /\ Len(seen') = Len(seen) + 1 /\ Len(seen) \in Nat /\ seen'[Len(seen) + 1] = n
          /\ \A i \in 1..Len(seen) : seen'[i] = seen[i]
      BY <1>1, <1>4, <2>2
    <3>2. /\ \A i \in 1..Len(seen) : seen[i] \in 1..position /\ Wanted(seen[i])
          /\ \A i, j \in 1..Len(seen) : i < j => seen[i] < seen[j]
          /\ \A m \in 1..position : Wanted(m) => \E j \in 1..Len(seen) : seen[j] = m
      BY DEF SeenIsSent
    <3>3. \A i \in 1..Len(seen') : seen'[i] \in 1..n /\ Wanted(seen'[i])
      BY <1>1, <2>2, <3>1, <3>2
    <3>4. ASSUME NEW i \in 1..Len(seen'), NEW j \in 1..Len(seen'), i < j
          PROVE  seen'[i] < seen'[j]
      <4>1. i \in 1..Len(seen) /\ seen'[i] = seen[i] /\ seen[i] \in 1..position
        BY <3>1, <3>2, <3>4
      <4>2. CASE j = Len(seen) + 1
        BY <1>1, <3>1, <4>1, <4>2
      <4>3. CASE j \in 1..Len(seen)
        BY <3>1, <3>2, <3>4, <4>1, <4>3
      <4> QED
        BY <3>1, <4>2, <4>3
    <3>5. ASSUME NEW m \in 1..n, Wanted(m) PROVE \E j \in 1..Len(seen') : seen'[j] = m
      BY <1>1, <3>1, <3>2, <3>5
    <3> QED
      BY <1>1, <1>7, <3>3, <3>4, <3>5 DEF SeenIsSent
  <2> QED
    BY <1>2, <2>1, <2>2
<1> QED
  BY <1>5, <1>6, <1>8

LEMMA ServerWriteStep ==
  ASSUME StreamInv, ServerWrite
  PROVE  StreamInv'
<1> USE DEF StreamInv
<1>1. PICK k \in Kinds : text' = Append(text, k)
  BY DEF ServerWrite
<1>2. /\ text \in Seq(Kinds) /\ text' \in Seq(Kinds) /\ Len(text') = Len(text) + 1
      /\ Len(text) \in Nat /\ \A n \in 1..Len(text) : text'[n] = text[n]
      /\ UNCHANGED <<call, pc, attempt, delivered, seen, requests, outcome, position>>
  BY <1>1 DEF ServerWrite, TypeOK
<1>3. seen' \in Seq(1..Len(text'))
  <2>1. seen \in Seq(1..Len(text)) /\ 1..Len(text) \subseteq 1..Len(text')
    BY <1>2 DEF TypeOK
  <2> QED
    BY <1>2, <2>1
<1>4. TypeOK'
  BY <1>2, <1>3 DEF TypeOK, Attempts
<1>5. ASSUME NEW n \in 1..position PROVE Wanted(n)' <=> Wanted(n)
  <2>1. text'[n] = text[n]
    BY <1>2 DEF TypeOK
  <2> QED
    BY <1>2, <2>1 DEF Wanted
<1>6. SeenIsSent'
  BY <1>2, <1>5 DEF SeenIsSent
<1>7. OneRequestPerAttempt' /\ FailsOnlyWhenExhausted'
  BY <1>2 DEF OneRequestPerAttempt, FailsOnlyWhenExhausted, Attempts
<1> QED
  BY <1>4, <1>6, <1>7

LEMMA StreamStep == StreamInv /\ [Next]_vars => StreamInv'
<1> SUFFICES ASSUME StreamInv, [Next]_vars PROVE StreamInv'
  OBVIOUS
<1>1. CASE CredentialError \/ StreamClosed \/ ConsumerStop
  BY <1>1, FinishStep DEF CredentialError, StreamClosed, ConsumerStop
<1>2. CASE UNCHANGED vars
  BY <1>2 DEF vars, StreamInv, TypeOK, OneRequestPerAttempt, SeenIsSent, Wanted,
     FailsOnlyWhenExhausted, Attempts
<1> QED
  BY <1>1, <1>2, TransportErrorStep, ResponseStep, SendRequestStep, ReceiveLineStep,
     ServerWriteStep
  DEF Next, ClientStep

\* The inductive invariant of stream_lines: attempts, and the place in the text.
THEOREM StreamInvariant == Spec => []StreamInv
  BY StreamInit, StreamStep, PTL DEF Spec

\* What a stream holds at any time has its type.
THEOREM StreamTypeOK == Spec => []TypeOK
  BY StreamInvariant, PTL DEF StreamInv

\* The caller has each line it should get once, in order, and none is missing
\* before one it has: a retry never repeats what was handed on.
THEOREM StreamSeenIsPrefix == Spec => []SeenIsPrefix
<1>1. StreamInv => SeenIsPrefix
  <2> SUFFICES ASSUME StreamInv PROVE SeenIsPrefix
    OBVIOUS
  <2>1. /\ \A i \in 1..Len(seen) : seen[i] \in 1..position /\ Wanted(seen[i])
        /\ \A i, j \in 1..Len(seen) : i < j => seen[i] < seen[j]
        /\ \A n \in 1..position : Wanted(n) => \E j \in 1..Len(seen) : seen[j] = n
        /\ position \in Nat /\ Len(seen) \in Nat
    BY DEF StreamInv, SeenIsSent, TypeOK
  <2>2. ASSUME NEW i \in 1..Len(seen), NEW n \in 1..seen[i], Wanted(n)
        PROVE  \E j \in 1..i : seen[j] = n
    <3>1. n \in 1..position /\ n <= seen[i] /\ seen[i] \in Nat
      BY <2>1
    <3>2. PICK j \in 1..Len(seen) : seen[j] = n
      BY <2>1, <2>2, <3>1
    <3>3. ~(i < j)
      BY <2>1, <3>1, <3>2
    <3> QED
      BY <2>1, <3>2, <3>3
  <2> QED
    BY <2>1, <2>2 DEF SeenIsPrefix
<1> QED
  BY <1>1, StreamInvariant, PTL

\* A transport error the caller sees before any line ends the last attempt.
THEOREM StreamFailsOnlyWhenExhausted == Spec => []FailsOnlyWhenExhausted
  BY StreamInvariant, PTL DEF StreamInv

\* After a line was handed on nothing is sent any more.
THEOREM StreamNoRequestAfterLine == Spec => NoRequestAfterLine
<1>1. ASSUME StreamInv, [Next]_vars PROVE [delivered => requests' = requests]_vars
  BY <1>1 DEF StreamInv, OneRequestPerAttempt, Next, ClientStep, CredentialError, SendRequest,
     Response, TransportError, ReceiveLine, StreamClosed, ConsumerStop, ServerWrite, Finish,
     TryAgain, vars
<1> QED
  BY <1>1, StreamInvariant, PTL DEF Spec, NoRequestAfterLine
==============================================================================
