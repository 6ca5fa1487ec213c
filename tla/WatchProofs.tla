---------------------------- MODULE WatchProofs ----------------------------
(***************************************************************************)
(* Theorems about one watch call, for any objects, selection, policies and *)
(* bounds.  IInv is the inductive invariant: the types, how the two        *)
(* counters of the loop move together, and what a stream's position says   *)
(* about the events before it.                                             *)
(***************************************************************************)
EXTENDS Watch, SequenceTheorems, TLAPS

\* A sequence of versions stays one when the log grows.
LEMMA AppendToLog ==
  ASSUME NEW S, NEW s \in Seq(S), NEW o \in S
  PROVE  /\ Append(s, o) \in Seq(S)
         /\ Len(Append(s, o)) = Len(s) + 1
         /\ \A i \in 1..Len(s) : Append(s, o)[i] = s[i]
         /\ Append(s, o)[Len(s) + 1] = o
BY AppendProperties

\* What TypeOK says of the policy in force, from the assumption on Policies.
LEMMA PolicyType ==
  ASSUME TypeOK
  PROVE  /\ call.policy.max_attempts \in Nat \ {0}
         /\ call.start \in {0, NoVersion}
         /\ call.reconnect \in BOOLEAN /\ call.relist \in BOOLEAN
BY WatchAssumption DEF TypeOK, Calls

\* Due, Latest and Cursor only name versions of the log.
LEMMA VersionsInLog ==
  ASSUME TypeOK
  PROVE  /\ Cursor \in 0..Len(log)
         /\ \A c : Due(c) \subseteq 1..Len(log)
         /\ Latest \subseteq 1..Len(log)
BY WatchAssumption DEF TypeOK, Cursor, Due, Latest

\* Leaving the loop keeps the types, whatever the outcome.
LEMMA FinishType ==
  ASSUME TypeOK, UNCHANGED server,
         NEW how \in Endings \union Statuses,
         Finish(how)
  PROVE  TypeOK'
BY WatchAssumption DEF TypeOK, Finish, Endings, server, Calls

\* So does going round it after a failure.
LEMMA SleepAndReopenType ==
  ASSUME TypeOK, UNCHANGED server, pc # "done", MayRetry, SleepAndReopen
  PROVE  TypeOK'
BY PolicyType DEF TypeOK, SleepAndReopen, Reopen, MayRetry, AttemptsLeft, server, Calls

\* And yielding an event the log holds.
LEMMA YieldType ==
  ASSUME TypeOK, NEW v \in 1..Len(log), Yield(v),
         position' \in 0..Len(log), backlog' \subseteq 1..Len(log)
  PROVE  TypeOK'
<1>1. delivered' \in Seq(1..Len(log))
  BY AppendProperties DEF TypeOK, Yield
<1> QED
  BY <1>1, PolicyType DEF TypeOK, Yield, server, Calls

\* Every reachable state of the loop is well-typed: in particular the failure
\* count never reaches max_attempts and the resume point is a version the
\* server has issued.
THEOREM WatchTypeOK == Spec => []TypeOK
<1>1. Init => TypeOK
  BY WatchAssumption, EmptySeq DEF Init, TypeOK, Calls
<1>2. TypeOK /\ [Next]_vars => TypeOK'
  <2> SUFFICES ASSUME TypeOK, [Next]_vars PROVE TypeOK'
    OBVIOUS
  <2> USE DEF Calls
  <2>1. CASE UNCHANGED vars
    BY <2>1 DEF TypeOK, vars, client, stream, server
  <2>2. ASSUME NEW s \in Statuses, Response(s) PROVE TypeOK'
    <3> DEFINE retriable == Retriable(call.policy, s, failures, call.policy.max_attempts)
    <3>1. CASE retriable /\ SleepAndReopen
      BY <2>2, <3>1, SleepAndReopenType DEF Response, Retriable, MayRetry
    <3>2. CASE Finish(s)
      BY <2>2, <3>2, FinishType DEF Endings, Response
    <3>3. CASE Finish("overflow")
      BY <2>2, <3>3, FinishType DEF Endings, Response
    <3>4. CASE Streaming
      BY <2>2, <3>4, VersionsInLog DEF Response, Streaming, TypeOK, server
    <3> QED
      BY <2>2, <3>1, <3>2, <3>3, <3>4 DEF Response
  <2>3. CASE SendRequest
    BY <2>3 DEF SendRequest, TypeOK, stream, server
  <2>4. CASE CredentialError
    BY <2>4, FinishType DEF Endings, CredentialError
  <2>5. CASE TransportError
    BY <2>5, FinishType, SleepAndReopenType DEF Endings, TransportError
  <2>6. CASE ReceiveEvent
    BY <2>6, YieldType, VersionsInLog DEF ReceiveEvent, TypeOK
  <2>7. CASE ReceiveInitialEvent
    BY <2>7, YieldType DEF ReceiveInitialEvent, TypeOK
  <2>8. CASE ReceiveBookmark
    BY <2>8, PolicyType DEF ReceiveBookmark, TypeOK, server
  <2>9. CASE ReceiveExpired
    BY <2>9, FinishType DEF Endings, ReceiveExpired, TypeOK, stream, server
  <2>10. CASE ReceiveUnusable
    BY <2>10, FinishType DEF Endings, ReceiveUnusable
  <2>11. CASE StreamClosed
    BY <2>11, FinishType, SleepAndReopenType DEF Endings, StreamClosed
  <2>12. CASE Relist
    <3>1. PICK fresh \in (position + 1)..Len(log) :
            /\ current_version' = fresh
            /\ skipped' = skipped \union {v \in Due(Cursor) : v <= fresh /\ ~Settled(v)}
      BY <2>12 DEF Relist
    <3>2. skipped' \subseteq 1..Len(log)
      BY <3>1, VersionsInLog DEF TypeOK
    <3>3. fresh \in 0..Len(log)
      BY <3>1 DEF TypeOK
    <3>4. /\ pc = "relist" /\ failures' = 0 /\ opens' = 0 /\ pc' = "open" /\ position' = 0
          /\ backlog' = {}
          /\ UNCHANGED <<call, outcome, delivered, log, compacted>>
      BY <2>12 DEF Relist, Reopen, server
    <3> QED
      BY <3>1, <3>2, <3>3, <3>4, PolicyType DEF TypeOK
  <2>13. CASE RelistUnusable
    BY <2>13, FinishType DEF Endings, RelistUnusable
  <2>14. CASE ConsumerStop
    BY <2>14, FinishType DEF Endings, ConsumerStop
  <2>15. CASE ServerWrite
    <3>1. PICK o \in Objects : log' = Append(log, o)
      BY <2>15 DEF ServerWrite
    <3>2. log' \in Seq(Objects) /\ Len(log') = Len(log) + 1
      BY <3>1, AppendToLog DEF TypeOK
    <3>3. delivered' \in Seq(1..Len(log'))
      BY <2>15, <3>2, SeqMonotonic DEF ServerWrite, client, TypeOK
    <3> QED
      BY <2>15, <3>2, <3>3 DEF ServerWrite, TypeOK, client, stream
  <2>16. CASE ServerCompact
    BY <2>16 DEF ServerCompact, TypeOK, client, stream
  <2> QED
    BY <2>1, <2>2, <2>3, <2>4, <2>5, <2>6, <2>7, <2>8, <2>9, <2>10, <2>11,
       <2>12, <2>13, <2>14, <2>15, <2>16 DEF Next, ClientStep
<1> QED
  BY <1>1, <1>2, PTL DEF Spec

-----------------------------------------------------------------------------
(***************************************************************************)
(* The counters                                                            *)
(***************************************************************************)
\* The request count and the failure count of the loop stay one apart, whatever
\* the step.
LEMMA BudgetStep ==
  ASSUME TypeOK, Budget, [Next]_vars
  PROVE  Budget'
<1> USE PolicyType DEF Budget, BoundedSilence, GivesUpOnlyWhenExhausted
<1>1. CASE UNCHANGED vars
  BY <1>1 DEF vars, client
<1>2. ASSUME NEW how, Finish(how),
             pc = "open" => opens < call.policy.max_attempts,
             how \in {"transport", "closedRepeatedly"} /\ call.reconnect
               => opens = call.policy.max_attempts
      PROVE  Budget'
  BY <1>2 DEF Finish, TypeOK
<1>3. ASSUME SleepAndReopen, MayRetry, pc \in {"requested", "streaming", "relist"}
      PROVE  Budget'
  BY <1>3 DEF SleepAndReopen, Reopen, MayRetry, AttemptsLeft, TypeOK
<1>4. pc = "open" => opens < call.policy.max_attempts
  BY DEF TypeOK
<1>5. pc \in {"requested", "streaming", "relist"} /\ ~MayRetry
        => opens = call.policy.max_attempts
  BY DEF TypeOK, MayRetry, AttemptsLeft
<1>6. ASSUME NEW s \in Statuses, Response(s) PROVE Budget'
  <2>1. CASE SleepAndReopen /\ MayRetry
    BY <1>3, <1>6, <2>1 DEF Response
  <2>2. CASE Finish(s)
    BY <1>6, <2>2, WatchAssumption DEF Response, Finish, TypeOK, Endings
  <2>3. CASE Finish("overflow")
    BY <1>6, <2>3 DEF Response, Finish, TypeOK
  <2>4. CASE Streaming
    BY <1>6, <2>4 DEF Response, Streaming, TypeOK
  <2> QED
    BY <1>6, <2>1, <2>2, <2>3, <2>4 DEF Response, Retriable, MayRetry
<1>7. CASE SendRequest
  BY <1>7, <1>4 DEF SendRequest, TypeOK
<1>8. CASE CredentialError
  BY <1>8, <1>2, <1>4 DEF CredentialError
<1>9. CASE TransportError
  BY <1>9, <1>2, <1>3, <1>5 DEF TransportError
<1>10. CASE ReceiveEvent
  BY <1>10 DEF ReceiveEvent, Yield, TypeOK
<1>11. CASE ReceiveInitialEvent
  BY <1>11 DEF ReceiveInitialEvent, Yield, TypeOK
<1>12. CASE ReceiveBookmark
  BY <1>12 DEF ReceiveBookmark, TypeOK
<1>13. CASE ReceiveExpired
  BY <1>13, <1>2 DEF ReceiveExpired
<1>14. CASE ReceiveUnusable
  BY <1>14, <1>2 DEF ReceiveUnusable
<1>15. CASE StreamClosed
  BY <1>15, <1>2, <1>3, <1>5 DEF StreamClosed
<1>16. CASE Relist
  BY <1>16 DEF Relist, Reopen, TypeOK
<1>17. CASE RelistUnusable
  BY <1>17, <1>2 DEF RelistUnusable
<1>18. CASE ConsumerStop
  BY <1>18, <1>2, <1>4 DEF ConsumerStop
<1>19. CASE ServerWrite \/ ServerCompact
  BY <1>19 DEF ServerWrite, ServerCompact, client
<1> QED
  BY <1>1, <1>6, <1>7, <1>8, <1>9, <1>10, <1>11, <1>12, <1>13, <1>14, <1>15,
     <1>16, <1>17, <1>18, <1>19 DEF Next, ClientStep

-----------------------------------------------------------------------------
(***************************************************************************)
(* The resume point                                                        *)
(***************************************************************************)
Data == (FromList => ResumePoint) /\ VersionsIncrease /\ NoSilentGap

USE DEF FromList

\* A step that moves neither the resume point nor the log, and opens no stream.
LEMMA QuietStep ==
  ASSUME TypeOK, Data,
         UNCHANGED <<call, current_version, delivered, skipped, log>>,
         backlog' = {} \/ UNCHANGED backlog,
         pc' \in {"streaming", "relist"}
           => pc \in {"streaming", "relist"} /\ position' = position
  PROVE  Data'
BY DEF Data, ResumePoint, VersionsIncrease, NoSilentGap, Due, Cursor,
       Settled, DeliveredSet, Versioned

\* A new write changes nothing about the older versions.
LEMMA WriteKeepsHistory ==
  ASSUME TypeOK, NEW o \in Objects, log' = Append(log, o),
         UNCHANGED <<delivered, skipped>>,
         NEW v \in 1..Len(log)
  PROVE  /\ \A c : v \in Due(c)' <=> v \in Due(c)
         /\ Versioned(v)' <=> Versioned(v)
         /\ Settled(v)' <=> Settled(v)
BY AppendToLog DEF TypeOK, Due, Versioned, Settled, DeliveredSet

LEMMA WriteStep ==
  ASSUME TypeOK, Data, ServerWrite
  PROVE  Data'
<1>1. PICK o \in Objects : log' = Append(log, o)
  BY DEF ServerWrite
<1>2. UNCHANGED <<call, current_version, delivered, skipped, pc, position, backlog>>
  BY DEF ServerWrite, client, stream
<1>3. \A v \in 1..Len(log) :
        /\ \A c : v \in Due(c)' <=> v \in Due(c)
        /\ Versioned(v)' <=> Versioned(v)
        /\ Settled(v)' <=> Settled(v)
  BY <1>1, <1>2, WriteKeepsHistory
<1>4. \A i \in 1..Len(delivered) : delivered[i] \in 1..Len(log)
  BY DEF TypeOK
<1>5. \A c : Due(c)' \subseteq Nat \ {0}
  BY <1>1, AppendToLog DEF TypeOK, Due
<1>6. SUFFICES ASSUME FromList PROVE Data'
  BY <1>2 DEF Data, VersionsIncrease, NoSilentGap
<1>7. Cursor = current_version /\ current_version \in 0..Len(log) /\ Cursor' = Cursor
  BY <1>2, <1>6 DEF Data, ResumePoint, Cursor, TypeOK
<1>8. VersionsIncrease'
  BY <1>2, <1>3, <1>4 DEF Data, VersionsIncrease
<1>9. NoSilentGap'
  <2> SUFFICES ASSUME NEW v \in Due(0)', v <= Cursor' PROVE Settled(v)'
    BY DEF NoSilentGap
  <2>1. v \in 1..Len(log)
    BY <1>5, <1>7, LenProperties DEF TypeOK
  <2> QED
    BY <2>1, <1>3, <1>6, <1>7 DEF Data, NoSilentGap
<1>10. ASSUME NEW v \in Due(current_version)', v <= position,
              pc \in {"streaming", "relist"}
       PROVE  Settled(v)'
  <2>1. v \in 1..Len(log)
    BY <1>5, <1>10, LenProperties DEF TypeOK
  <2>2. v \in Due(current_version)
    BY <2>1, <1>2, <1>3, <1>10
  <2> QED
    BY <2>1, <2>2, <1>3, <1>6, <1>10 DEF Data, ResumePoint
<1>11. ResumePoint'
  BY <1>2, <1>3, <1>4, <1>6, <1>10 DEF Data, ResumePoint
<1> QED
  BY <1>8, <1>9, <1>11 DEF Data

\* A stream opened at the resume point has nothing behind it to settle.
LEMMA StreamingStep ==
  ASSUME TypeOK, Data, Streaming, UNCHANGED server
  PROVE  Data'
BY DEF Data, Streaming, server, TypeOK, ResumePoint, VersionsIncrease, NoSilentGap,
       Due, Cursor, Settled, DeliveredSet, Versioned

LEMMA BookmarkStep ==
  ASSUME TypeOK, Data, ReceiveBookmark
  PROVE  Data'
<1>1. PICK b \in position..Len(log) :
         /\ \A w \in Due(position) : b < w
         /\ current_version' = b /\ position' = b
  BY DEF ReceiveBookmark
<1>2. UNCHANGED <<call, delivered, skipped, log, pc, backlog>> /\ pc = "streaming"
  BY DEF ReceiveBookmark, server
<1>3. b \in 0..Len(log) /\ position \in 0..Len(log) /\ position <= b
  BY <1>1 DEF TypeOK
<1>4. SUFFICES ASSUME FromList PROVE Data'
  BY <1>2 DEF Data, VersionsIncrease, NoSilentGap
<1>5. Cursor = current_version /\ current_version \in 0..Len(log)
      /\ current_version <= position
  BY <1>2, <1>4 DEF Data, ResumePoint, Cursor, TypeOK
<1>6. \A v \in Due(0) : v <= b => Settled(v)
  <2> SUFFICES ASSUME NEW v \in Due(0), v <= b PROVE Settled(v)
    OBVIOUS
  <2>1. CASE v <= current_version
    BY <2>1, <1>4, <1>5 DEF Data, NoSilentGap
  <2>2. CASE v > current_version /\ v <= position
    BY <2>2, <1>2, <1>4, <1>5 DEF Data, ResumePoint, Due
  <2>3. CASE v > position
    BY <2>3, <1>1, <1>3 DEF Due
  <2> QED
    BY <2>1, <2>2, <2>3, <1>3, <1>5 DEF Due
<1>7. NoSilentGap' /\ VersionsIncrease'
  BY <1>1, <1>2, <1>3, <1>4, <1>6, WatchAssumption
  DEF Data, NoSilentGap, VersionsIncrease, Due, Cursor, Settled, DeliveredSet, Versioned
<1>8. \A i \in 1..Len(delivered) : Versioned(delivered[i]) => delivered[i] <= b
  <2> SUFFICES ASSUME NEW i \in 1..Len(delivered), Versioned(delivered[i])
              PROVE  delivered[i] <= b
    OBVIOUS
  <2>1. delivered[i] <= current_version /\ delivered[i] \in 1..Len(log)
    BY <1>4 DEF Data, ResumePoint, TypeOK
  <2> QED
    BY <2>1, <1>3, <1>5
<1>9. ResumePoint'
  BY <1>1, <1>2, <1>3, <1>4, <1>8, WatchAssumption
  DEF Data, ResumePoint, Due, Versioned
<1> QED
  BY <1>7, <1>9 DEF Data

\* Delivering the next selected event: what lies between the resume point and
\* it was settled, and no versioned event was at or beyond it.
LEMMA EventStep ==
  ASSUME TypeOK, Data, ReceiveEvent
  PROVE  Data'
<1>1. PICK v \in Due(position) :
         (\A w \in Due(position) : v <= w) /\ Yield(v) /\ position' = v
  BY DEF ReceiveEvent
<1>2. UNCHANGED <<call, skipped, log, pc, backlog>> /\ pc = "streaming"
  BY <1>1 DEF ReceiveEvent, Yield, server
<1>3. /\ v \in 1..Len(log) /\ position \in 0..Len(log) /\ position < v
      /\ log[v] \in Selected
  BY DEF TypeOK, Due
<1>4. /\ delivered' = Append(delivered, v)
      /\ current_version' = IF Versioned(v) THEN v ELSE current_version
  BY <1>1 DEF Yield
<1>5. /\ Len(delivered') = Len(delivered) + 1 /\ Len(delivered) \in Nat
      /\ \A i \in 1..Len(delivered) :
           delivered'[i] = delivered[i] /\ delivered[i] \in 1..Len(log)
      /\ delivered'[Len(delivered) + 1] = v
  BY <1>3, <1>4, AppendToLog DEF TypeOK
<1>6. \A w : Settled(w)' <=> Settled(w) \/ w = v
  BY <1>2, <1>5 DEF Settled, DeliveredSet
<1>7. /\ \A c : Due(c)' = Due(c)
      /\ \A w : Versioned(w)' <=> Versioned(w)
  BY <1>2 DEF Due, Versioned
<1>8. SUFFICES ASSUME FromList PROVE Data'
  BY <1>2 DEF Data, VersionsIncrease, NoSilentGap
<1>9. /\ current_version \in 0..Len(log) /\ current_version <= position
      /\ Cursor = current_version /\ current_version' \in 0..Len(log)
      /\ Cursor' = current_version'
  BY <1>2, <1>3, <1>4, <1>8, WatchAssumption DEF Data, ResumePoint, Cursor, TypeOK
<1>10. \A w \in Due(0) : w <= v => Settled(w)'
  <2> SUFFICES ASSUME NEW w \in Due(0), w <= v PROVE Settled(w)'
    OBVIOUS
  <2>1. w \in 1..Len(log)
    BY DEF Due
  <2>2. CASE w <= current_version
    BY <2>2, <1>6, <1>8, <1>9 DEF Data, NoSilentGap
  <2>3. CASE w > current_version /\ w <= position
    BY <2>3, <1>2, <1>6, <1>8, <1>9 DEF Data, ResumePoint, Due
  <2>4. CASE w > position
    BY <2>4, <1>1, <1>3, <1>6, <2>1 DEF Due
  <2> QED
    BY <2>1, <2>2, <2>3, <2>4, <1>3, <1>9
<1>11. current_version' <= v
  BY <1>3, <1>4, <1>9
<1>12. \A i \in 1..Len(delivered) :
         Versioned(delivered[i]) => delivered[i] <= current_version
  BY <1>8 DEF Data, ResumePoint
<1>13. NoSilentGap'
  <2> SUFFICES ASSUME NEW w \in Due(0), w <= current_version' PROVE Settled(w)'
    BY <1>7, <1>9 DEF NoSilentGap
  <2> QED
    BY <1>3, <1>9, <1>10, <1>11 DEF Due
<1>14. VersionsIncrease'
  <2> SUFFICES ASSUME NEW i \in 1..Len(delivered'), NEW j \in 1..Len(delivered'),
                      i < j, Versioned(delivered'[i]), Versioned(delivered'[j])
               PROVE  delivered'[i] < delivered'[j]
    BY <1>2, <1>7 DEF VersionsIncrease, Versioned
  <2>1. CASE j \in 1..Len(delivered)
    BY <2>1, <1>5, <1>8 DEF Data, VersionsIncrease
  <2>2. CASE j = Len(delivered) + 1
    <3>1. i \in 1..Len(delivered)
      BY <2>2, <1>5
    <3> QED
      BY <3>1, <2>2, <1>3, <1>5, <1>9, <1>12
  <2> QED
    BY <2>1, <2>2, <1>5
<1>15. ResumePoint'
  <2>1. backlog' = {} /\ current_version' # NoVersion
    BY <1>2, <1>8, <1>9, WatchAssumption DEF Data, ResumePoint
  <2>2. current_version' <= position'
    BY <1>1, <1>11
  <2>3. \A w \in Due(current_version') : w <= position' => Settled(w)'
    BY <1>1, <1>9, <1>10 DEF Due
  <2>4. ASSUME NEW i \in 1..Len(delivered'), Versioned(delivered'[i])
        PROVE  delivered'[i] <= current_version'
    <3>1. CASE i \in 1..Len(delivered)
      BY <3>1, <2>4, <1>3, <1>4, <1>5, <1>9, <1>12
    <3>2. CASE i = Len(delivered) + 1
      BY <3>2, <2>4, <1>3, <1>4, <1>5
    <3> QED
      BY <3>1, <3>2, <1>5
  <2> QED
    BY <2>1, <2>2, <2>3, <2>4, <1>2, <1>7 DEF ResumePoint
<1> QED
  BY <1>13, <1>14, <1>15 DEF Data

\* A recovery resumes beyond the position of the expired stream, and what it
\* jumps over is recorded as skipped.
LEMMA RelistStep ==
  ASSUME TypeOK, Data, Relist
  PROVE  Data'
<1>1. PICK fresh \in (position + 1)..Len(log) :
        /\ current_version' = fresh
        /\ skipped' = skipped \union {v \in Due(Cursor) : v <= fresh /\ ~Settled(v)}
  BY DEF Relist
<1>2. /\ UNCHANGED <<call, delivered, log>>
      /\ pc = "relist" /\ pc' = "open" /\ backlog' = {}
  BY DEF Relist, Reopen, server
<1>3. SUFFICES ASSUME FromList PROVE Data'
  BY <1>2 DEF Data, VersionsIncrease, NoSilentGap
<1>4. /\ current_version \in 0..Len(log) /\ Cursor = current_version
      /\ position \in 0..Len(log) /\ current_version <= position
      /\ fresh \in 1..Len(log) /\ Cursor' = fresh /\ fresh # NoVersion
  BY <1>1, <1>2, <1>3, WatchAssumption DEF Data, ResumePoint, Cursor, TypeOK
<1>5. \A w : Settled(w) => Settled(w)'
  BY <1>1, <1>2 DEF Settled, DeliveredSet
<1>6. NoSilentGap'
  <2> SUFFICES ASSUME NEW w \in Due(0), w <= fresh PROVE Settled(w)'
    BY <1>2, <1>4 DEF NoSilentGap, Due
  <2>1. CASE w <= current_version
    BY <2>1, <1>3, <1>4, <1>5 DEF Data, NoSilentGap
  <2>2. CASE w > current_version
    BY <2>2, <1>1, <1>4, <1>5 DEF Due, Settled
  <2> QED
    BY <2>1, <2>2, <1>4 DEF Due
<1>7. VersionsIncrease'
  BY <1>2 DEF Data, VersionsIncrease, Versioned
<1>8. \A i \in 1..Len(delivered) : Versioned(delivered[i]) => delivered[i] <= fresh
  <2> SUFFICES ASSUME NEW i \in 1..Len(delivered), Versioned(delivered[i])
              PROVE  delivered[i] <= fresh
    OBVIOUS
  <2>1. delivered[i] <= current_version /\ delivered[i] \in 1..Len(log)
    BY <1>3 DEF Data, ResumePoint, TypeOK
  <2> QED
    BY <2>1, <1>1, <1>4
<1>9. \A i : Versioned(delivered[i])' <=> Versioned(delivered[i])
  BY <1>2 DEF Versioned
<1>10. ResumePoint'
  <2>1. current_version' = fresh /\ current_version' # NoVersion
    BY <1>1, <1>4
  <2>2. \A i \in 1..Len(delivered') :
          Versioned(delivered[i])' => delivered'[i] <= current_version'
    BY <2>1, <1>2, <1>8, <1>9
  <2> QED
    BY <2>1, <2>2, <1>2 DEF ResumePoint
<1> QED
  BY <1>6, <1>7, <1>10 DEF Data

-----------------------------------------------------------------------------
(***************************************************************************)
(* The theorems                                                            *)
(***************************************************************************)
LEMMA DataStep ==
  ASSUME TypeOK, Data, [Next]_vars
  PROVE  Data'
<1>1. CASE UNCHANGED vars
  BY <1>1, QuietStep DEF vars, client, stream, server
<1>2. ASSUME NEW how, Finish(how), UNCHANGED server PROVE Data'
  BY <1>2, QuietStep DEF Finish, server
<1>3. ASSUME SleepAndReopen, UNCHANGED server PROVE Data'
  BY <1>3, QuietStep DEF SleepAndReopen, Reopen, server
<1>4. ASSUME NEW s \in Statuses, Response(s) PROVE Data'
  BY <1>2, <1>3, <1>4, StreamingStep DEF Response
<1>5. CASE SendRequest
  BY <1>5, QuietStep DEF SendRequest, stream, server
<1>6. CASE CredentialError
  BY <1>2, <1>6 DEF CredentialError
<1>7. CASE TransportError
  BY <1>2, <1>3, <1>7 DEF TransportError
<1>8. CASE ReceiveEvent
  BY <1>8, EventStep
<1>9. CASE ReceiveInitialEvent
  <2>1. call' = call /\ backlog # {}
    BY <1>9 DEF ReceiveInitialEvent, Yield
  <2> QED
    BY <2>1 DEF Data, ResumePoint, VersionsIncrease, NoSilentGap
<1>10. CASE ReceiveBookmark
  BY <1>10, BookmarkStep
<1>11. CASE ReceiveExpired
  BY <1>2, <1>11, QuietStep DEF ReceiveExpired, stream, server
<1>12. CASE ReceiveUnusable
  BY <1>2, <1>12 DEF ReceiveUnusable
<1>13. CASE StreamClosed
  BY <1>2, <1>3, <1>13 DEF StreamClosed
<1>14. CASE Relist
  BY <1>14, RelistStep
<1>15. CASE RelistUnusable
  BY <1>2, <1>15 DEF RelistUnusable
<1>16. CASE ConsumerStop
  BY <1>2, <1>16 DEF ConsumerStop
<1>17. CASE ServerWrite
  BY <1>17, WriteStep
<1>18. CASE ServerCompact
  BY <1>18, QuietStep DEF ServerCompact, client, stream
<1> QED
  BY <1>1, <1>4, <1>5, <1>6, <1>7, <1>8, <1>9, <1>10, <1>11, <1>12, <1>13, <1>14,
     <1>15, <1>16, <1>17, <1>18 DEF Next, ClientStep

\* The inductive invariant holds throughout every call.
THEOREM WatchInvariant == Spec => []IInv
<1>1. Init => Budget /\ Data
  BY WatchAssumption, EmptySeq
  DEF Init, Budget, BoundedSilence, GivesUpOnlyWhenExhausted, Data, ResumePoint,
      VersionsIncrease, NoSilentGap, Due, Calls
<1>2. TypeOK /\ Budget /\ Data /\ [Next]_vars => (Budget /\ Data)'
  BY BudgetStep, DataStep
<1>3. TypeOK /\ Budget /\ Data => IInv
  BY DEF IInv, Data
<1> QED
  BY <1>1, <1>2, <1>3, WatchTypeOK, PTL DEF Spec

\* Reconnecting and recovering never repeat or reorder a versioned event of a
\* call that began at a version.
THEOREM WatchVersionsIncrease == Spec => []VersionsIncrease
<1>1. IInv => VersionsIncrease
  BY DEF IInv
<1> QED
  BY <1>1, WatchInvariant, PTL

\* Nor do they lose a selected one, except in the gap of a recovery.
THEOREM WatchNoSilentGap == Spec => []NoSilentGap
<1>1. IInv => NoSilentGap
  BY DEF IInv
<1> QED
  BY <1>1, WatchInvariant, PTL

\* A call never sends more than max_attempts requests in silence.
THEOREM WatchBoundedSilence == Spec => []BoundedSilence
<1>1. IInv => BoundedSilence
  BY DEF IInv, Budget
<1> QED
  BY <1>1, WatchInvariant, PTL

\* A reconnecting call never gives up with attempts left.
THEOREM WatchGivesUpOnlyWhenExhausted == Spec => []GivesUpOnlyWhenExhausted
<1>1. IInv => GivesUpOnlyWhenExhausted
  BY DEF IInv, Budget
<1> QED
  BY <1>1, WatchInvariant, PTL

-----------------------------------------------------------------------------
(***************************************************************************)
(* Refinement of EventFeed                                                 *)
(***************************************************************************)
\* A step that moves neither the cursor nor the log is invisible to the feed.
LEMMA QuietIsStutter ==
  ASSUME UNCHANGED <<current_version, delivered, skipped, log>>
  PROVE  UNCHANGED Feed!vars
BY DEF Feed!vars, Cursor

LEMMA FeedStep ==
  ASSUME IInv, FromList, [Next]_vars
  PROVE  [Feed!Next]_(Feed!vars)
<1> USE DEF Feed!Due, Feed!Versioned, Feed!Settled, Feed!DeliveredSet,
           Due, Versioned, Settled, DeliveredSet
<1>1. /\ TypeOK /\ ResumePoint
      /\ current_version \in 0..Len(log) /\ Cursor = current_version
  BY DEF IInv, TypeOK, ResumePoint, Cursor
<1>2. CASE UNCHANGED vars
  BY <1>2, QuietIsStutter DEF vars, client, server
<1>3. ASSUME NEW how, Finish(how), UNCHANGED server PROVE UNCHANGED Feed!vars
  BY <1>3, QuietIsStutter DEF Finish, server
<1>4. ASSUME SleepAndReopen, UNCHANGED server PROVE UNCHANGED Feed!vars
  BY <1>4, QuietIsStutter DEF SleepAndReopen, Reopen, server
<1>5. ASSUME NEW s \in Statuses, Response(s) PROVE UNCHANGED Feed!vars
  BY <1>3, <1>4, <1>5, QuietIsStutter DEF Response, Streaming, server
<1>6. CASE SendRequest
  BY <1>6, QuietIsStutter DEF SendRequest, server
<1>7. CASE CredentialError \/ ReceiveUnusable \/ RelistUnusable \/ ConsumerStop
  BY <1>3, <1>7 DEF CredentialError, ReceiveUnusable, RelistUnusable, ConsumerStop
<1>8. CASE TransportError \/ StreamClosed
  BY <1>3, <1>4, <1>8 DEF TransportError, StreamClosed
<1>9. CASE ReceiveExpired
  BY <1>3, <1>9, QuietIsStutter DEF ReceiveExpired, server
<1>10. CASE ReceiveEvent
  <2>1. PICK v \in Due(position) :
          (\A w \in Due(position) : v <= w) /\ Yield(v) /\ position' = v
    BY <1>10 DEF ReceiveEvent
  <2>2. /\ pc = "streaming" /\ UNCHANGED <<skipped, log>>
        /\ delivered' = Append(delivered, v)
        /\ current_version' = IF Versioned(v) THEN v ELSE current_version
    BY <1>10, <2>1 DEF ReceiveEvent, Yield, server
  <2>3. v \in Due(Cursor) /\ current_version <= position /\ position \in Nat
    BY <2>1, <2>2, <1>1 DEF ResumePoint, TypeOK
  <2>4. \A w \in Due(Cursor) : w < v => Settled(w)
    <3> SUFFICES ASSUME NEW w \in Due(Cursor), w < v PROVE Settled(w)
      OBVIOUS
    <3>1. w <= position
      BY <2>1, <2>3
    <3> QED
      BY <3>1, <2>2, <1>1 DEF ResumePoint
  <2>5. Cursor' = IF Versioned(v) THEN v ELSE Cursor
    BY <2>1, <2>2, <1>1, WatchAssumption DEF Cursor
  <2> QED
    BY <2>2, <2>3, <2>4, <2>5 DEF Feed!Next, Feed!Deliver
<1>11. CASE ReceiveInitialEvent
  BY <1>11, <1>1 DEF ReceiveInitialEvent, ResumePoint
<1>12. CASE ReceiveBookmark
  <2>1. PICK b \in position..Len(log) :
          (\A w \in Due(position) : b < w) /\ current_version' = b
    BY <1>12 DEF ReceiveBookmark
  <2>2. pc = "streaming" /\ UNCHANGED <<delivered, skipped, log>>
    BY <1>12 DEF ReceiveBookmark, server
  <2>3. b \in Cursor..Len(log) /\ Cursor' = b /\ position \in Nat
    BY <2>1, <2>2, <1>1, WatchAssumption DEF ResumePoint, TypeOK, Cursor
  <2>4. \A w \in Due(Cursor) : w <= b => Settled(w)
    <3> SUFFICES ASSUME NEW w \in Due(Cursor), w <= b PROVE Settled(w)
      OBVIOUS
    <3>1. w <= position
      BY <2>1, <2>3
    <3> QED
      BY <3>1, <2>2, <1>1 DEF ResumePoint
  <2> QED
    BY <2>2, <2>3, <2>4 DEF Feed!Next, Feed!Checkpoint
<1>13. CASE Relist
  <2>1. PICK fresh \in (position + 1)..Len(log) :
          /\ current_version' = fresh
          /\ skipped' = skipped \union {v \in Due(Cursor) : v <= fresh /\ ~Settled(v)}
    BY <1>13 DEF Relist
  <2>2. pc = "relist" /\ UNCHANGED <<delivered, log>>
    BY <1>13 DEF Relist, Reopen, server
  <2>3. fresh \in Cursor..Len(log) /\ Cursor' = fresh
    BY <2>1, <2>2, <1>1, WatchAssumption DEF ResumePoint, TypeOK, Cursor
  <2> QED
    BY <2>1, <2>2, <2>3 DEF Feed!Next, Feed!Jump
<1>14. CASE ServerWrite
  BY <1>14 DEF ServerWrite, client, Cursor, Feed!Next, Feed!Write
<1>15. CASE ServerCompact
  BY <1>15, QuietIsStutter DEF ServerCompact, client
<1> QED
  BY <1>2, <1>5, <1>6, <1>7, <1>8, <1>9, <1>10, <1>11, <1>12, <1>13, <1>14, <1>15
  DEF Next, ClientStep

\* No step changes the arguments of the call.
LEMMA CallIsFixed ==
  ASSUME [Next]_vars
  PROVE  call' = call
BY DEF Next, ClientStep, vars, client, Response, SendRequest, CredentialError,
       TransportError, ReceiveEvent, ReceiveInitialEvent, ReceiveBookmark,
       ReceiveExpired, ReceiveUnusable, StreamClosed, Relist, RelistUnusable,
       ConsumerStop, ServerWrite, ServerCompact, Finish, SleepAndReopen, Reopen,
       Streaming, Yield

\* Every call that begins at a version behaves as the abstract feed does.
THEOREM WatchRefinesFeed == Spec /\ FromList => FeedSpec
<1>1. Init /\ FromList => Feed!Init
  BY WatchAssumption DEF Init, Feed!Init, Cursor, Calls
<1>2. FromList /\ [Next]_vars => FromList'
  BY CallIsFixed
<1> QED
  BY <1>1, <1>2, FeedStep, WatchInvariant, PTL DEF Spec, FeedSpec, Feed!Spec

\* The resume point of such a call never moves back: it is the feed's cursor,
\* which no step of the feed moves back.
THEOREM WatchResumeNeverGoesBack == Spec => ResumeNeverGoesBack
<1>1. ASSUME IInv, IInv', [Next]_vars, FromList, ~UNCHANGED vars, call' = call
      PROVE  current_version' >= current_version
  <2>1. Cursor = current_version /\ Cursor' = current_version' /\ Cursor \in Nat
        /\ Cursor' \in Nat
    BY <1>1 DEF IInv, TypeOK, ResumePoint, Cursor
  <2>2. [Feed!Next]_(Feed!vars)
    BY <1>1, FeedStep
  <2>3. Cursor' >= Cursor
    BY <2>1, <2>2 DEF Feed!Next, Feed!vars, Feed!Write, Feed!Deliver, Feed!Checkpoint,
                      Feed!Jump, Feed!Due
  <2> QED
    BY <2>1, <2>3
<1>2. [Next]_vars => call' = call
  BY CallIsFixed
<1>3. IInv /\ IInv' /\ [Next]_vars
        => [FromList => current_version' >= current_version]_vars
  BY <1>1, <1>2
<1> QED
  BY <1>3, WatchInvariant, PTL DEF Spec, ResumeNeverGoesBack

-----------------------------------------------------------------------------
(***************************************************************************)
(* What the feed promises by itself, and a watch through it                *)
(***************************************************************************)
\* Every delivery is of a selected write.
OnlySelected == \A i \in 1..Len(delivered) : delivered[i] \in Feed!Due(0)

FeedInv ==
  Feed!TypeOK /\ Feed!VersionsIncrease /\ Feed!NoSilentGap /\ Feed!CursorCoversDelivered
  /\ OnlySelected

LEMMA FeedWriteStep ==
  ASSUME FeedInv, Feed!Write
  PROVE  FeedInv'
<1> USE DEF FeedInv, Feed!TypeOK
<1>1. PICK o \in Objects : log' = Append(log, o)
  BY DEF Feed!Write
<1>2. UNCHANGED <<delivered, skipped, Cursor>>
  BY DEF Feed!Write
<1>3. /\ log' \in Seq(Objects) /\ Len(log') = Len(log) + 1 /\ Len(log) \in Nat
      /\ \A v \in 1..Len(log) : log'[v] = log[v]
  BY <1>1, AppendToLog
<1>4. delivered' \in Seq(1..Len(log')) /\ \A i \in 1..Len(delivered) : delivered[i] \in 1..Len(log)
  BY <1>2, <1>3, SeqMonotonic
<1>5. Feed!TypeOK'
  BY <1>2, <1>3, <1>4
<1>6. \A v \in 1..Len(log) :
        /\ v \in Feed!Due(0)' <=> v \in Feed!Due(0)
        /\ Feed!Versioned(v)' <=> Feed!Versioned(v)
        /\ Feed!Settled(v)' <=> Feed!Settled(v)
  BY <1>2, <1>3 DEF Feed!Due, Feed!Versioned, Feed!Settled, Feed!DeliveredSet
<1>7. \A v \in Feed!Due(0)' : v <= Cursor => v \in 1..Len(log)
  BY <1>3 DEF Feed!Due
<1>8. Feed!NoSilentGap'
  BY <1>2, <1>6, <1>7 DEF Feed!NoSilentGap
<1>9. \A i \in 1..Len(delivered) :
        /\ Feed!Versioned(delivered[i])' <=> Feed!Versioned(delivered[i])
        /\ delivered[i] \in Feed!Due(0)'
  BY <1>2, <1>3, <1>4 DEF OnlySelected, Feed!Versioned, Feed!Due
<1>10. Feed!VersionsIncrease' /\ Feed!CursorCoversDelivered' /\ OnlySelected'
  BY <1>2, <1>9 DEF Feed!VersionsIncrease, Feed!CursorCoversDelivered, OnlySelected
<1> QED
  BY <1>5, <1>8, <1>10

\* A delivery comes after everything before the cursor, and leaves nothing
\* unsettled between the cursor and itself.
LEMMA FeedDeliverStep ==
  ASSUME FeedInv, Feed!Deliver
  PROVE  FeedInv'
<1> USE DEF FeedInv, Feed!TypeOK
<1>1. PICK v \in Feed!Due(Cursor) :
        /\ \A w \in Feed!Due(Cursor) : w < v => Feed!Settled(w)
        /\ delivered' = Append(delivered, v)
        /\ Cursor' = IF Feed!Versioned(v) THEN v ELSE Cursor
        /\ UNCHANGED <<log, skipped>>
  BY DEF Feed!Deliver
<1>2. v \in 1..Len(log) /\ log[v] \in Selected /\ Cursor < v /\ Cursor \in Nat /\ Len(log) \in Nat
  BY DEF Feed!Due
<1>3. /\ delivered' \in Seq(1..Len(log)) /\ Len(delivered') = Len(delivered) + 1
      /\ Len(delivered) \in Nat /\ delivered'[Len(delivered) + 1] = v
      /\ \A i \in 1..Len(delivered) :
           delivered'[i] = delivered[i] /\ delivered[i] \in 1..Len(log)
  BY <1>1, <1>2, AppendToLog
<1>4. Cursor' \in 0..Len(log) /\ Cursor <= Cursor' /\ Cursor' <= v
  BY <1>1, <1>2
<1>5. Feed!TypeOK'
  BY <1>1, <1>3, <1>4
<1>6. \A w : Feed!Settled(w)' <=> Feed!Settled(w) \/ w = v
  BY <1>1, <1>3 DEF Feed!Settled, Feed!DeliveredSet
<1>7. (\A c : Feed!Due(c)' = Feed!Due(c)) /\ \A w : Feed!Versioned(w)' <=> Feed!Versioned(w)
  BY <1>1 DEF Feed!Due, Feed!Versioned
<1>8. Feed!NoSilentGap'
  <2> SUFFICES ASSUME NEW w \in Feed!Due(0), w <= Cursor' PROVE Feed!Settled(w)'
    BY <1>7 DEF Feed!NoSilentGap
  <2>1. CASE w <= Cursor
    BY <1>6, <2>1 DEF Feed!NoSilentGap
  <2>2. CASE Cursor < w
    <3>1. w \in Feed!Due(Cursor) /\ w \in Nat
      BY <2>2 DEF Feed!Due
    <3> QED
      BY <1>1, <1>2, <1>4, <1>6, <3>1
  <2>3. w \in Nat
    BY DEF Feed!Due
  <2> QED
    BY <1>2, <2>1, <2>2, <2>3
<1>9. \A i \in 1..Len(delivered) : Feed!Versioned(delivered[i]) => delivered[i] < v
  BY <1>2, <1>3 DEF Feed!CursorCoversDelivered
<1>10. \A k \in 1..Len(delivered') : k \in 1..Len(delivered) \/ k = Len(delivered) + 1
  BY <1>3
<1>11. Feed!VersionsIncrease'
  <2> SUFFICES ASSUME NEW i \in 1..Len(delivered'), NEW j \in 1..Len(delivered'), i < j,
                      Feed!Versioned(delivered'[i]), Feed!Versioned(delivered'[j])
               PROVE  delivered'[i] < delivered'[j]
    BY <1>1 DEF Feed!VersionsIncrease, Feed!Versioned
  <2>1. i \in 1..Len(delivered)
    BY <1>3
  <2>2. CASE j \in 1..Len(delivered)
    BY <1>3, <2>1, <2>2 DEF Feed!VersionsIncrease
  <2>3. CASE j = Len(delivered) + 1
    BY <1>3, <1>9, <2>1, <2>3
  <2> QED
    BY <2>2, <2>3, <1>10
<1>12. Feed!CursorCoversDelivered'
  <2> SUFFICES ASSUME NEW i \in 1..Len(delivered'), Feed!Versioned(delivered'[i])
               PROVE  delivered'[i] <= Cursor'
    BY <1>1 DEF Feed!CursorCoversDelivered, Feed!Versioned
  <2>1. CASE i \in 1..Len(delivered)
    <3>1. delivered[i] <= Cursor /\ delivered[i] \in Nat /\ delivered'[i] = delivered[i]
      BY <1>3, <2>1 DEF Feed!CursorCoversDelivered
    <3> QED
      BY <1>2, <1>4, <3>1
  <2>2. CASE i = Len(delivered) + 1
    BY <1>1, <1>2, <1>3, <2>2
  <2> QED
    BY <1>3, <2>1, <2>2
<1>13. OnlySelected'
  <2> SUFFICES ASSUME NEW i \in 1..Len(delivered') PROVE delivered'[i] \in Feed!Due(0)
    BY <1>7 DEF OnlySelected
  <2>1. v \in Feed!Due(0)
    BY <1>2 DEF Feed!Due
  <2>2. i \in 1..Len(delivered) \/ i = Len(delivered) + 1
    BY <1>3
  <2> QED
    BY <1>3, <2>1, <2>2 DEF OnlySelected
<1> QED
  BY <1>5, <1>8, <1>11, <1>12, <1>13

\* The cursor moves on, over what is settled or is settled by the jump.
LEMMA FeedPassStep ==
  ASSUME FeedInv, Feed!Checkpoint \/ Feed!Jump
  PROVE  FeedInv'
<1> USE DEF FeedInv, Feed!TypeOK
<1>1. PICK c \in Cursor..Len(log) :
        /\ Cursor' = c /\ UNCHANGED <<log, delivered>>
        /\ \/ UNCHANGED skipped /\ \A w \in Feed!Due(Cursor) : w <= c => Feed!Settled(w)
           \/ skipped' = skipped \union {w \in Feed!Due(Cursor) : w <= c /\ ~Feed!Settled(w)}
  BY DEF Feed!Checkpoint, Feed!Jump
<1>2. (\A d : Feed!Due(d)' = Feed!Due(d)) /\ \A w : Feed!Versioned(w)' <=> Feed!Versioned(w)
  BY <1>1 DEF Feed!Due, Feed!Versioned
<1>3. skipped \subseteq skipped' /\ skipped' \subseteq 1..Len(log)
  BY <1>1 DEF Feed!Due
<1>4. \A w \in Feed!Due(Cursor) : w <= c => Feed!Settled(w)'
  BY <1>1 DEF Feed!Settled, Feed!DeliveredSet
<1>5. Feed!NoSilentGap'
  <2> SUFFICES ASSUME NEW w \in Feed!Due(0), w <= c PROVE Feed!Settled(w)'
    BY <1>1, <1>2 DEF Feed!NoSilentGap
  <2>1. CASE w <= Cursor
    BY <1>1, <1>3, <2>1 DEF Feed!NoSilentGap, Feed!Settled, Feed!DeliveredSet
  <2>2. CASE Cursor < w
    BY <1>4, <2>2 DEF Feed!Due
  <2>3. w \in Nat /\ Cursor \in Nat
    BY DEF Feed!Due
  <2> QED
    BY <2>1, <2>2, <2>3
<1>6. Feed!CursorCoversDelivered'
  <2> SUFFICES ASSUME NEW i \in 1..Len(delivered), Feed!Versioned(delivered[i])
               PROVE  delivered[i] <= c
    BY <1>1 DEF Feed!CursorCoversDelivered, Feed!Versioned
  <2>1. delivered[i] <= Cursor /\ delivered[i] \in Nat /\ Cursor \in Nat
    BY DEF Feed!CursorCoversDelivered
  <2> QED
    BY <2>1
<1>7. Feed!VersionsIncrease' /\ OnlySelected' /\ Feed!TypeOK'
  BY <1>1, <1>3 DEF Feed!VersionsIncrease, Feed!Versioned, OnlySelected, Feed!Due
<1> QED
  BY <1>5, <1>6, <1>7

\* What EventFeed promises follows from its four actions alone: versions increase,
\* nothing selected is passed over in silence, the cursor covers what was
\* delivered, and only selected writes are.
THEOREM FeedKeepsItsPromise == Feed!Spec => []FeedInv
<1>1. Feed!Init => FeedInv
  BY EmptySeq DEF Feed!Init, FeedInv, Feed!TypeOK, Feed!VersionsIncrease, Feed!NoSilentGap,
     Feed!CursorCoversDelivered, OnlySelected, Feed!Due
<1>2. FeedInv /\ [Feed!Next]_(Feed!vars) => FeedInv'
  <2> SUFFICES ASSUME FeedInv, [Feed!Next]_(Feed!vars) PROVE FeedInv'
    OBVIOUS
  <2>1. CASE UNCHANGED Feed!vars
    BY <2>1 DEF Feed!vars, FeedInv, Feed!TypeOK, Feed!VersionsIncrease, Feed!NoSilentGap,
       Feed!CursorCoversDelivered, OnlySelected, Feed!Due, Feed!Versioned, Feed!Settled,
       Feed!DeliveredSet
  <2> QED
    BY <2>1, FeedWriteStep, FeedDeliverStep, FeedPassStep DEF Feed!Next
<1> QED
  BY <1>1, <1>2, PTL DEF Feed!Spec

\* A call that begins at a version, on objects whose events carry theirs, yields no
\* write twice through all its reconnects and recoveries: what reliability.md says,
\* under the two conditions it does not name.
THEOREM WatchYieldsOnce ==
  Spec /\ FromList => [](Selected \intersect Unversioned = {} => NoDuplicateEvents)
<1>1. FeedInv => (Selected \intersect Unversioned = {} => NoDuplicateEvents)
  <2> SUFFICES ASSUME FeedInv, Selected \intersect Unversioned = {},
                      NEW i \in 1..Len(delivered), NEW j \in 1..Len(delivered), i # j
               PROVE  delivered[i] # delivered[j]
    BY DEF NoDuplicateEvents
  <2>1. \A k \in 1..Len(delivered) : Feed!Versioned(delivered[k]) /\ delivered[k] \in Nat
    BY DEF FeedInv, Feed!TypeOK, OnlySelected, Feed!Due, Feed!Versioned
  <2>2. i < j \/ j < i
    BY DEF FeedInv, Feed!TypeOK
  <2>3. delivered[i] < delivered[j] \/ delivered[j] < delivered[i]
    BY <2>1, <2>2 DEF FeedInv, Feed!VersionsIncrease
  <2> QED
    BY <2>1, <2>3
<1>2. Spec /\ FromList => Feed!Spec
  BY WatchRefinesFeed DEF FeedSpec
<1> QED
  BY <1>1, <1>2, FeedKeepsItsPromise, PTL

\* A call that may list again never ends with an expired event of the stream.
LEMMA ExpiredOnlyWithoutRelist ==
  Spec => [](call.relist => outcome # "expired")
<1> DEFINE Recovers == call.relist => outcome # "expired"
<1>1. Init => Recovers
  BY DEF Init
<1>2. TypeOK /\ Recovers /\ [Next]_vars => Recovers'
  <2> SUFFICES ASSUME TypeOK, Recovers, [Next]_vars, call.relist PROVE outcome' # "expired"
    BY CallIsFixed
  <2>1. ASSUME NEW s \in Statuses PROVE s # "expired"
    BY WatchAssumption DEF Endings
  <2>2. ASSUME NEW s \in Statuses, Response(s) PROVE outcome' # "expired"
    BY <2>1, <2>2 DEF Response, Finish, SleepAndReopen, Reopen, Streaming
  <2>3. CASE SendRequest \/ CredentialError \/ TransportError \/ ConsumerStop
    BY <2>3 DEF SendRequest, CredentialError, TransportError, ConsumerStop, Finish,
                SleepAndReopen, Reopen
  <2>4. CASE ReceiveEvent \/ ReceiveInitialEvent \/ ReceiveBookmark
    BY <2>4 DEF ReceiveEvent, ReceiveInitialEvent, ReceiveBookmark, Yield
  <2>5. CASE ReceiveExpired \/ ReceiveUnusable
    BY <2>5 DEF ReceiveExpired, ReceiveUnusable, Finish
  <2>6. CASE StreamClosed \/ Relist \/ RelistUnusable
    BY <2>6 DEF StreamClosed, Relist, RelistUnusable, Finish, SleepAndReopen, Reopen
  <2>7. CASE ServerWrite \/ ServerCompact \/ UNCHANGED vars
    BY <2>7 DEF ServerWrite, ServerCompact, vars, client
  <2> QED
    BY <2>2, <2>3, <2>4, <2>5, <2>6, <2>7 DEF Next, ClientStep
<1> QED
  BY <1>1, <1>2, WatchTypeOK, PTL DEF Spec

\* The recovery from an expired version misses one way in which the server reports
\* it: if none is reported as HTTP 410, every call with a relist recovers.
THEOREM WatchRecoversFromEvents ==
  ASSUME "gone" \notin Statuses
  PROVE  Spec => []ExpiryIsRecovered
<1>1. TypeOK => outcome # "gone"
  BY DEF TypeOK, Endings
<1>2. (call.relist => outcome # "expired") /\ outcome # "gone" => ExpiryIsRecovered
  BY DEF ExpiryIsRecovered
<1> QED
  BY <1>1, <1>2, ExpiredOnlyWithoutRelist, WatchTypeOK, PTL
=============================================================================
