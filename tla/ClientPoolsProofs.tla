------------------------- MODULE ClientPoolsProofs -------------------------
(***************************************************************************)
(* Theorems about the pools of one asynchronous client, for any number of  *)
(* tasks, attempts and certificates.                                       *)
(***************************************************************************)
EXTENDS ClientPools, TLAPS

\* The two pools in use are those of the newest certificate.
PoolsAreNewest == http = verify /\ websocket_http = verify

\* Until close() is called, what was closed has been replaced; and what a task
\* is closing has been, too.
OnlyReplacedClosed ==
  /\ closer = "open" =>
       \A n \in 0..MaxSerial :
         <<"http", n>> \in closed \/ <<"websocket", n>> \in closed => n < verify
  /\ \A t \in Tasks :
       pc[t] \in {"closingHttp", "closingWebsocket"} => held[t] < verify

PoolsInv ==
  TypeOK /\ PoolsAreNewest /\ OnlyReplacedClosed /\ NoSendOnClosedPool
  /\ ReplacedPoolsAreClosed

\* What the fields of the state are, for one task.
LEMMA TaskType ==
  ASSUME TypeOK, NEW t \in Tasks
  PROVE  /\ held[t] \in 0..MaxSerial /\ attempt[t] \in 0..(MaxAttempts - 1)
         /\ Attempts(t) \in 1..MaxAttempts /\ MaxSerial \in Nat
         /\ verify \in 0..MaxSerial /\ http \in 0..MaxSerial
         /\ websocket_http \in 0..MaxSerial
         /\ DOMAIN pc = Tasks /\ DOMAIN held = Tasks /\ DOMAIN outcome = Tasks
         /\ Kind(t) \in {"http", "websocket"}
BY PoolsAssumption DEF TypeOK, Attempts, Kind

\* A task that ends.
LEMMA EndStep ==
  ASSUME PoolsInv, NEW t \in Tasks,
         NEW how \in {"credential", "transport", "answered", "cancelled", "poolClosed",
                     "transportClosed"},
         how = "poolClosed" => closer # "open",
         End(t, how), credential' \in [kind : {"certificate", "unusable"}, valid : BOOLEAN],
         UNCHANGED <<client, closed, closer, attempt>>,
         orphans' \subseteq 0..MaxSerial, orphans \subseteq orphans',
         pc[t] = "closingHttp" =>
           held[t] \in orphans' \/ <<"websocket", held[t]>> \in closed
  PROVE  PoolsInv'
<1>1. /\ pc' = [pc EXCEPT ![t] = "done"] /\ outcome' = [outcome EXCEPT ![t] = how]
      /\ held' = [held EXCEPT ![t] = 0]
      /\ UNCHANGED <<verify, http, websocket_http, closed, closer, attempt>>
  BY DEF End, client
<1>2. TypeOK'
  BY <1>1, TaskType DEF PoolsInv, TypeOK
<1>3. PoolsAreNewest' /\ OnlyReplacedClosed'
  BY <1>1, TaskType DEF PoolsInv, PoolsAreNewest, OnlyReplacedClosed, TypeOK
<1>4. NoSendOnClosedPool'
  BY <1>1, TaskType DEF PoolsInv, NoSendOnClosedPool, TypeOK
<1>5. ReplacedPoolsAreClosed'
  BY <1>1, TaskType DEF PoolsInv, ReplacedPoolsAreClosed, TypeOK
<1> QED
  BY <1>2, <1>3, <1>4, <1>5 DEF PoolsInv

\* A task that was not closing, or has closed the previous pair, moves on.
LEMMA MoveStep ==
  ASSUME PoolsInv, NEW t \in Tasks, pc[t] # "closingHttp",
         NEW next \in {"sleeping", "inFlight"}, pc' = [pc EXCEPT ![t] = next],
         NEW number \in 0..MaxSerial, held' = [held EXCEPT ![t] = number],
         attempt' \in [Tasks -> 0..(MaxAttempts - 1)],
         UNCHANGED <<credential, client, closed, closer, outcome, orphans>>
  PROVE  PoolsInv'
<1>1. UNCHANGED <<verify, http, websocket_http>>
  BY DEF client
<1>2. TypeOK'
  BY <1>1, TaskType DEF PoolsInv, TypeOK
<1>3. PoolsAreNewest' /\ OnlyReplacedClosed'
  BY <1>1, TaskType DEF PoolsInv, PoolsAreNewest, OnlyReplacedClosed, TypeOK
<1>4. NoSendOnClosedPool'
  BY DEF PoolsInv, NoSendOnClosedPool
<1>5. ReplacedPoolsAreClosed'
  BY <1>1, TaskType DEF PoolsInv, ReplacedPoolsAreClosed, TypeOK
<1> QED
  BY <1>2, <1>3, <1>4, <1>5 DEF PoolsInv

\* The pool looked up after the refresh is the newest, so only close() can have
\* closed it.
LEMMA SendNowStep ==
  ASSUME PoolsInv, NEW t \in Tasks, pc[t] # "closingHttp", SendNow(t),
         UNCHANGED <<credential, client, closed, closer, attempt, orphans>>
  PROVE  PoolsInv'
<1> DEFINE number == IF t \in Sockets THEN websocket_http ELSE http
<1>1. number = verify /\ number \in 0..MaxSerial /\ verify \in Nat
  BY TaskType DEF PoolsInv, PoolsAreNewest
<1>2. CASE <<Kind(t), number>> \in closed
  <2>1. End(t, "poolClosed")
    BY <1>2 DEF SendNow
  <2>2. closer # "open"
    <3>1. <<"http", verify>> \in closed \/ <<"websocket", verify>> \in closed
      BY <1>1, <1>2, TaskType DEF PoolsInv
    <3>2. verify \in 0..MaxSerial /\ ~(verify < verify)
      BY <1>1
    <3> QED
      BY <3>1, <3>2 DEF PoolsInv, OnlyReplacedClosed
  <2> QED
    BY <2>1, <2>2, EndStep DEF PoolsInv, TypeOK
<1>3. CASE End(t, "transportClosed")
  BY <1>3, EndStep DEF PoolsInv, TypeOK
<1>4. CASE /\ pc' = [pc EXCEPT ![t] = "inFlight"] /\ UNCHANGED outcome
           /\ held' = [held EXCEPT ![t] = number]
  <2>1. /\ pc' = [pc EXCEPT ![t] = "inFlight"] /\ UNCHANGED outcome
        /\ held' = [held EXCEPT ![t] = number]
    BY <1>4
  <2> HIDE DEF number
  <2> QED
    BY <2>1, <1>1, MoveStep DEF PoolsInv, TypeOK
<1> QED
  BY <1>2, <1>3, <1>4 DEF SendNow

\* The pair that is replaced is the newest until now; the task closes it.
LEMMA RotateStep ==
  ASSUME PoolsInv, NEW t \in Tasks, Rotate(t)
  PROVE  PoolsInv'
<1>1. /\ pc[t] \in {"idle", "sleeping"} /\ verify < MaxSerial
      /\ credential' = [kind |-> "certificate", valid |-> TRUE]
      /\ verify' = verify + 1 /\ http' = verify' /\ websocket_http' = verify'
      /\ held' = [held EXCEPT ![t] = http]
      /\ closed' = closed \union {<<"http", http>>}
      /\ pc' = [pc EXCEPT ![t] = "closingHttp"]
      /\ UNCHANGED <<closer, attempt, outcome, orphans>>
  BY DEF Rotate, AtTop
<1>2. /\ http = verify /\ verify \in 0..MaxSerial /\ MaxSerial \in Nat
      /\ verify' \in 0..MaxSerial
  BY <1>1, TaskType DEF PoolsInv, PoolsAreNewest
<1>3. TypeOK'
  BY <1>1, <1>2 DEF PoolsInv, TypeOK
<1>4. PoolsAreNewest' /\ NoSendOnClosedPool'
  BY <1>1 DEF PoolsAreNewest, PoolsInv, NoSendOnClosedPool
<1>5. OnlyReplacedClosed'
  <2>1. \A u \in Tasks : held[u] \in 0..MaxSerial
    BY TaskType DEF PoolsInv
  <2> QED
    BY <1>1, <1>2, <2>1 DEF PoolsInv, OnlyReplacedClosed, TypeOK
<1>6. ReplacedPoolsAreClosed'
  <2> SUFFICES ASSUME NEW n \in 0..(verify' - 1)
              PROVE  /\ <<"http", n>> \in closed'
                     /\ \/ <<"websocket", n>> \in closed'
                        \/ n \in orphans'
                        \/ \E u \in Tasks : pc'[u] = "closingHttp" /\ held'[u] = n
    BY DEF ReplacedPoolsAreClosed
  <2>1. pc'[t] = "closingHttp" /\ held'[t] = http
    BY <1>1 DEF PoolsInv, TypeOK
  <2>2. \A u \in Tasks : pc[u] = "closingHttp" =>
          pc'[u] = "closingHttp" /\ held'[u] = held[u]
    BY <1>1 DEF PoolsInv, TypeOK
  <2>3. CASE n = http
    BY <2>1, <2>3, <1>1
  <2>4. CASE n # http
    <3>1. n \in 0..(verify - 1)
      BY <2>4, <1>1, <1>2
    <3> QED
      BY <3>1, <2>2, <1>1 DEF PoolsInv, ReplacedPoolsAreClosed
  <2> QED
    BY <2>3, <2>4
<1> QED
  BY <1>3, <1>4, <1>5, <1>6 DEF PoolsInv

LEMMA HttpClosedStep ==
  ASSUME PoolsInv, NEW t \in Tasks, PreviousHttpClosed(t)
  PROVE  PoolsInv'
<1>1. /\ pc[t] = "closingHttp" /\ pc' = [pc EXCEPT ![t] = "closingWebsocket"]
      /\ closed' = closed \union {<<"websocket", held[t]>>}
      /\ UNCHANGED <<credential, verify, http, websocket_http, closer, attempt,
                     held, outcome, orphans>>
  BY DEF PreviousHttpClosed, client
<1>2. held[t] \in 0..MaxSerial /\ held[t] < verify
  BY <1>1, TaskType DEF PoolsInv, OnlyReplacedClosed
<1>3. TypeOK'
  BY <1>1, <1>2 DEF PoolsInv, TypeOK
<1>4. PoolsAreNewest' /\ NoSendOnClosedPool'
  BY <1>1 DEF PoolsAreNewest, PoolsInv, NoSendOnClosedPool
<1>5. OnlyReplacedClosed'
  BY <1>1, <1>2 DEF PoolsInv, OnlyReplacedClosed, TypeOK
<1>6. ReplacedPoolsAreClosed'
  BY <1>1, <1>2 DEF PoolsInv, ReplacedPoolsAreClosed, TypeOK
<1> QED
  BY <1>3, <1>4, <1>5, <1>6 DEF PoolsInv

\* close() closes, and from its first step on nothing is promised of sending.
LEMMA CloseStep ==
  ASSUME PoolsInv, CloseHttp \/ CloseWebsocket
  PROVE  PoolsInv'
<1>1. /\ UNCHANGED <<credential, verify, http, websocket_http, pc, attempt, held,
                     outcome, orphans>>
      /\ closer' \in {"closing", "closed"}
      /\ closed' = closed \union {<<"http", http>>}
         \/ closed' = closed \union {<<"websocket", websocket_http>>}
  BY DEF CloseHttp, CloseWebsocket, client
<1>2. {http, websocket_http} \subseteq 0..MaxSerial
  BY DEF PoolsInv, TypeOK
<1>3. TypeOK'
  BY <1>1, <1>2 DEF PoolsInv, TypeOK
<1>4. PoolsAreNewest' /\ NoSendOnClosedPool' /\ OnlyReplacedClosed'
  BY <1>1 DEF PoolsAreNewest, PoolsInv, NoSendOnClosedPool, OnlyReplacedClosed
<1>5. ReplacedPoolsAreClosed'
  BY <1>1 DEF PoolsInv, ReplacedPoolsAreClosed
<1> QED
  BY <1>3, <1>4, <1>5 DEF PoolsInv

LEMMA PoolsStep ==
  ASSUME PoolsInv, [Next]_vars
  PROVE  PoolsInv'
<1>1. CASE UNCHANGED vars
  BY <1>1 DEF vars, client, PoolsInv, TypeOK, PoolsAreNewest, OnlyReplacedClosed,
              NoSendOnClosedPool, ReplacedPoolsAreClosed
<1>2. ASSUME NEW t \in Tasks, Send(t) PROVE PoolsInv'
  BY <1>2, SendNowStep DEF Send, AtTop
<1>3. ASSUME NEW t \in Tasks, RefreshFails(t) PROVE PoolsInv'
  <2>1. credential' \in [kind : {"certificate", "unusable"}, valid : BOOLEAN]
    <3>1. \/ credential' = credential
          \/ credential' = [kind |-> "unusable", valid |-> TRUE]
      BY <1>3, Zenon DEF RefreshFails
    <3>2. credential \in [kind : {"certificate", "unusable"}, valid : BOOLEAN]
      BY DEF PoolsInv, TypeOK
    <3>3. [kind |-> "unusable", valid |-> TRUE]
            \in [kind : {"certificate", "unusable"}, valid : BOOLEAN]
      OBVIOUS
    <3> QED
      BY <3>1, <3>2, <3>3, Zenon
  <2> QED
    BY <1>3, <2>1, EndStep DEF RefreshFails, AtTop, PoolsInv, TypeOK
<1>4. ASSUME NEW t \in Tasks, Rotate(t) PROVE PoolsInv'
  BY <1>4, RotateStep
<1>5. ASSUME NEW t \in Tasks, PreviousHttpClosed(t) PROVE PoolsInv'
  BY <1>5, HttpClosedStep
<1>6. ASSUME NEW t \in Tasks, PreviousWebsocketClosed(t) PROVE PoolsInv'
  BY <1>6, SendNowStep DEF PreviousWebsocketClosed
<1>7. ASSUME NEW t \in Tasks, Answer(t) \/ SessionEnds(t) PROVE PoolsInv'
  BY <1>7, EndStep DEF Answer, SessionEnds, PoolsInv, TypeOK
<1>8. ASSUME NEW t \in Tasks, Break(t) PROVE PoolsInv'
  <2>1. /\ pc[t] = "inFlight"
        /\ UNCHANGED <<credential, client, closed, closer, orphans>>
    BY <1>8 DEF Break
  <2>2. CASE End(t, "transport") /\ UNCHANGED attempt
    BY <2>1, <2>2, EndStep DEF PoolsInv, TypeOK
  <2>3. CASE /\ AttemptsLeft(attempt[t], Attempts(t))
             /\ pc' = [pc EXCEPT ![t] = "sleeping"]
             /\ attempt' = [attempt EXCEPT ![t] = @ + 1]
             /\ held' = [held EXCEPT ![t] = 0]
             /\ UNCHANGED outcome
    <3>1. attempt[t] + 1 \in 0..(MaxAttempts - 1)
      BY <2>3, TaskType, PoolsAssumption DEF PoolsInv, AttemptsLeft
    <3>2. attempt' \in [Tasks -> 0..(MaxAttempts - 1)]
      BY <2>3, <3>1 DEF PoolsInv, TypeOK
    <3>3. 0 \in 0..MaxSerial
      BY PoolsAssumption
    <3> QED
      BY <2>1, <2>3, <3>2, <3>3, MoveStep
  <2> QED
    BY <1>8, <2>2, <2>3 DEF Break
<1>9. ASSUME NEW t \in Tasks, Cancel(t) PROVE PoolsInv'
  <2>1. /\ End(t, "cancelled")
        /\ orphans' = orphans \union (IF pc[t] = "closingHttp" THEN {held[t]} ELSE {})
        /\ UNCHANGED <<credential, client, closed, closer, attempt>>
    BY <1>9 DEF Cancel
  <2>2. /\ orphans' \subseteq 0..MaxSerial /\ orphans \subseteq orphans'
        /\ pc[t] = "closingHttp" => held[t] \in orphans'
    BY <2>1, TaskType DEF PoolsInv, TypeOK
  <2> QED
    BY <2>1, <2>2, EndStep DEF PoolsInv, TypeOK
<1>10. CASE CloseHttp \/ CloseWebsocket
  BY <1>10, CloseStep
<1>11. CASE Expire
  BY <1>11 DEF Expire, client, PoolsInv, TypeOK, PoolsAreNewest, OnlyReplacedClosed,
               NoSendOnClosedPool, ReplacedPoolsAreClosed
<1> QED
  BY <1>1, <1>2, <1>3, <1>4, <1>5, <1>6, <1>7, <1>8, <1>9, <1>10, <1>11
  DEF Next, TaskStep

-----------------------------------------------------------------------------
(***************************************************************************)
(* The theorems                                                            *)
(***************************************************************************)
\* The pools a client holds are the newest, and only replaced pairs are closed
\* before close(), however many tasks rotate and are cancelled.
THEOREM PoolsInvariant == Spec => []PoolsInv
<1>1. Init => PoolsInv
  BY PoolsAssumption
  DEF Init, PoolsInv, TypeOK, PoolsAreNewest, OnlyReplacedClosed,
      NoSendOnClosedPool, ReplacedPoolsAreClosed
<1> QED
  BY <1>1, PoolsStep, PTL DEF Spec

\* No task is refused by a closed pool before close().
THEOREM PoolsNoSendOnClosedPool == Spec => []NoSendOnClosedPool
<1>1. PoolsInv => NoSendOnClosedPool
  BY DEF PoolsInv
<1> QED
  BY <1>1, PoolsInvariant, PTL

\* Credential, pools and tasks keep their types.
THEOREM PoolsTypeOK == Spec => []TypeOK
<1>1. PoolsInv => TypeOK
  BY DEF PoolsInv
<1> QED
  BY <1>1, PoolsInvariant, PTL

\* A replaced pair is closed, is being closed, or was orphaned by a cancellation.
THEOREM PoolsReplacedPoolsAreClosed == Spec => []ReplacedPoolsAreClosed
<1>1. PoolsInv => ReplacedPoolsAreClosed
  BY DEF PoolsInv
<1> QED
  BY <1>1, PoolsInvariant, PTL

\* A request goes out on the newest pool, although another task may have rotated
\* during the awaits since the sender looked at the certificate.
THEOREM PoolsSendsWithNewestCertificate == Spec => SendsWithNewestCertificate
<1> DEFINE Newest ==
      \A t \in Tasks : pc[t] # "inFlight" /\ pc'[t] = "inFlight" => held'[t] = verify
<1>1. ASSUME PoolsInv, NEW u \in Tasks, SendNow(u) PROVE Newest
  BY <1>1, TaskType DEF SendNow, End, PoolsInv, PoolsAreNewest, TypeOK
<1>2. ASSUME PoolsInv, NEW u \in Tasks, NEW how, End(u, how) PROVE Newest
  BY <1>2 DEF End, PoolsInv, TypeOK
<1>3. ASSUME PoolsInv, NEW u \in Tasks, TaskStep(u) \/ Cancel(u) PROVE Newest
  <2>1. CASE Send(u) \/ PreviousWebsocketClosed(u)
    BY <1>1, <1>3, <2>1 DEF Send, PreviousWebsocketClosed
  <2>2. CASE RefreshFails(u) \/ Answer(u) \/ SessionEnds(u) \/ Cancel(u)
    BY <1>2, <1>3, <2>2 DEF RefreshFails, Answer, SessionEnds, Cancel
  <2>3. CASE Rotate(u) \/ PreviousHttpClosed(u)
    BY <1>3, <2>3 DEF Rotate, PreviousHttpClosed, PoolsInv, TypeOK
  <2>4. CASE Break(u)
    BY <1>2, <1>3, <2>4 DEF Break, PoolsInv, TypeOK
  <2> QED
    BY <1>3, <2>1, <2>2, <2>3, <2>4 DEF TaskStep
<1>4. ASSUME PoolsInv, [Next]_vars PROVE [Newest]_vars
  <2>1. CASE CloseHttp \/ CloseWebsocket \/ Expire
    BY <2>1 DEF CloseHttp, CloseWebsocket, Expire
  <2>2. CASE UNCHANGED vars
    BY <2>2
  <2> QED
    BY <1>3, <1>4, <2>1, <2>2 DEF Next
<1> QED
  BY <1>4, PoolsInvariant, PTL DEF Spec, SendsWithNewestCertificate

-----------------------------------------------------------------------------
(***************************************************************************)
(* close(), called in order: what it cannot reach.                         *)
(***************************************************************************)
\* What close() left open are the WebSocket pools of rotations that a cancellation
\* cut short.
OnlyOrphansSurvive ==
  Orderly /\ closer = "closed" =>
    ({"http", "websocket"} \X (0..verify)) \ closed \subseteq {"websocket"} \X orphans

\* After the last task nobody rotates, so close() meets the newest pair.
CloseMeetsNewest ==
  (Orderly /\ closer # "open") =>
    /\ \A t \in Tasks : pc[t] = "done"
    /\ <<"http", verify>> \in closed
    /\ closer = "closed" => <<"websocket", verify>> \in closed

LEMMA CloseMeetsNewestStep ==
  ASSUME PoolsInv, CloseMeetsNewest, [Next]_vars
  PROVE  CloseMeetsNewest'
<1>1. http = verify /\ websocket_http = verify
  BY DEF PoolsInv, PoolsAreNewest
<1>2. ASSUME NEW t \in Tasks, TaskStep(t) \/ Cancel(t)
      PROVE  pc[t] # "done" /\ UNCHANGED closer
  BY <1>2 DEF TaskStep, Cancel, Send, RefreshFails, Rotate, PreviousHttpClosed,
              PreviousWebsocketClosed, Answer, SessionEnds, Break, AtTop
<1>3. ASSUME NEW t \in Tasks, TaskStep(t) \/ Cancel(t) PROVE CloseMeetsNewest'
  BY <1>2, <1>3 DEF CloseMeetsNewest
<1>4. CASE CloseHttp
  BY <1>1, <1>4 DEF CloseHttp, client, CloseMeetsNewest
<1>5. CASE CloseWebsocket
  BY <1>1, <1>5 DEF CloseWebsocket, client, CloseMeetsNewest
<1>6. CASE Expire \/ UNCHANGED vars
  BY <1>6 DEF Expire, vars, client, CloseMeetsNewest
<1> QED
  BY <1>3, <1>4, <1>5, <1>6 DEF Next

\* An orderly close() leaves open only WebSocket pools whose replacement was
\* cancelled in its first await: the one way in which it can leave anything.
THEOREM PoolsOnlyOrphansSurvive == Spec => []OnlyOrphansSurvive
<1>1. Init => CloseMeetsNewest
  BY DEF Init, CloseMeetsNewest
<1>2. PoolsInv /\ CloseMeetsNewest => OnlyOrphansSurvive
  <2> SUFFICES ASSUME PoolsInv, CloseMeetsNewest, Orderly, closer = "closed",
                      NEW kind \in {"http", "websocket"}, NEW n \in 0..verify,
                      <<kind, n>> \notin closed
               PROVE  kind = "websocket" /\ n \in orphans
    BY DEF OnlyOrphansSurvive
  <2>1. verify \in Nat /\ \A t \in Tasks : pc[t] # "closingHttp"
    BY PoolsAssumption DEF CloseMeetsNewest, PoolsInv, TypeOK
  <2>2. n # verify
    BY DEF CloseMeetsNewest
  <2>3. n \in 0..(verify - 1)
    BY <2>1, <2>2
  <2> QED
    BY <2>1, <2>3 DEF PoolsInv, ReplacedPoolsAreClosed
<1> QED
  BY <1>1, <1>2, CloseMeetsNewestStep, PoolsInvariant, PTL DEF Spec

\* If no task is cancelled, close() keeps what its docstring promises.
THEOREM PoolsCloseWithoutCancel ==
  Spec => [](orphans = {} => CloseLeavesNothingOpen)
<1>1. OnlyOrphansSurvive => (orphans = {} => CloseLeavesNothingOpen)
  BY DEF OnlyOrphansSurvive, CloseLeavesNothingOpen
<1> QED
  BY <1>1, PoolsOnlyOrphansSurvive, PTL
=============================================================================
