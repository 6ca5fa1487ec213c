---------------------------- MODULE ClientPools ----------------------------
(***************************************************************************)
(* The connection pools of one AsyncKubeClient (_async_client.py) shared   *)
(* by tasks of an event loop, under a client certificate that an exec      *)
(* plugin renews (_ExecCredentialProvider and _ExecCertificateProvider of  *)
(* _config.py).                                                            *)
(*                                                                         *)
(* A step is what runs between two awaits.  Certificates, and the pair of  *)
(* pools built with one, are numbered in order of issue.  aclose() marks a *)
(* pool closed before its first await, so "closed" changes with the step   *)
(* that calls it and the await is a state of the calling task.             *)
(***************************************************************************)
EXTENDS Retry, FiniteSets

CONSTANTS
  Requests,     \* tasks that send a request or open a stream
  Sockets,      \* tasks that open a WebSocket, which is never retried
  MaxAttempts,  \* attempts of the retry policy for a request
  Orderly,      \* close() is called only after the last task is done
  Shared,       \* the caller gave a transport, which every pool then uses
  MaxSerial     \* bound: certificates the plugin issues

ASSUME PoolsAssumption ==
  /\ MaxAttempts \in Nat \ {0} /\ MaxSerial \in Nat
  /\ Orderly \in BOOLEAN /\ Shared \in BOOLEAN
  /\ Requests \intersect Sockets = {}

Tasks == Requests \union Sockets

VARIABLES
  credential,  \* what the provider has cached: certificate or not, still valid
  verify, http, websocket_http, \* the client's attributes of that name
  closed,      \* pools that were closed, as <<kind, number>>
  closer,      \* close(): "open", "closing" between its two awaits, "closed"
  pc, attempt, outcome, \* of each task
  held,        \* the pair it is closing, or whose pool carries its request
  orphans      \* pairs whose replacement was cancelled half way

client == <<verify, http, websocket_http>>
vars == <<credential, client, closed, closer, pc, attempt, held, outcome, orphans>>

Init ==
  /\ credential = [kind |-> "certificate", valid |-> TRUE]
  /\ verify = 0 /\ http = 0 /\ websocket_http = 0
  /\ closed = {} /\ closer = "open" /\ orphans = {}
  /\ pc = [t \in Tasks |-> "idle"] /\ attempt = [t \in Tasks |-> 0]
  /\ held = [t \in Tasks |-> 0] /\ outcome = [t \in Tasks |-> "none"]

Kind(t) == IF t \in Sockets THEN "websocket" ELSE "http"
Attempts(t) == IF t \in Sockets THEN 1 ELSE MaxAttempts

End(t, how) ==
  /\ pc' = [pc EXCEPT ![t] = "done"] /\ outcome' = [outcome EXCEPT ![t] = how]
  /\ held' = [held EXCEPT ![t] = 0]

\* The top of an attempt: idle at first, later at the end of a sleep.
AtTop(t) == pc[t] \in {"idle", "sleeping"}

\* A pool that is closed closes its transport, under the others that share it.
TransportClosed == Shared /\ closed # {}

\* The pool is looked up after the refresh and used before the next await.  A
\* closed httpx2 client refuses to send; a closed transport may, or opens new
\* connections.
SendNow(t) ==
  LET number == IF t \in Sockets THEN websocket_http ELSE http
      refused == <<Kind(t), number>> \in closed
  IN \/ refused /\ End(t, "poolClosed")
     \/ ~refused /\ TransportClosed /\ End(t, "transportClosed")
     \/ /\ ~refused
        /\ pc' = [pc EXCEPT ![t] = "inFlight"] /\ UNCHANGED outcome
        /\ held' = [held EXCEPT ![t] = number]

\* Cached credential, not about to expire: no new context, and no await.
Send(t) ==
  /\ AtTop(t) /\ credential = [kind |-> "certificate", valid |-> TRUE]
  /\ SendNow(t)
  /\ UNCHANGED <<credential, client, closed, closer, attempt, orphans>>

\* The plugin fails and nothing is cached; or it returns a token or a
\* certificate that does not load, which is cached and refused again until it
\* expires.
RefreshFails(t) ==
  /\ AtTop(t)
  /\ \/ ~credential.valid /\ UNCHANGED credential
     \/ ~credential.valid /\ credential' = [kind |-> "unusable", valid |-> TRUE]
     \/ credential = [kind |-> "unusable", valid |-> TRUE] /\ UNCHANGED credential
  /\ End(t, "credential")
  /\ UNCHANGED <<client, closed, closer, attempt, orphans>>

\* A mistake: the WebSocket pool is left with the old certificate.
RotateKeepsWebsocket(t) ==
  /\ AtTop(t) /\ ~credential.valid /\ verify < MaxSerial
  /\ credential' = [kind |-> "certificate", valid |-> TRUE]
  /\ verify' = verify + 1 /\ http' = verify'
  /\ held' = [held EXCEPT ![t] = http]
  /\ closed' = closed \union {<<"http", http>>}
  /\ pc' = [pc EXCEPT ![t] = "closingHttp"]
  /\ UNCHANGED <<websocket_http, closer, attempt, outcome, orphans>>

\* A new certificate: _refresh_certificate up to its first await.
Rotate(t) ==
  /\ AtTop(t) /\ ~credential.valid /\ verify < MaxSerial
  /\ credential' = [kind |-> "certificate", valid |-> TRUE]
  /\ verify' = verify + 1 /\ http' = verify' /\ websocket_http' = verify'
  /\ held' = [held EXCEPT ![t] = http]
  /\ closed' = closed \union {<<"http", http>>}
  /\ pc' = [pc EXCEPT ![t] = "closingHttp"]
  /\ UNCHANGED <<closer, attempt, outcome, orphans>>

\* A mistake: the previous WebSocket pool is forgotten.
PreviousWebsocketForgotten(t) ==
  /\ pc[t] = "closingHttp" /\ pc' = [pc EXCEPT ![t] = "closingWebsocket"]
  /\ UNCHANGED <<credential, client, closed, closer, attempt, held, outcome, orphans>>

\* Each of the two awaits is over: the other pool, then the request.
PreviousHttpClosed(t) ==
  /\ pc[t] = "closingHttp" /\ pc' = [pc EXCEPT ![t] = "closingWebsocket"]
  /\ closed' = closed \union {<<"websocket", held[t]>>}
  /\ UNCHANGED <<credential, client, closer, attempt, held, outcome, orphans>>

\* A mistake: the task sends on the pool it built, which another task may have
\* replaced meanwhile.
SendOnOwnReplacement(t) ==
  /\ pc[t] = "closingWebsocket"
  /\ IF <<Kind(t), held[t] + 1>> \in closed
     THEN End(t, "poolClosed")
     ELSE /\ pc' = [pc EXCEPT ![t] = "inFlight"] /\ UNCHANGED outcome
          /\ held' = [held EXCEPT ![t] = @ + 1]
  /\ UNCHANGED <<credential, client, closed, closer, attempt, orphans>>

PreviousWebsocketClosed(t) ==
  /\ pc[t] = "closingWebsocket"
  /\ SendNow(t)
  /\ UNCHANGED <<credential, client, closed, closer, attempt, orphans>>

\* An answer that is not retried: returned, or raised as an APIError.
Answer(t) ==
  /\ t \in Requests /\ pc[t] = "inFlight" /\ End(t, "answered")
  /\ UNCHANGED <<credential, client, closed, closer, attempt, orphans>>

\* The session of a WebSocket is over, or its upgrade was refused.
SessionEnds(t) ==
  /\ t \in Sockets /\ pc[t] = "inFlight" /\ End(t, "answered")
  /\ UNCHANGED <<credential, client, closed, closer, attempt, orphans>>

\* A mistake: the attempt is not counted.
BreakUncounted(t) ==
  /\ pc[t] = "inFlight"
  /\ IF AttemptsLeft(attempt[t], Attempts(t))
     THEN /\ pc' = [pc EXCEPT ![t] = "sleeping"]
          /\ held' = [held EXCEPT ![t] = 0] /\ UNCHANGED outcome
     ELSE End(t, "transport")
  /\ UNCHANGED <<credential, client, closed, closer, attempt, orphans>>

\* The network fails, or another task or close() closed the pool, or the transport
\* it shares, under the request: a TransportError either way.  With attempts left
\* an answer that is retried leads to the same state.
Break(t) ==
  /\ pc[t] = "inFlight"
  /\ \/ /\ AttemptsLeft(attempt[t], Attempts(t))
        /\ pc' = [pc EXCEPT ![t] = "sleeping"]
        /\ attempt' = [attempt EXCEPT ![t] = @ + 1]
        /\ held' = [held EXCEPT ![t] = 0]
        /\ UNCHANGED outcome
     \/ /\ ~AttemptsLeft(attempt[t], Attempts(t))
        /\ End(t, "transport") /\ UNCHANGED attempt
  /\ UNCHANGED <<credential, client, closed, closer, orphans>>

\* The task is cancelled at an await (asyncio.timeout, a task group that fails).
Cancel(t) ==
  /\ pc[t] \notin {"idle", "done"} /\ End(t, "cancelled")
  /\ orphans' = orphans \union (IF pc[t] = "closingHttp" THEN {held[t]} ELSE {})
  /\ UNCHANGED <<credential, client, closed, closer, attempt>>

CloseHttp ==
  /\ closer = "open" /\ closer' = "closing"
  /\ Orderly => \A t \in Tasks : pc[t] = "done"
  /\ closed' = closed \union {<<"http", http>>}
  /\ UNCHANGED <<credential, client, pc, attempt, held, outcome, orphans>>

CloseWebsocket ==
  /\ closer = "closing" /\ closer' = "closed"
  /\ closed' = closed \union {<<"websocket", websocket_http>>}
  /\ UNCHANGED <<credential, client, pc, attempt, held, outcome, orphans>>

\* Ten seconds before its expirationTimestamp a cached credential is no longer
\* used.
Expire ==
  /\ credential.valid /\ credential' = [credential EXCEPT !.valid = FALSE]
  /\ UNCHANGED <<client, closed, closer, pc, attempt, held, outcome, orphans>>

TaskStep(t) ==
  \/ Send(t) \/ RefreshFails(t) \/ Rotate(t)
  \/ PreviousHttpClosed(t) \/ PreviousWebsocketClosed(t)
  \/ Answer(t) \/ SessionEnds(t) \/ Break(t)

Next ==
  \/ \E t \in Tasks : TaskStep(t) \/ Cancel(t)
  \/ CloseHttp \/ CloseWebsocket \/ Expire

Spec == Init /\ [][Next]_vars

\* The event loop runs every ready task, and a request in flight is answered or
\* times out.
FairSpec ==
  Spec /\ \A t \in Tasks : WF_vars(pc[t] # "idle" /\ TaskStep(t))

-----------------------------------------------------------------------------
TypeOK ==
  /\ credential \in [kind : {"certificate", "unusable"}, valid : BOOLEAN]
  /\ {verify, http, websocket_http} \subseteq 0..MaxSerial
  /\ closed \subseteq {"http", "websocket"} \X (0..MaxSerial)
  /\ closer \in {"open", "closing", "closed"} /\ orphans \subseteq 0..MaxSerial
  /\ pc \in [Tasks -> {"idle", "sleeping", "closingHttp", "closingWebsocket",
                       "inFlight", "done"}]
  /\ attempt \in [Tasks -> 0..(MaxAttempts - 1)]
  /\ held \in [Tasks -> 0..MaxSerial]
  /\ outcome \in [Tasks -> {"none", "credential", "transport", "answered",
                            "cancelled", "poolClosed", "transportClosed"}]

\* As long as nobody calls close(), no task finds its pool closed at the moment
\* it sends, although any task may replace and close the pools while it waits.
NoSendOnClosedPool ==
  \A t \in Tasks : outcome[t] = "poolClosed" => closer # "open"

\* Every send uses the pools of the newest certificate the client knows, also
\* when another task rotated during the await of this one.
SendsWithNewestCertificate ==
  [][\A t \in Tasks : pc[t] # "inFlight" /\ pc'[t] = "inFlight"
       => held'[t] = verify]_vars

\* A replaced pair is closed, or a task is about to; only a cancellation during
\* the first aclose() leaves a WebSocket pool behind.
ReplacedPoolsAreClosed ==
  \A n \in 0..(verify - 1) :
    /\ <<"http", n>> \in closed
    /\ \/ <<"websocket", n>> \in closed
       \/ n \in orphans
       \/ \E t \in Tasks : pc[t] = "closingHttp" /\ held[t] = n

\* Tasks that keep rotating certificates under each other still all finish.
EveryCallEnds ==
  \A t \in Tasks : pc[t] # "idle" ~> pc[t] = "done"

\* _async_client.py:599: close() closes "the underlying asynchronous HTTP and
\* WebSocket connection pools".  When it has returned, called after the last
\* task, no pool this client ever opened is open.
CloseLeavesNothingOpen ==
  Orderly /\ closer = "closed" => ({"http", "websocket"} \X (0..verify)) \subseteq closed
=============================================================================
