------------------------------- MODULE Watch -------------------------------
(***************************************************************************)
(* One call of KubeClient.watch (src/httpx2_k8s/_client.py), its awaiting  *)
(* twin in _async_client.py, and the API server it talks to.               *)
(*                                                                         *)
(* The server is a log of writes; the version of a write is its index.     *)
(* Compaction forgets the versions up to "compacted".  An open stream is   *)
(* the server's position in the log and, for a watch opened without a      *)
(* version, a backlog: one synthetic event per existing object, in no      *)
(* particular version order, sent before anything else.                    *)
(*                                                                         *)
(* The client is the while loop of the generator: it asks for a stream,    *)
(* reads lines from it, lists again after an expiry, and comes back to the *)
(* top.  Waiting between attempts changes nothing and is not a step.       *)
(***************************************************************************)
EXTENDS Retry, Sequences

CONSTANTS
  Objects,      \* what is written: one name per watched object
  Selected,     \* the ones the path and the selectors of the watch match
  Unversioned,  \* the ones whose events carry no metadata.resourceVersion
  Policies,     \* retry policies (NoPolicy stands for None)
  Starts,       \* values of the resource_version argument
  Statuses,     \* status classes of the answer to a watch request
  NoVersion,    \* resource_version=None
  MaxWrites,    \* bound: writes the server accepts
  MaxDelivered  \* bound: events one call yields

\* How a call ends, besides an APIError for a status.
Endings == {"credential", "transport", "overflow", "expired", "watchError", "protocolError",
            "relistError", "returned", "closedRepeatedly", "stopped"}

ASSUME WatchAssumption ==
  /\ Selected \subseteq Objects
  /\ \A p \in Policies : p.max_attempts \in Nat \ {0}
  /\ NoVersion \notin Nat
  /\ Starts \subseteq {0, NoVersion}
  /\ Statuses \intersect (Endings \union {"none"}) = {}

VARIABLES
  call,             \* the arguments of the call
  pc,               \* "open", "requested", "streaming", "relist", "done"
  current_version,  \* the local of that name
  failures,         \* the local of that name
  opens,            \* requests sent since the last event, bookmark or recovery
  outcome,          \* how the call ended
  delivered,        \* versions of the events yielded so far
  skipped,          \* selected versions a recovery jumped over undelivered
  log, compacted,   \* the server's writes and how many it has forgotten
  position,         \* last version the open stream is past
  backlog           \* synthetic versions the open stream still owes

client == <<call, pc, current_version, failures, opens, outcome, delivered, skipped>>
stream == <<position, backlog>>
server == <<log, compacted>>
vars == <<client, stream, server>>

Calls == [policy : Policies, reconnect : BOOLEAN, relist : BOOLEAN, start : Starts]

Due(c) == {v \in 1..Len(log) : v > c /\ log[v] \in Selected}
Versioned(v) == log[v] \notin Unversioned
DeliveredSet == {delivered[i] : i \in 1..Len(delivered)}
Settled(v) == v \in DeliveredSet \/ v \in skipped
Cursor == IF current_version = NoVersion THEN 0 ELSE current_version

Init ==
  /\ call \in Calls
  /\ pc = "open" /\ current_version = call.start
  /\ failures = 0 /\ opens = 0 /\ outcome = "none"
  /\ delivered = <<>> /\ skipped = {}
  /\ log = <<>> /\ compacted = 0
  /\ position = 0 /\ backlog = {}

Finish(how) ==
  /\ pc' = "done" /\ outcome' = how
  /\ position' = 0 /\ backlog' = {}
  /\ UNCHANGED <<call, current_version, failures, opens, delivered, skipped>>

\* Back to the top of the loop; the with block closes the stream.
Reopen ==
  /\ pc' = "open" /\ position' = 0 /\ backlog' = {}
  /\ UNCHANGED <<call, outcome, delivered>>

\* A mistake: the reconnect asks for the version the call began with.
ReopenFromStart ==
  /\ failures' = failures + 1
  /\ Reopen
  /\ current_version' = call.start
  /\ UNCHANGED <<opens, skipped>>

\* sleep, failures += 1, continue.
SleepAndReopen ==
  /\ failures' = failures + 1
  /\ Reopen
  /\ UNCHANGED <<current_version, opens, skipped>>

MayRetry == AttemptsLeft(failures, call.policy.max_attempts)

\* _refresh_certificate or the token provider raises: before the try block,
\* so nothing catches it.
CredentialError == pc = "open" /\ Finish("credential") /\ UNCHANGED server

\* The request carries current_version, or no version at all.
SendRequest ==
  /\ pc = "open" /\ pc' = "requested" /\ opens' = opens + 1
  /\ UNCHANGED <<call, current_version, failures, outcome, delivered, skipped,
                 stream, server>>

\* The newest version of every selected object: what a stream opened without a
\* version begins with.
Latest == {v \in Due(0) : \A w \in Due(v) : log[w] # log[v]}

Expired == current_version # NoVersion /\ current_version < compacted

\* A mistake: resourceVersion is left out of the query when reconnecting.
StreamingFromNow ==
  /\ pc' = "streaming" /\ position' = Len(log) /\ backlog' = {}
  /\ UNCHANGED <<call, current_version, failures, opens, outcome, delivered, skipped>>

\* The stream begins after the version of the request, or with the backlog.
Streaming ==
  /\ pc' = "streaming"
  /\ IF current_version = NoVersion
     THEN position' = Len(log) /\ backlog' = Latest
     ELSE position' = current_version /\ backlog' = {}
  /\ UNCHANGED <<call, current_version, failures, opens, outcome, delivered, skipped>>

\* The server's answer.  A version it no longer has is reported either as HTTP
\* 410 here or as an ERROR event of the stream.  The Retry-After of an answer to be
\* retried may overflow, which nothing catches.
Response(status) ==
  LET retriable == Retriable(call.policy, status, failures, call.policy.max_attempts)
  IN /\ pc = "requested"
     /\ status = "gone" => Expired
     /\ \/ retriable /\ SleepAndReopen
        \/ retriable /\ Finish("overflow")
        \/ ~retriable /\ status # "ok" /\ Finish(status)
        \/ ~retriable /\ status = "ok" /\ Streaming
     /\ UNCHANGED server

\* The connection fails while the request is sent, while the stream is read,
\* or in the relist, which runs inside the same try block, once the list has
\* used up its own attempts.
TransportError ==
  /\ pc \in {"requested", "streaming", "relist"}
  /\ \/ call.reconnect /\ MayRetry /\ SleepAndReopen
     \/ ~(call.reconnect /\ MayRetry) /\ Finish("transport")
  /\ UNCHANGED server

\* Mistakes: the version of an event is not remembered, or the failures before
\* it are not forgotten.
YieldForgetsVersion(v) ==
  /\ Len(delivered) < MaxDelivered
  /\ failures' = 0 /\ opens' = 1
  /\ delivered' = Append(delivered, v)
  /\ UNCHANGED <<call, pc, current_version, outcome, skipped, server>>

YieldKeepsFailures(v) ==
  /\ Len(delivered) < MaxDelivered
  /\ current_version' = IF Versioned(v) THEN v ELSE current_version
  /\ opens' = 1
  /\ delivered' = Append(delivered, v)
  /\ UNCHANGED <<call, pc, failures, outcome, skipped, server>>

\* A line that decodes to an event: remember its version, clear the failure
\* count, yield.
Yield(v) ==
  /\ Len(delivered) < MaxDelivered
  /\ current_version' = IF Versioned(v) THEN v ELSE current_version
  /\ failures' = 0 /\ opens' = 1
  /\ delivered' = Append(delivered, v)
  /\ UNCHANGED <<call, pc, outcome, skipped, server>>

\* A live stream sends the selected writes after its position in order.
ReceiveEvent ==
  /\ pc = "streaming" /\ backlog = {} /\ compacted <= position
  /\ \E v \in Due(position) :
       /\ \A w \in Due(position) : v <= w
       /\ Yield(v)
       /\ position' = v
  /\ UNCHANGED backlog

ReceiveInitialEvent ==
  /\ pc = "streaming"
  /\ \E v \in backlog : Yield(v) /\ backlog' = backlog \ {v}
  /\ UNCHANGED position

\* A bookmark is also yielded; it can name any version with nothing selected
\* between it and the stream's position.
ReceiveBookmark ==
  /\ pc = "streaming" /\ backlog = {} /\ compacted <= position
  /\ \E b \in position..Len(log) :
       /\ \A w \in Due(position) : b < w
       /\ current_version' = b /\ position' = b
  /\ failures' = 0 /\ opens' = 1
  /\ UNCHANGED <<call, pc, outcome, delivered, skipped, backlog, server>>

\* ERROR event with code 410 or reason Expired.
ReceiveExpired ==
  /\ pc = "streaming" /\ backlog = {} /\ position < compacted
  /\ \/ /\ call.relist /\ pc' = "relist"
        /\ UNCHANGED <<call, current_version, failures, opens, outcome,
                       delivered, skipped, stream>>
     \/ ~call.relist /\ Finish("expired")
  /\ UNCHANGED server

\* Any other ERROR event (WatchError) or a line decode_watch_line refuses
\* (WatchProtocolError).
ReceiveUnusable ==
  /\ pc = "streaming"
  /\ \E e \in {"watchError", "protocolError"} : Finish(e)
  /\ UNCHANGED server

\* The server ends the response (timeoutSeconds, a rollout, a load balancer).
StreamClosed ==
  /\ pc = "streaming"
  /\ \/ ~call.reconnect /\ Finish("returned")
     \/ call.reconnect /\ MayRetry /\ SleepAndReopen
     \/ call.reconnect /\ ~MayRetry /\ Finish("closedRepeatedly")
  /\ UNCHANGED server

\* A mistake: the version of the fresh list is not taken over.
RelistKeepsVersion ==
  /\ pc = "relist"
  /\ failures' = 0 /\ opens' = 0
  /\ Reopen
  /\ UNCHANGED <<current_version, skipped, server>>

\* The list answers.  It was read after the expiry, but maybe some time ago;
\* its items are dropped and only its version is kept.
Relist ==
  /\ pc = "relist"
  /\ \E fresh \in (position + 1)..Len(log) :
       /\ current_version' = fresh
       /\ skipped' = skipped \union {v \in Due(Cursor) : v <= fresh /\ ~Settled(v)}
  /\ failures' = 0 /\ opens' = 0
  /\ Reopen
  /\ UNCHANGED server

\* The list has no version (WatchProtocolError) or fails with something that
\* is no transport error.
RelistUnusable ==
  /\ pc = "relist"
  /\ \E e \in {"protocolError", "relistError"} : Finish(e)
  /\ UNCHANGED server

\* The consumer closes the generator, or its task is cancelled.
ConsumerStop == pc # "done" /\ Finish("stopped") /\ UNCHANGED server

ServerWrite ==
  /\ Len(log) < MaxWrites
  /\ \E o \in Objects : log' = Append(log, o)
  /\ UNCHANGED <<client, stream, compacted>>

ServerCompact ==
  /\ \E c \in (compacted + 1)..Len(log) : compacted' = c
  /\ UNCHANGED <<client, stream, log>>

ClientStep ==
  \/ \E s \in Statuses : Response(s)
  \/ SendRequest \/ CredentialError \/ TransportError
  \/ ReceiveEvent \/ ReceiveInitialEvent \/ ReceiveBookmark
  \/ ReceiveExpired \/ ReceiveUnusable \/ StreamClosed
  \/ Relist \/ RelistUnusable

Next == ClientStep \/ ConsumerStop \/ ServerWrite \/ ServerCompact

Spec == Init /\ [][Next]_vars

-----------------------------------------------------------------------------
(***************************************************************************)
(* Properties                                                              *)
(***************************************************************************)
TypeOK ==
  /\ call \in Calls
  /\ pc \in {"open", "requested", "streaming", "relist", "done"}
  /\ current_version \in 0..Len(log) \union {NoVersion}
  /\ failures \in 0..(call.policy.max_attempts - 1) /\ opens \in Nat
  /\ outcome \in {"none"} \union Endings \union Statuses
  /\ pc = "done" <=> outcome # "none"
  /\ log \in Seq(Objects) /\ compacted \in 0..Len(log)
  /\ position \in 0..Len(log) /\ backlog \subseteq 1..Len(log)
  /\ delivered \in Seq(1..Len(log)) /\ skipped \subseteq 1..Len(log)

\* The call was given the version of a list, as an informer would.
FromList == call.start # NoVersion

\* However often the stream breaks, is retried, reconnects or is recovered,
\* the versioned events of a call that began at a version come out in
\* increasing order of version: none twice, none late.
VersionsIncrease ==
  FromList =>
    \A i, j \in 1..Len(delivered) :
      i < j /\ Versioned(delivered[i]) /\ Versioned(delivered[j])
        => delivered[i] < delivered[j]

\* Whatever a reconnect will not ask for again (everything up to
\* current_version) was yielded, or lies in the gap of a recovery from an
\* expired version.
NoSilentGap ==
  FromList => \A v \in Due(0) : v <= Cursor => Settled(v)

\* max_attempts bounds the requests sent without hearing anything, over every
\* kind of failure together: refused opens, broken streams, quiet closes and
\* failed relists.
BoundedSilence == opens <= call.policy.max_attempts

\* And nothing gives up early: a reconnecting call that ends for want of a
\* stream has sent max_attempts requests in a row to no avail.  Failures from
\* before an event, a bookmark or a recovery do not count.
GivesUpOnlyWhenExhausted ==
  call.reconnect /\ outcome \in {"transport", "closedRepeatedly"}
    => opens = call.policy.max_attempts

\* The resume point never moves back, in particular not across a reconnect or
\* a recovery.
ResumeNeverGoesBack ==
  [][FromList => current_version' >= current_version]_vars

-----------------------------------------------------------------------------
(***************************************************************************)
(* The invariant behind them.  The counters: every request since the last  *)
(* sign of life but the current one is a failure.                          *)
(***************************************************************************)
Budget ==
  /\ pc = "open" => opens = failures
  /\ pc \in {"requested", "streaming", "relist"} => opens = failures + 1
  /\ BoundedSilence
  /\ GivesUpOnlyWhenExhausted

\* The resume point trails the stream only by versions that are settled, and
\* every versioned event is at or before it.
ResumePoint ==
  /\ backlog = {}
  /\ current_version # NoVersion
  /\ pc \in {"streaming", "relist"} =>
       /\ current_version <= position
       /\ \A v \in Due(current_version) : v <= position => Settled(v)
  /\ \A i \in 1..Len(delivered) :
       Versioned(delivered[i]) => delivered[i] <= current_version

\* The inductive invariant: TypeOK, the counters, and for a call that began at
\* a version what its resume point stands for.
IInv ==
  /\ TypeOK
  /\ Budget
  /\ FromList => ResumePoint
  /\ VersionsIncrease
  /\ NoSilentGap

-----------------------------------------------------------------------------
\* reliability.md:47-48: "a reconnect cannot silently duplicate log lines or
\* watch events".
NoDuplicateEvents ==
  \A i, j \in 1..Len(delivered) : i # j => delivered[i] # delivered[j]

\* reliability.md:44-45: watches "can also recover from an expired resource
\* version by listing again": with a relist, no call ends because of one.
ExpiryIsRecovered ==
  call.relist /\ pc = "done" => outcome \notin {"expired", "gone"}

\* The generator's own steps are taken, and a network that lets the same
\* request through again and again lets the next event through some day.
Fairness == WF_vars(ClientStep) /\ SF_vars(ReceiveEvent)

FairSpec == Spec /\ Fairness

\* A selected write is yielded, or given up by a recovery, or the call ends:
\* it never goes round its retry and recovery loops for ever.
EventuallySettled ==
  \A v \in 1..MaxWrites :
    v \in Due(0) ~> Settled(v) \/ pc = "done"

\* The promise of EventFeed, kept by every call that began at a version.
Feed == INSTANCE EventFeed WITH cursor <- Cursor

FeedSpec == Feed!Spec
=============================================================================
