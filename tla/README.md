# A verification project for httpx2-k8s

httpx2-k8s is a Kubernetes API client for Python on top of the HTTP library
httpx2. Most of its lines are generated: models, paths and one wrapper per API
operation. What can go wrong in time lives in a few hand-written files, and this
project is about those. TLC checks the modules on small instances; TLAPS proves
every safety property the passing runs check, for every value of the constants.

Paths below are relative to the package, `src/httpx2_k8s/`.

## The system

| Part | State | Operations | Hard because |
|---|---|---|---|
| `RetryPolicy` (`_retry.py`) | none, a frozen value | `allows`, `delay` | off-by-one in the attempts, hostile `Retry-After` |
| watch (`_client.py`, `_async_client.py`, `_watch.py`) | `current_version`, `failures` of one generator | open, read a line, recover by `relist`, reconnect, stop | a long-lived stream is broken, closed, refused and expired in any order, and must neither lose nor repeat events |
| buffered requests (`_request_response`) | `attempt` | send, retry, fail | an attempt that failed for the client may have worked on the server |
| line streams (`stream_lines`, `_official_api.py`) | `attempt`, `delivered` | open, read a line, retry | a retry begins at the first line again |
| pagination (`pagination.py`) | `token`, `seen_tokens` | fetch a page, yield its items | the server chooses the tokens |
| connection pools (`_http`, `_websocket_http`, `_verify`) | the two pools and the certificate they were built with | rotate, send, close | tasks share them, and a rotation has two awaits |
| exec credentials (`_config.py`) | cached credential, cached SSL context | `resolve`, `context`, `token` | a cached credential expires, or turns out unusable; clients share the cache |
| port forwarding (`_port_forward.py`) | `buffer`, `error`, `data_closed`, `send_closed` | open, send, receive, close, cancel | frames of two streams over one WebSocket, cut by messages anywhere; readers that await at once |
| remote command (`_remote_command.py`) | the position in the connection; bytearrays of one `collect` | `receive`, `collect` | the result is the last frame, which may never come, and a call may follow one that failed |
| kubeconfig (`_config.py`) | none between calls | choose context, cluster, user, credentials | precedence of the fields |
| API groups | the client they wrap | build a path, call one of the above | nothing: they are stateless |

How they interact. An API group builds a path and calls `request`,
`stream_lines`, `watch` or `websocket` of the client. Every attempt of each of
these begins with `_refresh_certificate`, which asks the exec provider for a
context and, when it is a new one, replaces both pools; then the token provider
is asked. `watch` calls back into a list of its API group (`relist`) when its
version has expired; that list is a buffered request with retries of its own.
Pagination calls buffered requests. Nothing is persisted, so there is no crash
recovery. The synchronous client has no step inside a step: the interleavings
there are with the server. In the asynchronous client every `await` lets other
tasks in.

What makes each part correct:

- watch: events that carry a version come out once and in order; whatever a
  reconnect does not ask for was yielded or falls in a recovery's gap; the retry
  budget is used up, and not exceeded.
- buffered requests: a method that may not be retried is carried out at most
  once; the policy bounds the attempts and the waiting.
- line streams: the caller sees a beginning of the text.
- pagination: no list page is read twice, no item is lost or repeated.
- port forwarding: the reader gets a byte stream, and an end only where it ends;
  an error the pod reported is not hidden; the pod gets nothing after a FIN.
- remote command: a result is whole, and 0 means what it says.
- credentials: a request uses the newest credential, and one that is valid.
- kubeconfig: several files mean what one merged file would.
- pools: no task sends on a closed pool or with an old certificate because of
  another task, and replaced pools are closed.

## Modules

| Module | Models | Composed of |
|---|---|---|
| `Retry` | `RetryPolicy` as a record; `AttemptsLeft`, `Retriable`, `Delay` | |
| `EventFeed` | abstract: what a watch promises its consumer | |
| `Watch` | one `watch()` call and the API server | `Retry`, `EventFeed` by refinement |
| `WatchProofs` | theorems about `Watch` | `Watch` |
| `Request` | `_request_response` and the server's side of it | `Retry` |
| `StreamLines` | `stream_lines` and `iter_watch_response` | `Retry` |
| `Pagination` | `iter_pages`, `iter_items` and their twins | |
| `ClientPools` | the pools of `AsyncKubeClient`, the exec providers, tasks, `close()` | `Retry` |
| `ByteStream` | abstract: what a port-forward session promises its reader | |
| `PortForward` | one `AsyncPortForwardSession`, its readers and the pod's side | `ByteStream` by refinement |
| `RemoteCommand` | one session of exec or attach | |
| `Kubeconfig` | what `_resolve` selects, and the same through a merged file | |
| `Credentials` | a loaded configuration: the exec providers and the clients that use them | `Kubeconfig` |
| `RequestProofs`, `StreamLinesProofs`, `PaginationProofs`, `ClientPoolsProofs`, `PortForwardProofs`, `RemoteCommandProofs`, `CredentialsProofs` | theorems about the module they are named after | that module |
| `MC...` | constants for TLC | the module they are named after |

Operators whose comment calls them a mistake (`AttemptsLeftOffByOne`,
`YieldForgetsVersion`, ...) are plausible bugs. The specification never uses
them: put in the place of the operator they misrepresent, each of them breaks
the property it is listed with in `PROJECT.json`, which shows that the property
does say something.

### Retry

A policy is a record with the fields of the dataclass; `ValidPolicy` is
`__post_init__`. `None` is `NoPolicy`, one attempt and nothing retriable, which
answers every `policy is None or ...` test as the code does. `attempt + 1 <
attempts` is `AttemptsLeft`. Seconds are natural numbers, so the rounding of
floats is left out. Their range is not: `_retry_after` turns an integer into a
float, which raises `OverflowError` past the largest double. `Overflows` is that
case, and `Delay` is used only where it does not apply. The clients do not catch
the error, so an answer that would have been retried ends the call with it, outcome
`"overflow"` in `Request`, `StreamLines` and `Watch`, whatever attempts are left.
A policy whose delays `sleep` itself refuses as too long is not modelled.

### Watch

`pc` names the place in the loop: `open` (top of the loop), `requested` (inside
`stream(...)` before the answer), `streaming` (in `iter_lines`), `relist`
(waiting for the callback), `done`. `current_version` and `failures` are the
locals. `opens`, `delivered` and `skipped` are history: requests since the last
sign of life, the versions yielded, the versions a recovery passed over.

The server is external. It is a log of writes, the version of a write is its
index (real versions are opaque but grow in the order of the events of a watch),
and compaction forgets a prefix. A stream opened at a version sends the selected
writes after it in order. A stream opened without one starts with a synthetic
event per existing object in any order, as the Kubernetes API describes it.
Objects are written, never removed. A bookmark may name any version up to the
next selected write. An expired version is reported as HTTP 410 or as an ERROR
event. An object in `Unversioned` stands for a resource whose events have no
`metadata.resourceVersion`; `decode_watch_line` accepts these.

Each exit of the loop body is an action: `CredentialError` (outside the `try`),
`Response` (retriable status, other failure, success), `TransportError` (while
sending, reading or relisting: all inside the same `try`), the three kinds of
line `ReceiveEvent`, `ReceiveInitialEvent`, `ReceiveBookmark`, the bad ones
`ReceiveExpired` and `ReceiveUnusable`, `Relist` and `RelistUnusable`,
`StreamClosed`, and `ConsumerStop` for a closed generator or a cancelled task.
Sleeping changes nothing and is not a step. A blank line is skipped by the code
and is not a step either.

`EventFeed` has a cursor and four steps: a write, a delivery, a checkpoint and a
jump. `Watch` implements it with `cursor <- Cursor`, the version it would
resume from.

### Request

`strays` counts abandoned attempts the server may still carry out, so `applied`
can grow after the call has ended. A success tells that the request was carried
out; any other answer tells nothing. Waiting is added up in `slept`. `MaxFloat`
stands for the largest double. `docs/reliability.md:22` says that temporary failures
are retried and `Retry-After` honoured; the ending `"overflow"` is the one case in
which the model does neither, as the code does neither.

### StreamLines

The text only grows and each stream sends it from line one, as a log without
`sinceTime` does. `call.decode` adds `iter_watch_response` on top: it drops blank
lines and fails on a line its model refuses.

### Pagination

The generator `iter_items` on top of `iter_pages`. `NoToken` is both `None` and
the empty string, which the code treats alike. The server may answer any token
at any time.

### ClientPools

A step is the code between two awaits. Certificates are numbered in order of
issue; `http` and `websocket_http` hold the number of the certificate their pool
was built with. `Rotate` runs `resolve`, `context` and `_refresh_certificate`
down to `await previous.aclose()`, where the task waits as `closingHttp`;
`PreviousHttpClosed` closes the other pool and waits as `closingWebsocket`;
`PreviousWebsocketClosed` looks the pool up again and sends. External
assumptions: `aclose()` marks a client closed before it first waits, a closed
client refuses to send with an error that is not a `TransportError`, and a
request in flight on a pool that is closed either completes or fails with a
`TransportError`. `Cancel` may hit any await. `close()` is two steps.

A transport the caller gave is used by every pool, also by those a rotation builds,
and is closed with the first of them that is (`Shared`, `TransportClosed`). What a
closed transport does is its own: a send over it may fail with an error that is not
a `TransportError`, or go on as over an open one. `Answer` ends a request,
`SessionEnds` a WebSocket.

### PortForward

The asynchronous session; `PortForwardSession` is the same with one reader.
`sent` are the frames of the pod's side. The buffer is three numbers: the frames
up to `taken` were handed out, those up to `whole` have arrived, and `partial`
says that the beginning of the next has. `Message` brings any further frames and
perhaps part of one, so a frame may come in pieces, whole, or with others.

A reader is at one of its awaits (`read` for a message, `pong` for the answer to
a PING) or runs; `running` is the one that does. `Await` keeps in `snapshot` what
`buffer += await ...` has read of the buffer: Python evaluates the left side
first. If the buffer has changed when the message arrives, `torn` is set; from
then on the bytes in the buffer mean nothing, and the model ends there instead of
following them. `overlapped` and `split` are history for the property that says
when this can happen.

`_open` is the same reader with `waiting` on a SYN_REPLY; a failure in it leaves
the context manager of `connect_namespaced_pod_port_forward`, which closes the
WebSocket (`Abandon`). `ErrorFrame`, `DataFrame`, `Ping`, `Ignore` and `Refuse`
are `control_action` and `data`. A frame of another version or of stream zero is
refused by the parser before the buffer is cut, so it stays there and every later
`receive()` fails on it.

Send, `close_send` and `cancel` may be called by any task when no reader runs.
`wire` is what the pod was told on the data stream: a send may fail, and then
nothing was told. Things the model shows to be so, and that no document denies:
a second `close_send()` returns at once although the first one failed; an error
frame that arrives after the end of data was told is never read; a reader that
awaits a message is not woken by the FIN that another reader took.

External assumptions: the pod's side sends nothing on a stream after its FIN; a
receive that is cancelled or times out leaves the message that has not come to
the next one; messages that had not been received are gone when the connection
is.

`ByteStream` has the payloads written, the end, and the last one read. `Read`
takes the next one; `Close` tells the end when all is read, or after a
disconnect or `cancel()`. A torn session stops, so the refinement says that
payloads come in order and whole until two `receive()` calls have awaited at
once.

### RemoteCommand

`sent` are the kinds of the frames. `Frame` is one turn of `collect()`,
`Disconnected` its end with `_decode_result`, `GiveUp` a timeout or a cancelled
task, `Receive` a single `receive()`. `gathered` holds positions in place of
bytes, of frames with data: a frame without any adds nothing to a bytearray, so it
is of the kind `"silent"` like a well-formed CLOSE. `Verdict` is the decision table of `_decode_result` on how many of the
`Parts` frames of the Status were gathered: none is exit code 0, less than all is
no JSON. The client's sending methods (`send_stdin`, `close_stdin`, `resize`) keep
no state, and what the process makes of them is behind `ServerSend`.

### Kubeconfig and Credentials

A kubeconfig file is a record of the current context and functions from names to
entries; a user is the set of fields it sets. `None` is in the place of a name that
is not given. The empty string is a name: the code asks whether a requested context
or a context's user `is None`; only an empty `current-context` counts as none
(`Current`). `Exclusive` and `Paired` are the two things refused of a user. `Resolve`
follows `_resolve` to the
choice of cluster, user and base path, searching the files for the `Earliest` that
has what is looked for; `ResolveMerged` builds the merged file entry by entry and
looks the names up there, the reference it is checked against.

`Credentials` starts with files to load. `Load` resolves them, runs the plugin if
the user has one, and builds a context from a certificate. After that, `Request`
is the head of one attempt of a client: `resolve()` with its cache (`Provides`),
then `token()` or `context()` with `_refresh_certificate`. Credentials are
numbered in order of issue. The plugin takes up to `Slowest`, may fail, and may
return the other form, a certificate that does not load, or something that is
valid only while it runs; nothing awaits meanwhile, so the clients' requests are
steps. `Leeway` stands for the ten seconds of `resolve()`. A static user has no
provider: its clients' requests do nothing here.

`ClientPools` has the same cache with one client and no clock, and the pools
behind `verify` instead.

## Runs

| Run | What it shows | Bounds, and why they are enough |
|---|---|---|
| `watch` | the safety properties of `Watch`, for a call from a list version and from none | 3 writes: two events and a write between or after them, so every pair of versions can be repeated, missed or jumped over. 4 events: one more than the writes, so a repetition fits. Policies: none, 2 attempts, and 3 attempts with 410 among the retriable codes. One selected object, one without versions, one not selected. |
| `watch_feed` | `IInv`, the refinement of `EventFeed`, and progress | calls from a list version, 3 writes of a selected and an unselected object |
| `watch_most_recent` | finding: an event twice | two objects are enough for initial events out of order |
| `watch_gone` | finding: HTTP 410 is not recovered | one object |
| `request` | writes never twice, attempts and waiting bounded | policies of 1, 3 and 4 attempts with a backoff below and above its cap; a `Retry-After` in the past, in range, beyond `max_retry_after`, beyond `MaxFloat`, and none |
| `stream_lines` | the caller sees a beginning of the text | 4 lines of every kind, 3 attempts: a break before, at and after the first line with a further attempt left |
| `pagination` | tokens and items | 2 tokens and pages of 0 to 2 items: a token that repeats the first, the previous, or the argument |
| `client_pools` | pools under rotation, cancellation and close | 2 requests with 2 attempts and a WebSocket, 2 rotations: a task can be overtaken by a second rotation during its own, and pools are replaced both while in use and while being closed. `Shared = TRUE`: a send over a closed transport has both outcomes, so every behaviour of pools with transports of their own is among those checked |
| `port_forward` | the byte stream, errors before the end, nothing after a FIN, and that a disconnect ends a `receive()` | two readers, the least that can overlap; 4 frames, so that after the two replies of the opening there are two more to be split, merged, overtaken or torn apart. Frames: both replies, PING, a refused one, data with and without payload and FIN, errors with and without FIN. The kinds that behave like another one (`quiet`, `fatal`) are left out. |
| `remote_command` | results and exit codes | 4 frames of every kind and a Status in 2 parts: output before, between and after the parts, and a second `collect()` after any of them |
| `credentials` | newest and valid credentials; file precedence | 2 clients; every pair of files with 2 contexts, a cluster and a user that are there or not, one context and the user named by the empty string, a current context that is set, empty or absent; a plugin that takes up to 2, lifetimes of 0, 1 and 3 around the leeway of 1, 4 credentials until time 6: a credential is renewed by either client, expires, and is refused |
| `client_close` | finding: a WebSocket pool that is never closed | one task and one rotation |

Every run sets `CHECK_DEADLOCK FALSE`: each call ends, the logs, the frames and the
time are bounded, and then nothing is left to do.

Fairness. `watch_feed` assumes weak fairness of the generator's own steps, as a
consumer keeps asking for the next event, and strong fairness of `ReceiveEvent`:
a network that lets the stream open again and again lets its next event through
some day. Nothing is assumed of writes, compaction or the consumer stopping.
Progress is the property that the retry and recovery loops of a watch cannot go
round for ever past a write: it is yielded, skipped by a recovery, or the call
ends. `client_pools` assumes that the event loop runs each task that has begun
and that a request in flight is answered or fails; it assumes nothing of
cancellation, expiry or `close()`. `port_forward` assumes weak fairness of a
reader that runs, which nothing interrupts until its next await, and strong
fairness of a reader whose await can end: other tasks run in between, and a
message or a PING may be what ends it, but the ready queue of asyncio is first in,
first out, so a task whose await is over gets its turn. Nothing is assumed of the
pod, the disconnect, or the callers. The other runs check safety only.

## Findings

1. `watch_most_recent`. `docs/reliability.md:47` says that streams stop retrying
   after they yield data, so a reconnect cannot duplicate events. `watch()` does
   reconnect after it has yielded. From a list version this is safe (see the
   proofs). Without `resource_version` a break among the initial events resumes
   at the version of the last one seen, and those with higher versions that came
   before it come again.
2. `watch_gone`. `docs/reliability.md:44` says that a watch can recover from an
   expired version by listing again. It does for an ERROR event; the same
   expiry answered as HTTP 410 is an `APIError`.
3. `client_close`. A task cancelled in `await previous.aclose()` leaves the
   previous WebSocket pool open and unreachable, also for `close()`.

## Proofs

Each proof module holds for every value of the constants that satisfies the
named assumption of its module.

| Module | Theorems | Assumption |
|---|---|---|
| `WatchProofs` | `TypeOK`, `IInv`, `VersionsIncrease`, `NoSilentGap`, `BoundedSilence`, `GivesUpOnlyWhenExhausted`, `ResumeNeverGoesBack`; from a list version `Watch` implements `EventFeed`; what `EventFeed` promises; when findings 1 and 2 cannot happen | `WatchAssumption` |
| `StreamLinesProofs` | `TypeOK`, `SeenIsPrefix`, `FailsOnlyWhenExhausted`, `NoRequestAfterLine` | `StreamAssumption` |
| `PortForwardProofs` | `TypeOK`, `TornOnlyByOverlap`, `CleanEnd`, `NothingAfterFin`; `PortForward` implements `ByteStream`; an end of data that is told is complete; one reader tears nothing | `ForwardAssumption` |
| `RemoteCommandProofs` | `TypeOK`, `OutputComplete`, `ZeroIsSuccess` | `CommandAssumption` |
| `CredentialsProofs` | `TypeOK`, `NewestIsUsed`, `ServedFresh`, `ResolvesAsMerged`; certificates never go back | `CredentialsAssumption` |
| `RequestProofs` | `TypeOK`, `NeverTwice`, `AppliedAtMostAttempts`, `TemporaryFailureIsLast`, `WaitBounded` | `RequestAssumption` |
| `PaginationProofs` | `TypeOK`, `NoTokenFetchedTwice`, `EveryItemBeforeTheEnd`, `ItemsInOrder`; finitely many tokens, finitely many fetches | `PaginationAssumption` |
| `ClientPoolsProofs` | `TypeOK`, `NoSendOnClosedPool`, `ReplacedPoolsAreClosed`, `SendsWithNewestCertificate`; when finding 3 cannot happen | `PoolsAssumption` |

`WatchAssumption`: the selection is among the objects, every policy has at least
one attempt, the version markers are no version, a call starts at version 0 or
at none, and status classes differ from the other endings. Starting at 0, the
beginning of the log, loses nothing: the log before the call began is a log
written after it began. `RequestAssumption` and `PoolsAssumption` say the same
kind of thing of their constants, `PaginationAssumption` that the empty token is
no token. The others say what their constants are: that the opener is one of the
readers and frames are frames, that `NoCode` and `Never` are no numbers, that a
Status takes at least one frame, and that the files of a configuration are a list.

### Watch

`NoSilentGap` alone says what `current_version` stands for, not what the open
stream will send next. `ResumePoint` adds that the stream's position is at or
past the resume point and that everything selected between the two is settled;
the two are not always equal, since an unversioned event moves the stream and
not the resume point. It also says that every versioned event yielded lies at or
before the resume point, which makes `VersionsIncrease` inductive. `Budget` ties
the history variable `opens` to `failures`: equal at the top of the loop, one
apart while a request is out. `IInv` is the conjunction; the run `watch_feed`
checks it with TLC.

The proof is cut by what an action touches: `BudgetStep` for the counters, and
for the data `QuietStep` (nothing of interest changes), `WriteStep`,
`StreamingStep`, `BookmarkStep`, `EventStep` and `RelistStep`, put together in
`DataStep`. `FeedStep` maps each of them to a step of the feed. That the resume
point never moves back is then a fact about the feed's cursor.

`FeedKeepsItsPromise` is about `EventFeed` alone: its four actions keep versions
increasing, the cursor over what was delivered, no gap that was not told, and only
selected writes coming out (`FeedInv`). With the refinement these hold of a watch
without another look at its actions, which gives `WatchYieldsOnce`: from a list
version, with objects whose events carry their versions, no event comes twice.
That is the property finding 1 refutes, under the two conditions it needs.
`WatchRecoversFromEvents` does the same for finding 2: where no expiry is answered
as HTTP 410, no call with a `relist` ends because its version has expired.

### Request

`NeverTwice` is not inductive: an abandoned request can be carried out later.
`Accounting` counts: requests carried out, strays, and the current one while it
is pending make up `sends`, which is `attempt` or one more. With `attempt` below
the allowed attempts this bounds `applied`.

`Waited`: what was slept is at most `attempt` times the longest delay. It needs
that `Delay` is a number for any policy, any attempt and any header that does not
overflow, and so that a power of two is one. A proof about `2^n` by induction is out of reach; `PowerOfTwo`
takes it from the library's theorem that `1..n` has `2^n` subsets, a cardinality.
`WaitBounded` and `TypeOK` follow.

### Pagination

`TokenInv`: fetched tokens are seen ones (or the empty one of the first page) and
the token of the next fetch is none of them. `ItemInv`: of each page, the items up
to `Consumed` were yielded; `Consumed` is the whole page except for the one at
hand.

`PaginationFetchesBounded` counts: the fetches after the first map to their tokens,
no two to the same one, so there are at most as many as tokens.

### ClientPools

`PoolsInv`: the pools in use are those of the newest certificate, and until
`close()` every closed pool, and every pair a task is closing, is older. Looking
the pool up after the last await therefore finds an open one; the mistake
`SendOnOwnReplacement`, which remembers the pool from before it, does not.

`PoolsOnlyOrphansSurvive` and `PoolsCloseWithoutCancel` show that finding 3 is the
only way in which a `close()` called after the last task can leave a pool open.
`CloseMeetsNewest` is the invariant: nobody rotates any more, so `close()` closes
the newest pair, and the older ones are closed or orphaned by
`ReplacedPoolsAreClosed`.

### StreamLines

`OneRequestPerAttempt` ties requests to the attempt by the place in the loop, and
says that nothing was delivered before a stream is open. `SeenIsSent` says that
the caller has every line it wants up to the position of the stream: as long as
nothing was delivered the position may go back to the start, afterwards it only
grows.

### PortForward

`TornOnlyByOverlap` says when bytes are lost; its proof needs what holds before.
`Alone`: while no two readers have awaited at once, the one that awaits holds the
buffer as it is. `Unsplit`: while every message was one good frame, nothing is
left in the buffer when a reader awaits, so an old value of it does no harm.
`AllRead` says that every payload taken out of the buffer was returned (or the
session never opened), and `FinIsLast` that no data follows a FIN; from the two
every step maps to one of `ByteStream`, `ForwardImplementsByteStream`. `Wire`
ties what the pod was told to `send_closed`, for `NothingAfterFin`.

`ForwardEndIsComplete` is proved of `ByteStream` and carried over by the refinement:
an end told while the connection is up and nobody cancelled comes after every
payload. `ForwardOneReader`: with one reader nothing overlaps, so nothing is ever
torn, and the synchronous session needs no lock.

### RemoteCommand

`Gathered`: while `collect()` runs, each bytearray holds exactly the frames of its
channel that were read since it began, in order. A frame read extends one of
them at its end. When the Status is complete its parts are all there, which
decides `Verdict`.

### Credentials

`InStep`: the context was built from the certificate accepted last; what was
accepted and is still the cached one is a certificate that loads; no request
comes before a load. The rest follows action by action. `CredentialsAdvance` says
that no client goes back to an earlier certificate, whichever client renewed it.

`ResolveIsMerge` compares the search of `_resolve` with the merged file, for any
number of files and entries. The merge is a recursive function of the file list.
`MergedIsFirst` and `MergedContextIsFirst` find its closed form: after any number
of files it is what the earliest of them has. They need no induction theorem with
an operator parameter: if the two differed there would be a least number of files
at which they do (`LeastNumber`, from the library's minimum of a well-founded
relation), and one unfolding at that number contradicts it.

### Only model-checked

The liveness properties `EventuallySettled`, `EveryCallEnds` and
`DisconnectEndsReceive`: liveness under fairness is out of the prover's reach. That
the mistakes are mistakes: TLC shows a behaviour for each. What the three findings
refute does not hold in general; the theorems above say under which conditions it
does.

## Not modelled

- The generated code: API groups, operations, models and client wrappers, some
  99% of the lines. A wrapper builds a path and calls one operation that is
  modelled; it has no state, no branch that depends on an earlier call, and
  nothing to interleave. The hand-written groups are of the same kind; their
  `relist` callback is `Relist` of `Watch`.
- Threads that share a client, a session or a configuration: nothing promises
  that they may. The synchronous client's pools take the same steps as
  `ClientPools` without awaits between them.
- The bytes: SPDY headers and their compression, the decoding of bodies, lines,
  frames and errors beyond its outcomes; reading kubeconfig files, YAML and PEM;
  the in-cluster configuration, which reads two files and has no state.
- The methods of a remote command that only send.
- The clock going back, and a plugin that changes its answer without an expiry.
- Errors, patches and protocols (types without behaviour in time), the generator
  and the compliance data (development tools).

## Plan

Done: `Retry`, `Watch` with `EventFeed`, `Request`, `StreamLines`, `Pagination`,
`ClientPools`, `PortForward` with `ByteStream`, `RemoteCommand`, `Kubeconfig`,
`Credentials`, and the proofs above.

What is left that would say something new:

1. A composition of `Watch` with `ClientPools`: a relist that rotates the pools
   under the watch stream it was called from. Taken apart, the stream breaks with
   a `TransportError`, which `Watch` allows at any time.
2. A composition of `Credentials` with `ClientPools`: two clients whose tasks
   rotate both their pools after one renewal.
