---------------------------- MODULE PortForward -----------------------------
(***************************************************************************)
(* One AsyncPortForwardSession (_port_forward.py): SPDY frames of an error *)
(* stream (1) and a data stream (3) inside WebSocket messages, read by     *)
(* tasks of an event loop.  PortForwardSession is the same with one reader *)
(* and without the interleaving.                                           *)
(*                                                                         *)
(* A frame is known by its position in "sent".  The session's buffer holds *)
(* the frames after "taken" up to "whole" and, when "partial", the         *)
(* beginning of the next one.                                              *)
(***************************************************************************)
EXTENDS Naturals, Sequences

CONSTANTS
  Readers,    \* tasks that call receive()
  Opener,     \* the one of them that opens the session
  Frames,     \* frames the pod's side may send
  Nobody,     \* no task
  MaxFrames   \* bound: frames sent by the pod's side

\* "quiet" is SETTINGS, HEADERS and WINDOW_UPDATE; "fatal" is RST_STREAM, GOAWAY,
\* a malformed or unknown control frame, and data on a third stream; "bad" has
\* another version or stream zero, which the parser itself refuses.
Frame ==
  [kind : {"reply1", "reply3", "ping", "quiet", "fatal", "bad"},
   empty : {TRUE}, fin : {FALSE}]
  \union [kind : {"error", "data"}, empty : BOOLEAN, fin : BOOLEAN]

ASSUME ForwardAssumption ==
  /\ Opener \in Readers /\ Nobody \notin Readers
  /\ Frames \subseteq Frame
  /\ MaxFrames \in Nat

VARIABLES
  sent, up,                 \* frames of the pod's side; is the connection up
  taken, whole, partial,    \* the buffer
  error,                    \* error frames with a payload taken so far
  data_closed, send_closed, \* attributes of _PortForwardState
  waiting,                  \* stream whose SYN_REPLY _open awaits, 0 when open
  running,                  \* the task that runs: the others are at an await
  pc,                       \* of each reader
  outcome,                  \* how the call that ended last did
  snapshot,                 \* what it read of the buffer before its await
  wire,                     \* the data stream as the pod's side has been told
  received,                 \* position of the last payload returned
  cancelled,                \* cancel() was called
  overlapped, split, torn   \* two readers awaited a message at once; a message
                            \* was not one frame that the parser takes; one was
                            \* added to a stale buffer, and now nothing is known
                            \* of the bytes in it

buffer == <<taken, whole, partial>>
server == <<sent, up>>
stream == <<received, data_closed, error>>
sending == <<send_closed, wire, cancelled>>
history == <<overlapped, split, torn>>
vars == <<server, buffer, stream, sending, waiting, running, pc, outcome, snapshot,
          history>>

NoBytes == <<0, 0, FALSE>>

\* _open has sent the SYN of the error stream.
Init ==
  /\ sent = <<>> /\ up = TRUE
  /\ taken = 0 /\ whole = 0 /\ partial = FALSE
  /\ error = 0 /\ data_closed = FALSE /\ send_closed = FALSE
  /\ waiting = 1 /\ running = Opener
  /\ pc = [r \in Readers |-> IF r = Opener THEN "run" ELSE "idle"]
  /\ outcome = "none"
  /\ snapshot = [r \in Readers |-> NoBytes]
  /\ wire = "none" /\ received = 0 /\ cancelled = FALSE
  /\ overlapped = FALSE /\ split = FALSE /\ torn = FALSE

Open == waiting = 0
Quiescent == running = Nobody /\ ~torn

Return(r, how) ==
  /\ pc' = [pc EXCEPT ![r] = "idle"] /\ outcome' = how
  /\ running' = Nobody

Go(r) == running' = r /\ pc' = [pc EXCEPT ![r] = "run"] /\ UNCHANGED outcome

Keep == UNCHANGED <<running, pc, outcome>>

\* raise_remote_error, or else the empty bytes that mean the end.
EndOfData(r, errors) == Return(r, IF errors > 0 THEN "error" ELSE "eof")

-----------------------------------------------------------------------------
\* _next_frame: a frame from the buffer, or await a message.

\* A mistake: the length of the payload is not compared with what has arrived.
CompleteEarly == taken < whole \/ partial

Complete == taken < whole
First == sent[taken + 1]

Runs(r) == running = r /\ pc[r] = "run" /\ ~torn

\* A mistake: the rest of the buffer is dropped with the frame.
TakeOnly(r, kinds) ==
  Runs(r) /\ Complete /\ First.kind \in kinds /\ taken' = whole /\ UNCHANGED <<whole, partial>>

Take(r, kinds) ==
  Runs(r) /\ Complete /\ First.kind \in kinds
  /\ taken' = taken + 1 /\ UNCHANGED <<whole, partial>>

\* A mistake: the buffer is read once, before the loop.
AwaitFromEntry(r) ==
  /\ Runs(r) /\ ~Complete
  /\ pc' = [pc EXCEPT ![r] = "read"] /\ running' = Nobody
  /\ overlapped' = (overlapped \/ \E s \in Readers : pc[s] = "read")
  /\ UNCHANGED <<server, buffer, stream, sending, waiting, outcome, snapshot, split, torn>>

\* "buffer += await ..." reads the buffer before it awaits.
Await(r) ==
  /\ Runs(r) /\ ~Complete
  /\ pc' = [pc EXCEPT ![r] = "read"] /\ running' = Nobody
  /\ snapshot' = [snapshot EXCEPT ![r] = buffer]
  /\ overlapped' = (overlapped \/ \E s \in Readers : pc[s] = "read")
  /\ UNCHANGED <<server, buffer, stream, sending, waiting, outcome, split, torn>>

Bytes(b) == IF b[1] = b[2] /\ ~b[3] THEN "none" ELSE "some"

\* The value read before an await serves only the message that ends it.
Forget(r) == snapshot' = [snapshot EXCEPT ![r] = NoBytes]

Fresh(r) == snapshot[r] = buffer \/ (Bytes(snapshot[r]) = "none" /\ Bytes(buffer) = "none")

Message(r) ==
  /\ Quiescent /\ pc[r] = "read" /\ up
  /\ \E w \in whole..Len(sent), p \in BOOLEAN :
       /\ <<w, p>> # <<whole, partial>> /\ ~(w = whole /\ partial)
       /\ p => w < Len(sent)
       /\ whole' = w /\ partial' = p
       /\ split' = (split \/ partial \/ p \/ w # whole + 1 \/ sent[w].kind = "bad")
  /\ torn' = ~Fresh(r)
  /\ Go(r) /\ Forget(r)
  /\ UNCHANGED <<server, taken, stream, sending, waiting, overlapped>>

-----------------------------------------------------------------------------
\* control_action and data, for the frame at hand.
Ignore(r) ==
  /\ Take(r, IF Open THEN {"quiet", "reply1", "reply3"} ELSE {"quiet"})
  /\ Keep
  /\ UNCHANGED <<server, stream, sending, waiting, snapshot, history>>

\* The answer to a PING is awaited too.
Ping(r) ==
  /\ Take(r, {"ping"})
  /\ pc' = [pc EXCEPT ![r] = "pong"] /\ running' = Nobody
  /\ UNCHANGED <<server, stream, sending, waiting, outcome, snapshot, history>>

PongSent(r) ==
  /\ Quiescent /\ pc[r] = "pong" /\ Go(r)
  /\ UNCHANGED <<server, buffer, stream, sending, waiting, snapshot, history>>

\* An exception of _open leaves the block that holds the WebSocket open.
Abandon == up' = (up /\ Open) /\ UNCHANGED sent

\* While _open waits: data, or a reply for the other stream.
Unexpected ==
  IF Open THEN {} ELSE {"error", "data", IF waiting = 1 THEN "reply3" ELSE "reply1"}

\* What the parser refuses stays in the buffer.
Refuse(r) ==
  /\ \/ Take(r, {"fatal"} \union Unexpected)
     \/ Runs(r) /\ Complete /\ First.kind = "bad" /\ UNCHANGED buffer
  /\ Return(r, "protocol") /\ Abandon
  /\ UNCHANGED <<stream, sending, waiting, snapshot, history>>

\* _open after the first reply closes the error stream and opens the data stream,
\* and is done after the second.  Either send may fail.
Reply(r) ==
  /\ \/ /\ waiting = 1 /\ Take(r, {"reply1"})
        /\ \/ /\ waiting' = 3 /\ wire' = "open"
              /\ Keep /\ UNCHANGED server
           \/ /\ Return(r, "failed") /\ Abandon /\ UNCHANGED <<waiting, wire>>
     \/ /\ waiting = 3 /\ Take(r, {"reply3"})
        /\ waiting' = 0 /\ Return(r, "opened") /\ UNCHANGED <<server, wire>>
  /\ UNCHANGED <<stream, send_closed, cancelled, snapshot, history>>

ErrorFrame(r) ==
  /\ Open /\ Take(r, {"error"})
  /\ error' = error + (IF First.empty THEN 0 ELSE 1)
  /\ IF First.fin /\ error' > 0 THEN Return(r, "error") ELSE Keep
  /\ UNCHANGED <<server, received, data_closed, sending, waiting, snapshot, history>>

DataFrame(r) ==
  /\ Open /\ Take(r, {"data"})
  /\ data_closed' = (data_closed \/ First.fin)
  /\ IF ~First.empty THEN received' = taken' /\ Return(r, "payload")
     ELSE /\ UNCHANGED received
          /\ IF data_closed' THEN EndOfData(r, error) ELSE Keep
  /\ UNCHANGED <<server, error, sending, waiting, snapshot, history>>

\* A mistake: what the error stream said is forgotten when the connection drops.
DisconnectedIsEof(r) ==
  /\ Quiescent /\ pc[r] = "read" /\ ~up
  /\ IF Open THEN data_closed' = TRUE /\ Return(r, "eof")
     ELSE UNCHANGED data_closed /\ Return(r, "failed")
  /\ Forget(r)
  /\ UNCHANGED <<server, buffer, error, received, sending, waiting, history>>

\* A mistake: the loop goes round again.
DisconnectedContinues(r) ==
  /\ Quiescent /\ pc[r] = "read" /\ ~up /\ Go(r) /\ Forget(r)
  /\ UNCHANGED <<server, buffer, stream, sending, waiting, history>>

\* WebSocketDisconnect is caught by receive() and not by _open.
Disconnected(r) ==
  /\ Quiescent /\ pc[r] = "read" /\ ~up
  /\ IF Open THEN data_closed' = TRUE /\ EndOfData(r, error)
     ELSE UNCHANGED data_closed /\ Return(r, "failed")
  /\ Forget(r)
  /\ UNCHANGED <<server, buffer, error, received, sending, waiting, history>>

\* A timeout, a cancelled task, or an answer to a PING that cannot be sent: the
\* message that has not come is not lost.
GiveUp(r) ==
  /\ Quiescent /\ pc[r] \in {"read", "pong"} /\ Return(r, "failed")
  /\ Abandon /\ Forget(r)
  /\ UNCHANGED <<buffer, stream, sending, waiting, history>>

-----------------------------------------------------------------------------
\* Calls of the session's methods.
Receive(r) ==
  /\ Quiescent /\ Open /\ pc[r] = "idle"
  /\ pc' = [pc EXCEPT ![r] = "called"] /\ running' = r
  /\ outcome' = "none"
  /\ UNCHANGED <<server, buffer, stream, sending, waiting, snapshot, history>>

Enter(r) ==
  /\ running = r /\ pc[r] = "called"
  /\ IF data_closed THEN EndOfData(r, error) ELSE Go(r)
  /\ UNCHANGED <<server, buffer, stream, sending, waiting, snapshot, history>>

\* A frame goes out, unless sending it fails.
Put(frame) == wire' \in {wire} \union (IF up THEN {frame} ELSE {})

MaySend == Quiescent /\ Open /\ ~send_closed

\* After close_send() or cancel() a send is a RuntimeError, and a send that fails
\* changes nothing.
Send ==
  /\ MaySend /\ Put("open")
  /\ UNCHANGED <<server, buffer, stream, send_closed, cancelled, waiting, running, pc,
                 outcome, snapshot, history>>

\* A mistake: the side is marked closed only after the FIN was sent, and that
\* await was cancelled.
CloseSendUnmarked ==
  /\ MaySend /\ Put("fin")
  /\ UNCHANGED <<server, buffer, stream, send_closed, cancelled, waiting, running, pc,
                 outcome, snapshot, history>>

\* The side is marked closed before the FIN is sent, which may fail.
CloseSend ==
  /\ MaySend /\ send_closed' = TRUE /\ Put("fin")
  /\ UNCHANGED <<server, buffer, stream, cancelled, waiting, running, pc, outcome,
                 snapshot, history>>

CancelSession ==
  /\ Quiescent /\ Open
  /\ send_closed' = TRUE /\ data_closed' = TRUE /\ cancelled' = TRUE /\ Put("rst")
  /\ UNCHANGED <<server, buffer, received, error, waiting, running, pc, outcome,
                 snapshot, history>>

-----------------------------------------------------------------------------
\* The pod's side: any frames, but none of a stream after its FIN.
ServerSend(f) ==
  /\ Quiescent /\ up /\ Len(sent) < MaxFrames
  /\ \A i \in 1..Len(sent) : ~(sent[i].kind = f.kind /\ sent[i].fin)
  /\ sent' = Append(sent, f)
  /\ UNCHANGED <<up, buffer, stream, sending, waiting, running, pc, outcome, snapshot,
                 history>>

Disconnect ==
  /\ Quiescent /\ up /\ up' = FALSE
  /\ UNCHANGED <<sent, buffer, stream, sending, waiting, running, pc, outcome, snapshot,
                 history>>

\* What the event loop runs of a reader: between its awaits, and at their end.
RunStep(r) ==
  \/ Enter(r) \/ Await(r) \/ Ignore(r) \/ Ping(r) \/ Refuse(r) \/ Reply(r)
  \/ ErrorFrame(r) \/ DataFrame(r)
Resume(r) == Message(r) \/ PongSent(r) \/ Disconnected(r)

Next ==
  \/ \E r \in Readers : RunStep(r) \/ Resume(r) \/ GiveUp(r) \/ Receive(r)
  \/ Send \/ CloseSend \/ CancelSession
  \/ \E f \in Frames : ServerSend(f)
  \/ Disconnect

Spec == Init /\ [][Next]_vars

\* A task that runs goes on to its next await, and one whose await is over is
\* queued by the event loop and gets its turn.
FairSpec ==
  Spec /\ \A r \in Readers : WF_vars(RunStep(r)) /\ SF_vars(Resume(r))

-----------------------------------------------------------------------------
TypeOK ==
  /\ sent \in Seq(Frames) /\ Len(sent) <= MaxFrames /\ up \in BOOLEAN
  /\ taken \in 0..whole /\ whole \in 0..Len(sent) /\ partial \in BOOLEAN
  /\ error \in 0..taken /\ received \in 0..taken
  /\ {data_closed, send_closed, cancelled} \subseteq BOOLEAN
  /\ waiting \in {0, 1, 3} /\ running \in Readers \union {Nobody}
  /\ pc \in [Readers -> {"idle", "called", "run", "read", "pong"}]
  /\ outcome \in {"none", "opened", "payload", "eof", "error", "protocol", "failed"}
  /\ snapshot \in [Readers -> Nat \X Nat \X BOOLEAN]
  /\ wire \in {"none", "open", "fin", "rst"}
  /\ {overlapped, split, torn} \subseteq BOOLEAN

\* Bytes are lost or repeated only when two receive() calls awaited a message at
\* once and some message was not exactly one frame.
TornOnlyByOverlap == torn => overlapped /\ split

\* The reader's direction is a byte stream: payloads in order, none missing, and
\* an end only after the last of them, after a disconnect or after cancel().
Payload(i) == sent[i].kind = "data" /\ ~sent[i].empty
Stream == INSTANCE ByteStream WITH
  written <- {i \in 1..Len(sent) : Payload(i)},
  ended <- \E i \in 1..Len(sent) : sent[i].kind = "data" /\ sent[i].fin,
  broken <- ~up \/ cancelled, last <- received, closed <- data_closed
StreamSpec == Stream!Spec

\* receive() never tells the end of data once the error stream has said anything,
\* by whichever of its three ways it ends.
CleanEnd ==
  [][\A r \in Readers : pc[r] # "idle" /\ pc'[r] = "idle" /\ outcome' = "eof"
       => error' = 0]_vars

\* The pod gets nothing on the data stream after its FIN but a reset, although
\* send(), close_send() and cancel() may be called by any task at any time.
NothingAfterFin ==
  [][(wire \in {"fin", "rst"}) => wire' \in {wire, "rst"}]_vars

\* A receive() that waits when the connection is lost returns.
DisconnectEndsReceive ==
  \A r \in Readers : pc[r] = "read" /\ ~up ~> pc[r] = "idle" \/ torn
=============================================================================
