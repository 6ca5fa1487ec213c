--------------------------- MODULE RemoteCommand ----------------------------
(***************************************************************************)
(* One session of exec or attach (_remote_command.py): the frames of a     *)
(* process in a pod, read one at a time by receive() or gathered by        *)
(* collect(), which turns them into output and an exit code.  A frame is   *)
(* known by its position in "sent".                                        *)
(***************************************************************************)
EXTENDS Naturals, Sequences

CONSTANTS
  Statuses,   \* how the process may end, as the Status that reports it
  NoCode,     \* no number: a Status without one, or a Status not understood
  Parts,      \* frames that carry the Status
  MaxFrames   \* bound: frames sent

Status ==
  [success : BOOLEAN, reason : {"NonZeroExitCode", "other"}, code : Nat \union {NoCode}]

ASSUME CommandAssumption ==
  /\ Statuses \subseteq Status /\ NoCode \notin Nat
  /\ Parts \in Nat \ {0} /\ MaxFrames \in Nat

\* The channels of a process, for frames with data.  collect() passes over "silent"
\* ones: a frame of these channels without data, or a CLOSE that names a stream.
\* "clientOnly" is STDIN and RESIZE; "bad" is empty, has an unknown channel, or is
\* any other CLOSE.
Channels == {"stdout", "stderr", "error"}
Kinds == Channels \union {"silent", "clientOnly", "bad"}

VARIABLES
  status,      \* how the process ends
  sent,        \* kinds of the frames the server sent
  connection,  \* "open", "closed" after the last frame, or "lost"
  read,        \* frames read by the session
  collecting,  \* collect() is running
  from,        \* frames read before it began
  gathered,    \* its bytearrays: positions of the frames of each channel
  outcome,     \* how the last call ended
  exit_code    \* of the last result

server == <<status, sent, connection>>
vars == <<server, read, collecting, from, gathered, outcome, exit_code>>

Empty == [c \in Channels |-> <<>>]

Init ==
  /\ status \in Statuses
  /\ sent = <<>> /\ connection = "open" /\ read = 0
  /\ collecting = FALSE /\ from = 0 /\ gathered = Empty
  /\ outcome = "none" /\ exit_code = 0

\* A mistake: the bytearrays belong to the session, not to the call.
CollectOntoEarlier ==
  /\ ~collecting /\ collecting' = TRUE /\ outcome' = "none"
  /\ from' = read
  /\ UNCHANGED <<server, read, gathered, exit_code>>

\* collect() on an open session, perhaps after receive() or a collect() that failed.
Collect ==
  /\ ~collecting /\ collecting' = TRUE /\ outcome' = "none"
  /\ from' = read /\ gathered' = Empty
  /\ UNCHANGED <<server, read, exit_code>>

Arrived == connection # "lost" /\ read < Len(sent)
Kind == sent[read + 1]
End(how) == collecting' = FALSE /\ outcome' = how

\* A mistake: the frame is added before it is read.
GatherEarly ==
  gathered' = IF Kind \in Channels THEN [gathered EXCEPT ![Kind] = Append(@, read)]
                                   ELSE gathered

Gather ==
  gathered' = IF Kind \in Channels THEN [gathered EXCEPT ![Kind] = Append(@, read')]
                                   ELSE gathered

\* One turn of the loop.
Frame ==
  /\ collecting /\ Arrived /\ read' = read + 1 /\ Gather
  /\ IF Kind \in {"bad", "clientOnly"} THEN End("protocol")
                                       ELSE UNCHANGED <<collecting, outcome>>
  /\ UNCHANGED <<server, from, exit_code>>

\* A mistake: a Status that cannot be read counts for no Status.
VerdictLenient(parts) ==
  CASE parts # Parts -> 0
    [] OTHER -> IF status.success THEN 0 ELSE status.code

\* _decode_result: the exit code.  Less than a whole Status is no JSON.
Verdict(parts) ==
  CASE parts = 0 -> 0
    [] parts \notin {0, Parts} -> NoCode
    [] parts = Parts /\ status.success -> 0
    [] parts = Parts /\ ~status.success /\ status.reason # "NonZeroExitCode" -> 1
    [] OTHER -> status.code

Disconnected ==
  /\ collecting /\ read' = read
  /\ connection = "lost" \/ (connection = "closed" /\ read = Len(sent))
  /\ LET code == Verdict(Len(gathered["error"]))
     IN IF code = NoCode THEN End("protocol") /\ UNCHANGED exit_code
                         ELSE End("result") /\ exit_code' = code
  /\ UNCHANGED <<server, from, gathered>>

\* A timeout of one receive, or a cancelled task: the bytearrays are lost.
GiveUp ==
  /\ collecting /\ End("failed") /\ gathered' = Empty
  /\ UNCHANGED <<server, read, from, exit_code>>

\* receive() by itself: one frame is gone, understood or not.
Receive ==
  /\ ~collecting /\ Arrived /\ read' = read + 1
  /\ outcome' = IF Kind = "bad" THEN "protocol" ELSE "frame"
  /\ UNCHANGED <<server, collecting, from, gathered, exit_code>>

\* The server: at most one Status, in Parts frames among the others.
ServerSend(kind) ==
  /\ connection = "open" /\ Len(sent) < MaxFrames
  /\ kind = "error" => Len(SelectSeq(sent, LAMBDA k : k = "error")) < Parts
  /\ sent' = Append(sent, kind)
  /\ UNCHANGED <<status, connection, read, collecting, from, gathered, outcome, exit_code>>

ServerClose ==
  /\ connection = "open" /\ connection' \in {"closed", "lost"}
  /\ UNCHANGED <<status, sent, read, collecting, from, gathered, outcome, exit_code>>

Next ==
  \/ Collect \/ Frame \/ Disconnected \/ GiveUp \/ Receive
  \/ \E kind \in Kinds : ServerSend(kind)
  \/ ServerClose

Spec == Init /\ [][Next]_vars

-----------------------------------------------------------------------------
TypeOK ==
  /\ status \in Statuses /\ sent \in Seq(Kinds) /\ Len(sent) <= MaxFrames
  /\ connection \in {"open", "closed", "lost"}
  /\ read \in 0..Len(sent) /\ from \in 0..read /\ collecting \in BOOLEAN
  /\ gathered \in [Channels -> Seq(1..read)]
  /\ outcome \in {"none", "frame", "protocol", "failed", "result"}
  /\ exit_code \in Nat

Sent(channel) == {i \in (from + 1)..read : sent[i] = channel}

\* A result holds what the server sent on each channel since collect() began, once
\* and in order; and all of it, unless the connection was lost.
OutputComplete ==
  outcome = "result" =>
    /\ \A c \in {"stdout", "stderr"} :
         /\ {gathered[c][i] : i \in 1..Len(gathered[c])} = Sent(c)
         /\ \A i, j \in 1..Len(gathered[c]) : i < j => gathered[c][i] < gathered[c][j]
    /\ connection = "closed" => read = Len(sent)

\* Exit code 0 means that the process succeeded, or that this collect() saw nothing
\* of a Status: never that it saw part of one or could not read it.
ZeroIsSuccess ==
  outcome = "result" /\ exit_code = 0 =>
    Sent("error") = {} \/ status.success \/ status.code = 0
=============================================================================
