-------------------------- MODULE PortForwardProofs --------------------------
(***************************************************************************)
(* Theorems about one port-forward session, for any readers and frames.    *)
(* The inductive invariant has the types in four parts, what is known of   *)
(* the buffer while no two readers have awaited at once or no message was  *)
(* split, and which payloads were returned.                                *)
(***************************************************************************)
EXTENDS PortForward, TLAPS

Sizes ==
  /\ sent \in Seq(Frames) /\ Len(sent) <= MaxFrames
  /\ taken \in 0..whole /\ whole \in 0..Len(sent)
  /\ error \in 0..taken /\ received \in 0..taken

Control ==
  /\ waiting \in {0, 1, 3} /\ running \in Readers \union {Nobody}
  /\ pc \in [Readers -> {"idle", "called", "run", "read", "pong"}]
  /\ outcome \in {"none", "opened", "payload", "eof", "error", "protocol", "failed"}
  /\ wire \in {"none", "open", "fin", "rst"}

Flags ==
  /\ up \in BOOLEAN /\ partial \in BOOLEAN
  /\ data_closed \in BOOLEAN /\ send_closed \in BOOLEAN /\ cancelled \in BOOLEAN
  /\ overlapped \in BOOLEAN /\ split \in BOOLEAN /\ torn \in BOOLEAN

Snapshots == snapshot \in [Readers -> Nat \X Nat \X BOOLEAN]

\* A reader that has always awaited alone holds the buffer as it is.
Alone ==
  ~overlapped =>
    /\ \A r, s \in Readers : pc[r] = "read" /\ pc[s] = "read" => r = s
    /\ \A r \in Readers : pc[r] = "read" => snapshot[r] = buffer /\ taken = whole

\* Of messages that are one frame each, nothing stays when the readers await.
Unsplit ==
  ~split =>
    /\ ~partial
    /\ \/ taken = whole
       \/ /\ running \in Readers /\ pc[running] = "run"
          /\ whole = taken + 1 /\ sent[whole].kind # "bad"
    /\ \A r \in Readers : pc[r] = "read" => Bytes(snapshot[r]) = "none"

\* Only its opener uses a session that is not open.
Opening == ~Open => \A r \in Readers : r # Opener => pc[r] = "idle"

Wire ==
  /\ waiting = 1 => wire = "none"
  /\ wire \in {"fin", "rst"} => send_closed

\* A stream sends nothing after its FIN.
FinIsLast ==
  \A i, j \in 1..Len(sent) : i < j /\ sent[i].fin => sent[i].kind # sent[j].kind

\* Every payload taken was returned, or the session was given up before it opened.
AllRead ==
  \/ \A i \in 1..taken : Payload(i) => i <= received
  \/ ~Open /\ \A r \in Readers : pc[r] = "idle"

Types == Sizes /\ Control /\ Flags /\ Snapshots
ForwardInv ==
  Types /\ Alone /\ Unsplit /\ Opening /\ Wire /\ FinIsLast /\ AllRead /\ TornOnlyByOverlap

LEMMA TypesAreTypeOK == Types => TypeOK
<1> SUFFICES ASSUME Types PROVE TypeOK
  OBVIOUS
<1>1. /\ {data_closed, send_closed, cancelled} \subseteq BOOLEAN
      /\ {overlapped, split, torn} \subseteq BOOLEAN
      /\ up \in BOOLEAN /\ partial \in BOOLEAN
  BY DEF Types, Flags
<1> QED
  BY <1>1 DEF Types, Sizes, Control, Snapshots, TypeOK

LEMMA ForwardInit == Init => ForwardInv
<1> SUFFICES ASSUME Init PROVE ForwardInv
  OBVIOUS
<1>1. sent \in Seq(Frames) /\ Len(sent) = 0
  BY DEF Init
<1>2. Sizes
  BY <1>1, ForwardAssumption DEF Init, Sizes
<1>3. Control
  BY ForwardAssumption DEF Init, Control
<1>4. Flags
  BY DEF Init, Flags
<1>5. NoBytes \in Nat \X Nat \X BOOLEAN
  BY DEF NoBytes
<1>6. Snapshots
  BY <1>5 DEF Init, Snapshots
<1>7. Alone /\ Unsplit
  BY ForwardAssumption DEF Init, Alone, Unsplit
<1>8. Opening /\ Wire /\ FinIsLast /\ AllRead /\ TornOnlyByOverlap
  BY <1>1 DEF Init, Opening, Open, Wire, FinIsLast, AllRead, TornOnlyByOverlap
<1> QED
  BY <1>2, <1>3, <1>4, <1>6, <1>7, <1>8 DEF ForwardInv, Types

\* The frame that is taken.
LEMMA TakeStep ==
  ASSUME Sizes, NEW r \in Readers, NEW kinds, Take(r, kinds)
  PROVE  /\ Runs(r) /\ Complete /\ taken' = taken + 1 /\ taken' \in 1..whole
         /\ taken' \in 1..Len(sent) /\ whole \in Nat /\ Len(sent) \in Nat
         /\ First = sent[taken'] /\ sent[taken'].kind \in kinds
         /\ taken \in Nat /\ error \in Nat /\ received \in Nat
         /\ error <= taken /\ received <= taken
         /\ UNCHANGED <<whole, partial>>
BY DEF Take, Sizes, Complete, First

-----------------------------------------------------------------------------
\* Types, one part at a time.
LEMMA SizesStep ==
  ASSUME Types, [Next]_vars
  PROVE  Sizes'
<1> USE DEF Types, server, stream, buffer
<1>1. ASSUME UNCHANGED <<sent, taken, whole, error, received>> PROVE Sizes'
  BY <1>1 DEF Sizes
<1>2. ASSUME NEW r \in Readers, NEW kinds, Take(r, kinds), UNCHANGED sent,
             error' \in {error, error + 1}, received' \in {received, taken'}
      PROVE  Sizes'
  BY <1>2, TakeStep DEF Sizes
<1>3. ASSUME NEW r \in Readers, Message(r) PROVE Sizes'
  BY <1>3 DEF Message, Sizes
<1>4. ASSUME NEW r \in Readers, RunStep(r) PROVE Sizes'
  <2>1. CASE Enter(r) \/ Await(r)
    BY <1>1, <2>1 DEF Enter, Await
  <2>2. CASE Ignore(r)
    BY <1>2, <2>2 DEF Ignore
  <2>3. CASE Ping(r)
    BY <1>2, <2>3 DEF Ping
  <2>4. CASE Refuse(r)
    BY <1>1, <1>2, <2>4 DEF Refuse, Abandon
  <2>5. CASE Reply(r)
    BY <1>2, <2>5 DEF Reply, Abandon
  <2>6. CASE ErrorFrame(r)
    BY <1>2, <2>6, TakeStep DEF ErrorFrame, Sizes
  <2>7. CASE DataFrame(r)
    BY <1>2, <2>7 DEF DataFrame
  <2> QED
    BY <1>4, <2>1, <2>2, <2>3, <2>4, <2>5, <2>6, <2>7 DEF RunStep
<1>5. ASSUME NEW f \in Frames, ServerSend(f) PROVE Sizes'
  <2>1. /\ sent' = Append(sent, f) /\ Len(sent) < MaxFrames
        /\ UNCHANGED <<taken, whole, error, received>>
    BY <1>5 DEF ServerSend
  <2>2. sent' \in Seq(Frames) /\ Len(sent') = Len(sent) + 1 /\ Len(sent) \in Nat
    BY <2>1 DEF Sizes
  <2> QED
    BY <2>1, <2>2, ForwardAssumption DEF Sizes
<1>6. CASE \/ \E r \in Readers : \/ PongSent(r) \/ Disconnected(r) \/ GiveUp(r) \/ Receive(r)
           \/ Send \/ CloseSend \/ CancelSession \/ Disconnect \/ UNCHANGED vars
  BY <1>1, <1>6 DEF PongSent, Disconnected, GiveUp, Abandon, Receive, Send, CloseSend,
     CancelSession, Disconnect, vars
<1> QED
  BY <1>3, <1>4, <1>5, <1>6 DEF Next, Resume

LEMMA ControlStep ==
  ASSUME Types, [Next]_vars
  PROVE  Control'
<1> USE DEF Types, Control
<1>1. ASSUME NEW r \in Readers, NEW where \in {"called", "run", "read", "pong", "idle"},
             pc' = [pc EXCEPT ![r] = where]
      PROVE  pc' \in [Readers -> {"idle", "called", "run", "read", "pong"}]
  BY <1>1
<1>2. ASSUME NEW r \in Readers, RunStep(r) \/ Resume(r) \/ GiveUp(r) \/ Receive(r)
      PROVE  /\ waiting' \in {0, 1, 3} /\ running' \in Readers \union {Nobody}
             /\ pc' \in [Readers -> {"idle", "called", "run", "read", "pong"}]
             /\ outcome' \in {"none", "opened", "payload", "eof", "error", "protocol", "failed"}
             /\ wire' \in {"none", "open", "fin", "rst"}
  <2>1. CASE RunStep(r)
    BY <1>1, <2>1 DEF RunStep, Enter, EndOfData, Return, Go, Keep, Await, Ignore, Ping, Refuse, Reply,
       Abandon, ErrorFrame, DataFrame, sending, stream
  <2>2. CASE Resume(r) \/ GiveUp(r) \/ Receive(r)
    BY <1>1, <2>2 DEF Resume, Message, PongSent, Disconnected, EndOfData, Return, Go, GiveUp,
       Abandon, Receive, sending, stream
  <2> QED
    BY <1>2, <2>1, <2>2
<1>3. CASE \/ Send \/ CloseSend \/ CancelSession \/ Disconnect \/ UNCHANGED vars
           \/ \E f \in Frames : ServerSend(f)
  BY <1>3 DEF Send, CloseSend, CancelSession, Put, ServerSend, Disconnect, vars, sending
<1> QED
  BY <1>2, <1>3 DEF Next

LEMMA FlagsStep ==
  ASSUME Types, [Next]_vars
  PROVE  Flags'
<1> USE DEF Types, Flags, server, buffer, stream, sending, history
<1>1. ASSUME NEW r \in Readers, RunStep(r) PROVE Flags'
  BY <1>1 DEF RunStep, Enter, Await, Ignore, Ping, Refuse, Reply, Take, Abandon, ErrorFrame, DataFrame
<1>2. ASSUME NEW r \in Readers, Resume(r) \/ GiveUp(r) \/ Receive(r) PROVE Flags'
  BY <1>2 DEF Resume, Message, PongSent, Disconnected, GiveUp, Abandon, Receive
<1>3. CASE \/ Send \/ CloseSend \/ CancelSession \/ Disconnect \/ UNCHANGED vars
           \/ \E f \in Frames : ServerSend(f)
  BY <1>3 DEF Send, CloseSend, CancelSession, ServerSend, Disconnect, vars
<1> QED
  BY <1>1, <1>2, <1>3 DEF Next

LEMMA SnapshotsStep ==
  ASSUME Types, [Next]_vars
  PROVE  Snapshots'
<1> USE DEF Types, Snapshots
<1>1. NoBytes \in Nat \X Nat \X BOOLEAN
  BY DEF NoBytes
<1>2. buffer \in Nat \X Nat \X BOOLEAN
  BY DEF buffer, Sizes, Flags
<1>3. ASSUME NEW r \in Readers, NEW b \in Nat \X Nat \X BOOLEAN,
             snapshot' = [snapshot EXCEPT ![r] = b]
      PROVE  Snapshots'
  BY <1>3
<1>4. ASSUME NEW r \in Readers, Await(r) PROVE Snapshots'
  BY <1>2, <1>3, <1>4 DEF Await
<1>5. ASSUME NEW r \in Readers, Message(r) \/ Disconnected(r) \/ GiveUp(r) PROVE Snapshots'
  BY <1>1, <1>3, <1>5 DEF Message, Disconnected, GiveUp, Forget
<1>6. ASSUME UNCHANGED snapshot PROVE Snapshots'
  BY <1>6
<1>7. ASSUME NEW r \in Readers, RunStep(r) \/ PongSent(r) \/ Receive(r), ~Await(r)
      PROVE  UNCHANGED snapshot
  BY <1>7 DEF RunStep, Enter, Ignore, Ping, Refuse, Reply, ErrorFrame, DataFrame, PongSent, Receive
<1>8. ASSUME \/ Send \/ CloseSend \/ CancelSession \/ Disconnect \/ UNCHANGED vars
             \/ \E f \in Frames : ServerSend(f)
      PROVE  UNCHANGED snapshot
  BY <1>8 DEF Send, CloseSend, CancelSession, ServerSend, Disconnect, vars
<1> QED
  BY <1>4, <1>5, <1>6, <1>7, <1>8 DEF Next, Resume

LEMMA TypesStep == Types /\ [Next]_vars => Types'
  BY SizesStep, ControlStep, FlagsStep, SnapshotsStep DEF Types

-----------------------------------------------------------------------------
\* The buffer and the readers at an await.

\* Where a step that is neither the end of a reader's await nor its beginning
\* leaves the readers, and who begins to wait.
LEMMA OneReaderMoves ==
  ASSUME Types, NEW r \in Readers, RunStep(r) \/ Resume(r) \/ GiveUp(r) \/ Receive(r)
  PROVE  /\ \A s \in Readers : s # r => pc'[s] = pc[s] /\ snapshot'[s] = snapshot[s]
         /\ ~Await(r) => pc'[r] # "read" \/ (Keep /\ UNCHANGED snapshot)
<1> USE DEF Types, Control, Snapshots
<1>1. CASE Enter(r)
  BY <1>1 DEF Enter, EndOfData, Return, Go
<1>2. CASE Await(r)
  BY <1>2 DEF Await
<1>3. CASE Ignore(r) \/ Ping(r)
  BY <1>3 DEF Ignore, Ping, Keep
<1>4. CASE Refuse(r)
  BY <1>4 DEF Refuse, Return
<1>5. CASE Reply(r)
  BY <1>5 DEF Reply, Return, Keep
<1>6. CASE ErrorFrame(r)
  BY <1>6 DEF ErrorFrame, Return, Keep
<1>7. CASE DataFrame(r)
  BY <1>7 DEF DataFrame, EndOfData, Return, Keep
<1>8. CASE Message(r)
  BY <1>8 DEF Message, Go, Forget
<1>9. CASE PongSent(r) \/ Disconnected(r)
  BY <1>9 DEF PongSent, Disconnected, EndOfData, Return, Go, Forget
<1>10. CASE GiveUp(r) \/ Receive(r)
  BY <1>10 DEF GiveUp, Receive, Return, Forget
<1> QED
  BY <1>1, <1>2, <1>3, <1>4, <1>5, <1>6, <1>7, <1>8, <1>9, <1>10 DEF RunStep, Resume

\* A frame is taken, or the buffer is as it was; only Message adds to it.
LEMMA BufferStep ==
  ASSUME Types, NEW r \in Readers, RunStep(r) \/ PongSent(r) \/ Disconnected(r) \/ GiveUp(r) \/ Receive(r)
  PROVE  /\ UNCHANGED buffer \/ (Runs(r) /\ Complete /\ taken' = taken + 1 /\ UNCHANGED <<whole, partial>>)
         /\ UNCHANGED <<split, torn, sent>>
         /\ ~Await(r) => UNCHANGED overlapped
BY DEF RunStep, Enter, Await, Ignore, Ping, Refuse, Reply, Take, ErrorFrame, DataFrame, PongSent,
   Disconnected, GiveUp, Receive, Abandon, buffer, server, history

LEMMA AloneStep ==
  ASSUME ForwardInv, [Next]_vars
  PROVE  Alone'
<1> SUFFICES ASSUME ~overlapped'
             PROVE  /\ \A r, s \in Readers : pc'[r] = "read" /\ pc'[s] = "read" => r = s
                    /\ \A r \in Readers :
                         pc'[r] = "read" => snapshot'[r] = buffer' /\ taken' = whole'
  BY DEF Alone
<1> USE DEF ForwardInv
<1>0. taken \in Nat /\ whole \in Nat /\ taken <= whole
  BY DEF Types, Sizes
<1>1. ASSUME ~overlapped
      PROVE  /\ \A r, s \in Readers : pc[r] = "read" /\ pc[s] = "read" => r = s
             /\ \A r \in Readers : pc[r] = "read" => snapshot[r] = buffer /\ taken = whole
  BY <1>1 DEF Alone
<1>2. CASE \E r \in Readers : Await(r)
  <2>1. PICK r \in Readers : Await(r)
    BY <1>2
  <2>2. /\ pc' = [pc EXCEPT ![r] = "read"] /\ snapshot' = [snapshot EXCEPT ![r] = buffer]
        /\ UNCHANGED buffer /\ taken = whole
        /\ overlapped' = (overlapped \/ \E s \in Readers : pc[s] = "read")
    BY <1>0, <2>1 DEF Await, Complete
  <2>3. UNCHANGED <<taken, whole>>
    BY <2>2 DEF buffer
  <2>4. \A s \in Readers : pc[s] # "read"
    BY <2>2
  <2> QED
    BY <2>2, <2>3, <2>4 DEF Types, Control, Snapshots
<1>3. CASE \E r \in Readers : Message(r)
  <2>1. PICK r \in Readers : Message(r)
    BY <1>3
  <2>2. /\ \A s \in Readers : s # r => pc'[s] = pc[s]
        /\ pc'[r] = "run" /\ pc[r] = "read" /\ ~overlapped
    BY <2>1 DEF Message, Go, Types, Control
  <2> QED
    BY <1>1, <2>2
<1>4. ASSUME NEW r \in Readers, ~Await(r),
             RunStep(r) \/ PongSent(r) \/ Disconnected(r) \/ GiveUp(r) \/ Receive(r)
      PROVE  /\ \A t, s \in Readers : pc'[t] = "read" /\ pc'[s] = "read" => t = s
             /\ \A t \in Readers :
                  pc'[t] = "read" => snapshot'[t] = buffer' /\ taken' = whole'
  <2>1. /\ \A s \in Readers : pc'[s] = "read" => pc[s] = "read" /\ snapshot'[s] = snapshot[s]
        /\ ~overlapped
    BY <1>4, OneReaderMoves, BufferStep DEF Resume, Keep
  <2>2. CASE \E s \in Readers : pc'[s] = "read"
    <3>1. taken = whole
      BY <1>1, <2>1, <2>2
    <3>2. UNCHANGED buffer
      BY <1>0, <1>4, <3>1, BufferStep DEF Complete
    <3>3. UNCHANGED <<taken, whole>>
      BY <3>2 DEF buffer
    <3> QED
      BY <1>1, <2>1, <3>1, <3>2, <3>3
  <2> QED
    BY <2>2
<1>5. CASE \/ Send \/ CloseSend \/ CancelSession \/ Disconnect \/ UNCHANGED vars
           \/ \E f \in Frames : ServerSend(f)
  <2>1. UNCHANGED <<pc, snapshot, buffer, overlapped, taken, whole>>
    BY <1>5 DEF Send, CloseSend, CancelSession, Disconnect, ServerSend, vars, buffer, history
  <2> QED
    BY <1>1, <2>1
<1> QED
  BY <1>2, <1>3, <1>4, <1>5 DEF Next, Resume, RunStep

\* Split messages alone, or readers that overlap alone, lose nothing.
LEMMA MessageStep ==
  ASSUME ForwardInv, NEW r \in Readers, Message(r)
  PROVE  TornOnlyByOverlap' /\ Unsplit'
<1> USE DEF ForwardInv
<1>1. PICK w \in whole..Len(sent), p \in BOOLEAN :
        /\ whole' = w /\ partial' = p
        /\ split' = (split \/ partial \/ p \/ w # whole + 1 \/ sent[w].kind = "bad")
  BY DEF Message
<1>2. /\ running \notin Readers /\ pc[r] = "read" /\ UNCHANGED <<taken, overlapped, sent>>
      /\ torn' = ~Fresh(r) /\ running' = r /\ pc' = [pc EXCEPT ![r] = "run"]
      /\ snapshot' = [snapshot EXCEPT ![r] = NoBytes]
  BY ForwardAssumption DEF Message, Quiescent, Go, Forget, history, server
<1>3. ~overlapped => Fresh(r)
  BY <1>2 DEF Alone, Fresh
<1>4. ~split => taken = whole /\ ~partial /\ Bytes(snapshot[r]) = "none"
  BY <1>2 DEF Unsplit
<1>5. ~split => Fresh(r)
  BY <1>4 DEF Fresh, Bytes, buffer
<1>6. ~split' => ~split
  BY <1>1
<1>7. Unsplit'
  <2> SUFFICES ASSUME ~split'
               PROVE  /\ ~partial'
                      /\ running' \in Readers /\ pc'[running'] = "run"
                      /\ whole' = taken' + 1 /\ sent'[whole'].kind # "bad"
                      /\ \A s \in Readers : pc'[s] = "read" => Bytes(snapshot'[s]) = "none"
    BY DEF Unsplit
  <2>1. ~partial' /\ whole' = whole + 1 /\ sent[whole'].kind # "bad"
    BY <1>1
  <2>2. pc'[r] = "run" /\ \A s \in Readers : s # r => pc'[s] = pc[s] /\ snapshot'[s] = snapshot[s]
    BY <1>2 DEF Types, Control, Snapshots
  <2>3. \A s \in Readers : pc'[s] = "read" => Bytes(snapshot'[s]) = "none"
    BY <1>6, <2>2 DEF Unsplit
  <2> QED
    BY <1>2, <1>4, <1>6, <2>1, <2>2, <2>3
<1>8. TornOnlyByOverlap'
  <2>1. torn' => overlapped /\ split
    BY <1>2, <1>3, <1>5
  <2> QED
    BY <1>1, <1>2, <2>1 DEF TornOnlyByOverlap
<1> QED
  BY <1>7, <1>8

LEMMA UnsplitStep ==
  ASSUME ForwardInv, [Next]_vars
  PROVE  Unsplit'
<1> USE DEF ForwardInv
<1>0. taken \in Nat /\ whole \in Nat /\ taken <= whole
  BY DEF Types, Sizes
<1>1. ASSUME NEW r \in Readers, Message(r) PROVE Unsplit'
  BY <1>1, MessageStep
<1>2. ASSUME NEW r \in Readers,
             RunStep(r) \/ PongSent(r) \/ Disconnected(r) \/ GiveUp(r) \/ Receive(r), ~split'
      PROVE  Unsplit'
  <2>1. ~split /\ UNCHANGED sent
    BY <1>2, BufferStep
  <2>2. ~partial /\ \A s \in Readers : pc[s] = "read" => Bytes(snapshot[s]) = "none"
    BY <2>1 DEF Unsplit
  <2>3. ~partial'
    BY <1>2, <2>2, BufferStep DEF buffer
  <2>4. \A s \in Readers : pc'[s] = "read" => Bytes(snapshot'[s]) = "none"
    <3>1. CASE Await(r)
      <4>1. /\ snapshot' = [snapshot EXCEPT ![r] = buffer] /\ taken = whole
            /\ pc' = [pc EXCEPT ![r] = "read"]
        BY <1>0, <3>1 DEF Await, Complete
      <4>2. Bytes(buffer) = "none"
        BY <2>2, <4>1 DEF Bytes, buffer
      <4> QED
        BY <2>2, <4>1, <4>2 DEF Types, Control, Snapshots
    <3>2. CASE ~Await(r)
      BY <1>2, <2>2, <3>2, OneReaderMoves DEF Resume, Keep
    <3> QED
      BY <3>1, <3>2
  <2>5. taken' = whole'
    <3>1. CASE taken = whole
      BY <1>0, <1>2, <3>1, BufferStep DEF buffer, Complete
    <3>2. CASE /\ running \in Readers /\ pc[running] = "run"
               /\ whole = taken + 1 /\ sent[whole].kind # "bad"
      <4>1. RunStep(r) /\ running = r /\ ~Enter(r) /\ ~Await(r) /\ First.kind # "bad"
        BY <1>0, <1>2, <3>2, ForwardAssumption
        DEF RunStep, PongSent, Disconnected, GiveUp, Receive, Quiescent, Enter, Await, Runs, Take,
            Complete, First, Ignore, Ping, Refuse, Reply, ErrorFrame, DataFrame
      <4>2. taken' = taken + 1 /\ UNCHANGED whole
        BY <4>1 DEF RunStep, Ignore, Ping, Refuse, Reply, ErrorFrame, DataFrame, Take
      <4> QED
        BY <3>2, <4>2
    <3> QED
      BY <2>1, <3>1, <3>2 DEF Unsplit
  <2> QED
    BY <2>3, <2>4, <2>5 DEF Unsplit
<1>3. CASE \/ Send \/ CloseSend \/ CancelSession \/ Disconnect \/ UNCHANGED vars
           \/ \E f \in Frames : ServerSend(f)
  <2>1. UNCHANGED <<pc, running, snapshot, partial, taken, whole, split>>
    BY <1>3 DEF Send, CloseSend, CancelSession, Disconnect, ServerSend, vars, buffer, history
  <2>2. \A i \in 1..Len(sent) : sent'[i] = sent[i]
    BY <1>3 DEF Send, CloseSend, CancelSession, Disconnect, ServerSend, vars, server, Types, Sizes
  <2>3. whole \in 0..Len(sent)
    BY DEF Types, Sizes
  <2> QED
    BY <1>0, <2>1, <2>2, <2>3 DEF Unsplit
<1> QED
  BY <1>1, <1>2, <1>3 DEF Next, Resume, Unsplit

LEMMA TornStep ==
  ASSUME ForwardInv, [Next]_vars
  PROVE  TornOnlyByOverlap'
<1> USE DEF ForwardInv
<1>1. ASSUME NEW r \in Readers, Message(r) PROVE TornOnlyByOverlap'
  BY <1>1, MessageStep
<1>2. ASSUME NEW r \in Readers,
             RunStep(r) \/ PongSent(r) \/ Disconnected(r) \/ GiveUp(r) \/ Receive(r)
      PROVE  TornOnlyByOverlap'
  <2>1. overlapped => overlapped'
    BY <1>2, BufferStep DEF Await
  <2> QED
    BY <1>2, <2>1, BufferStep DEF TornOnlyByOverlap
<1>3. CASE \/ Send \/ CloseSend \/ CancelSession \/ Disconnect \/ UNCHANGED vars
           \/ \E f \in Frames : ServerSend(f)
  BY <1>3 DEF Send, CloseSend, CancelSession, Disconnect, ServerSend, vars, history,
     TornOnlyByOverlap
<1> QED
  BY <1>1, <1>2, <1>3 DEF Next, Resume

-----------------------------------------------------------------------------
\* Opening, sending, and what was read.
LEMMA OpeningStep ==
  ASSUME ForwardInv, [Next]_vars
  PROVE  Opening' /\ (Open => Open')
<1> USE DEF ForwardInv, Open
<1>1. ASSUME NEW r \in Readers, RunStep(r) \/ Resume(r) \/ GiveUp(r) \/ Receive(r)
      PROVE  Opening' /\ (Open => Open')
  <2>1. Open => Open'
    BY <1>1 DEF RunStep, Resume, Enter, Await, Ignore, Ping, Refuse, Reply, ErrorFrame, DataFrame,
       Message, PongSent, Disconnected, GiveUp, Receive
  <2>2. CASE ~Open
    <3>1. pc[r] # "idle" => r = Opener
      BY <2>2 DEF Opening
    <3>2. r = Opener
      BY <1>1, <2>2, <3>1 DEF RunStep, Resume, Enter, Await, Ignore, Ping, Refuse, Reply, Take,
         Runs, ErrorFrame, DataFrame, Message, PongSent, Disconnected, GiveUp, Receive
    <3> QED
      BY <1>1, <2>1, <2>2, <3>2, OneReaderMoves DEF Opening
  <2> QED
    BY <2>1, <2>2 DEF Opening
<1>2. CASE \/ Send \/ CloseSend \/ CancelSession \/ Disconnect \/ UNCHANGED vars
           \/ \E f \in Frames : ServerSend(f)
  BY <1>2 DEF Send, CloseSend, CancelSession, Disconnect, ServerSend, vars, Opening
<1> QED
  BY <1>1, <1>2 DEF Next

LEMMA WireStep ==
  ASSUME ForwardInv, [Next]_vars
  PROVE  Wire' /\ ((wire \in {"fin", "rst"}) => wire' \in {wire, "rst"})
<1> USE DEF ForwardInv, Wire
<1>1. ASSUME UNCHANGED <<send_closed, wire>>, waiting' \in {waiting, 0, 3}
      PROVE  Wire' /\ ((wire \in {"fin", "rst"}) => wire' \in {wire, "rst"})
  BY <1>1
<1>2. ASSUME NEW r \in Readers, RunStep(r), ~Reply(r)
      PROVE  UNCHANGED <<send_closed, wire>> /\ waiting' = waiting
  BY <1>2 DEF RunStep, Enter, Await, Ignore, Ping, Refuse, Abandon, ErrorFrame, DataFrame, sending
<1>3. ASSUME NEW r \in Readers, Resume(r) \/ GiveUp(r) \/ Receive(r)
      PROVE  UNCHANGED <<send_closed, wire>> /\ waiting' = waiting
  BY <1>3 DEF Resume, Message, PongSent, Disconnected, GiveUp, Abandon, Receive, sending
<1>4. ASSUME NEW r \in Readers, Reply(r)
      PROVE  Wire' /\ ((wire \in {"fin", "rst"}) => wire' \in {wire, "rst"})
  BY <1>4 DEF Reply
<1>5. CASE \/ Disconnect \/ UNCHANGED vars \/ \E f \in Frames : ServerSend(f)
  BY <1>1, <1>5 DEF Disconnect, ServerSend, vars, sending
<1>6. CASE Send \/ CloseSend \/ CancelSession
  BY <1>6 DEF Send, CloseSend, CancelSession, MaySend, Put, Open
<1> QED
  BY <1>1, <1>2, <1>3, <1>4, <1>5, <1>6 DEF Next

\* A frame the pod sends.
LEMMA SentStep ==
  ASSUME ForwardInv, [Next]_vars
  PROVE  \/ UNCHANGED sent
         \/ \E f \in Frames : ServerSend(f) /\ sent' = Append(sent, f)
<1>1. ASSUME NEW r \in Readers, RunStep(r) \/ Resume(r) \/ GiveUp(r) \/ Receive(r)
      PROVE  UNCHANGED sent
  BY <1>1 DEF RunStep, Resume, Enter, Await, Ignore, Ping, Refuse, Reply, Abandon, ErrorFrame,
     DataFrame, Message, PongSent, Disconnected, GiveUp, Receive, server
<1>2. CASE Send \/ CloseSend \/ CancelSession \/ Disconnect \/ UNCHANGED vars
  BY <1>2 DEF Send, CloseSend, CancelSession, Disconnect, vars, server
<1> QED
  BY <1>1, <1>2 DEF Next, ServerSend

LEMMA AppendIsLonger ==
  ASSUME Sizes, NEW f \in Frames, sent' = Append(sent, f)
  PROVE  /\ Len(sent) \in Nat /\ Len(sent') = Len(sent) + 1 /\ sent'[Len(sent) + 1] = f
         /\ \A i \in 1..Len(sent) : sent'[i] = sent[i]
BY DEF Sizes

LEMMA FinIsLastStep ==
  ASSUME ForwardInv, [Next]_vars
  PROVE  FinIsLast'
<1> USE DEF ForwardInv
<1>1. CASE UNCHANGED sent
  BY <1>1 DEF FinIsLast
<1>2. ASSUME NEW f \in Frames, ServerSend(f), sent' = Append(sent, f)
      PROVE  FinIsLast'
  <2>1. /\ Len(sent) \in Nat /\ Len(sent') = Len(sent) + 1 /\ sent'[Len(sent) + 1] = f
        /\ \A i \in 1..Len(sent) : sent'[i] = sent[i]
    BY <1>2, AppendIsLonger DEF Types
  <2>2. ASSUME NEW i \in 1..Len(sent'), NEW j \in 1..Len(sent'), i < j, sent'[i].fin
        PROVE  sent'[i].kind # sent'[j].kind
    <3>1. i \in 1..Len(sent) /\ sent'[i] = sent[i]
      BY <2>1, <2>2
    <3>2. CASE j = Len(sent) + 1
      BY <1>2, <2>1, <2>2, <3>1, <3>2 DEF ServerSend
    <3>3. CASE j \in 1..Len(sent)
      BY <2>1, <2>2, <3>1, <3>3 DEF FinIsLast
    <3> QED
      BY <2>1, <3>2, <3>3
  <2> QED
    BY <2>2 DEF FinIsLast
<1> QED
  BY <1>1, <1>2, SentStep

LEMMA AllReadStep ==
  ASSUME ForwardInv, [Next]_vars
  PROVE  AllRead'
<1> USE DEF ForwardInv
<1>0. taken \in Nat /\ taken <= Len(sent) /\ Len(sent) \in Nat /\ received \in Nat
  BY DEF Types, Sizes
<1>1. ASSUME UNCHANGED <<taken, received, sent, pc, waiting>> PROVE AllRead'
  BY <1>1 DEF AllRead, Payload, Open
\* A reader that runs is not idle, so every payload taken so far was returned.
<1>2. ASSUME NEW r \in Readers, NEW kinds, Take(r, kinds), UNCHANGED sent
      PROVE  /\ \A i \in 1..taken : Payload(i) => i <= received
             /\ taken' = taken + 1 /\ \A i : Payload(i)' <=> Payload(i)
             /\ sent[taken'].kind \in kinds /\ First = sent[taken']
  BY <1>2, TakeStep DEF AllRead, Runs, Payload, Types
<1>3. ASSUME NEW r \in Readers, NEW kinds, Take(r, kinds), UNCHANGED sent,
             UNCHANGED received \/ received' = taken',
             "data" \in kinds => (Payload(taken') => received' = taken')
      PROVE  AllRead'
  <2>1. Payload(taken') => received' = taken'
    BY <1>2, <1>3 DEF Payload
  <2>2. received' = received \/ received' = taken'
    BY <1>3
  <2>3. ASSUME NEW i \in 1..taken', Payload(i)' PROVE i <= received'
    BY <1>0, <1>2, <1>3, <2>1, <2>2, <2>3 DEF Types, Sizes
  <2> QED
    BY <2>3 DEF AllRead
<1>4. ASSUME NEW r \in Readers, Refuse(r) PROVE AllRead'
  <2>1. UNCHANGED <<sent, received, waiting>>
    BY <1>4 DEF Refuse, Abandon, stream
  <2>2. CASE Take(r, {"fatal"} \union Unexpected) /\ Open
    BY <1>3, <2>1, <2>2 DEF Unexpected
  <2>3. CASE Take(r, {"fatal"} \union Unexpected) /\ ~Open
    <3>1. pc[r] = "run" /\ pc' = [pc EXCEPT ![r] = "idle"]
      BY <1>4, <2>3 DEF Refuse, Take, Runs, Return
    <3>2. \A s \in Readers : pc'[s] = "idle"
      BY <2>3, <3>1 DEF Opening, Types, Control
    <3>3. ~Open'
      BY <2>1, <2>3 DEF Open
    <3> QED
      BY <3>2, <3>3 DEF AllRead
  <2>4. CASE UNCHANGED buffer /\ Runs(r)
    <3>1. UNCHANGED taken /\ pc[r] # "idle"
      BY <2>4 DEF buffer, Runs
    <3> QED
      BY <2>1, <3>1 DEF AllRead, Payload
  <2> QED
    BY <1>4, <2>2, <2>3, <2>4 DEF Refuse
<1>5. ASSUME NEW r \in Readers, ErrorFrame(r) \/ DataFrame(r) \/ Ignore(r) \/ Ping(r) \/ Reply(r)
      PROVE  AllRead'
  <2>1. CASE ErrorFrame(r)
    BY <1>3, <2>1 DEF ErrorFrame, server
  <2>2. CASE DataFrame(r)
    <3>1. Take(r, {"data"}) /\ UNCHANGED sent
      BY <2>2 DEF DataFrame, server
    <3>2. /\ UNCHANGED received \/ received' = taken'
          /\ Payload(taken') => received' = taken'
      BY <1>2, <2>2, <3>1 DEF DataFrame, Payload
    <3> QED
      BY <1>3, <3>1, <3>2
  <2>3. CASE Ignore(r)
    BY <1>3, <2>3 DEF Ignore, server, stream
  <2>4. CASE Ping(r)
    BY <1>3, <2>4 DEF Ping, server, stream
  <2>5. CASE Reply(r)
    BY <1>3, <2>5 DEF Reply, Abandon, server, stream
  <2> QED
    BY <1>5, <2>1, <2>2, <2>3, <2>4, <2>5
<1>6. ASSUME NEW r \in Readers, pc[r] # "idle" \/ Open, UNCHANGED <<taken, received, sent>>
      PROVE  AllRead'
  BY <1>6 DEF AllRead, Payload
<1>7. ASSUME NEW r \in Readers, Enter(r) \/ Await(r) \/ Resume(r) \/ GiveUp(r) \/ Receive(r)
      PROVE  AllRead'
  <2>1. UNCHANGED <<taken, received, sent>>
    BY <1>7 DEF Enter, Await, Resume, Message, PongSent, Disconnected, GiveUp, Abandon, Receive,
       buffer, server, stream
  <2>2. pc[r] # "idle" \/ Open
    BY <1>7 DEF Enter, Await, Runs, Resume, Message, PongSent, Disconnected, GiveUp, Receive
  <2> QED
    BY <1>6, <2>1, <2>2
<1>8. CASE Send \/ CloseSend \/ CancelSession \/ Disconnect \/ UNCHANGED vars
  BY <1>1, <1>8 DEF Send, CloseSend, CancelSession, Disconnect, vars, buffer, server, stream
<1>9. ASSUME NEW f \in Frames, ServerSend(f) PROVE AllRead'
  <2>1. sent' = Append(sent, f) /\ UNCHANGED <<taken, received, pc, waiting>>
    BY <1>9 DEF ServerSend, buffer, stream
  <2>2. \A i \in 1..taken : Payload(i)' <=> Payload(i)
    BY <1>0, <2>1, AppendIsLonger DEF Payload, Types
  <2> QED
    BY <2>1, <2>2 DEF AllRead, Open
<1> QED
  BY <1>4, <1>5, <1>7, <1>8, <1>9 DEF Next, RunStep

LEMMA ForwardStep == ForwardInv /\ [Next]_vars => ForwardInv'
  BY TypesStep, AloneStep, UnsplitStep, TornStep, OpeningStep, WireStep, FinIsLastStep, AllReadStep
  DEF ForwardInv

\* What is known of a session at any time: above all, which payloads were returned
\* and what the buffer of a reader that waits alone is.
THEOREM ForwardInvariant == Spec => []ForwardInv
  BY ForwardInit, ForwardStep, PTL DEF Spec

\* Buffer, readers and streams keep their types.
THEOREM ForwardTypeOK == Spec => []TypeOK
<1>1. ForwardInv => TypeOK
  BY TypesAreTypeOK DEF ForwardInv
<1> QED
  BY <1>1, ForwardInvariant, PTL

\* One reader at a time, or messages of one frame each: either is enough for no
\* byte to be lost.
THEOREM ForwardTornOnlyByOverlap == Spec => []TornOnlyByOverlap
<1>1. ForwardInv => TornOnlyByOverlap
  BY DEF ForwardInv
<1> QED
  BY <1>1, ForwardInvariant, PTL

\* The pod is sent nothing on the data stream after its FIN but a reset.
THEOREM ForwardNothingAfterFin == Spec => NothingAfterFin
<1>1. ForwardInv /\ [Next]_vars => [(wire \in {"fin", "rst"}) => wire' \in {wire, "rst"}]_vars
  BY WireStep
<1> QED
  BY <1>1, ForwardInvariant, PTL DEF Spec, NothingAfterFin
\* receive() never tells the end of data once the error stream has said anything,
\* whether the data stream, the connection or cancel() ends it.
THEOREM ForwardCleanEnd == Spec => CleanEnd
<1> DEFINE Clean(r) == pc[r] # "idle" /\ pc'[r] = "idle" /\ outcome' = "eof" => error' = 0
<1>1. ASSUME NEW r \in Readers, NEW errors \in Nat, EndOfData(r, errors), outcome' = "eof"
      PROVE  errors = 0
  BY <1>1 DEF EndOfData, Return
<1>2. ASSUME ForwardInv, NEW r \in Readers,
             RunStep(r) \/ Resume(r) \/ GiveUp(r) \/ Receive(r),
             pc[r] # "idle" /\ pc'[r] = "idle" /\ outcome' = "eof"
      PROVE  error' = 0
  <2>1. error \in Nat
    BY <1>2 DEF ForwardInv, Types, Sizes
  <2> USE DEF ForwardInv, Types, Control, stream
  <2>2. CASE Enter(r) \/ Disconnected(r) \/ DataFrame(r)
    <3>1. UNCHANGED error /\ EndOfData(r, error)
      BY <1>2, <2>2 DEF Enter, Disconnected, DataFrame, Return, Go, Keep
    <3> QED
      BY <1>1, <1>2, <2>1, <3>1
  <2>3. CASE ~(Enter(r) \/ Disconnected(r) \/ DataFrame(r))
    BY <1>2, <2>3 DEF RunStep, Resume, Await, Ignore, Ping, Refuse, Reply, ErrorFrame, Message,
       PongSent, GiveUp, Receive, Return, Go, Keep
  <2> QED
    BY <2>2, <2>3
<1>3. ASSUME ForwardInv, NEW r \in Readers,
             RunStep(r) \/ Resume(r) \/ GiveUp(r) \/ Receive(r), NEW s \in Readers
      PROVE  Clean(s)
  BY <1>2, <1>3, OneReaderMoves DEF ForwardInv
<1>4. ASSUME \/ Send \/ CloseSend \/ CancelSession \/ Disconnect \/ UNCHANGED vars
             \/ \E f \in Frames : ServerSend(f), NEW s \in Readers
      PROVE  Clean(s)
  <2>1. UNCHANGED pc
    BY <1>4 DEF Send, CloseSend, CancelSession, Disconnect, ServerSend, vars
  <2> QED
    BY <2>1
<1>5. ForwardInv /\ [Next]_vars =>
        [\A r \in Readers : pc[r] # "idle" /\ pc'[r] = "idle" /\ outcome' = "eof"
           => error' = 0]_vars
  BY <1>3, <1>4 DEF Next
<1> QED
  BY <1>5, ForwardInvariant, PTL DEF Spec, CleanEnd

-----------------------------------------------------------------------------
\* Each step of a session is one of the byte stream, or none.
Written == {i \in 1..Len(sent) : Payload(i)}
Ended == \E i \in 1..Len(sent) : sent[i].kind = "data" /\ sent[i].fin
Broken == ~up \/ cancelled

LEMMA StreamStays ==
  ASSUME UNCHANGED <<sent, up, cancelled, received, data_closed>>
  PROVE  UNCHANGED Stream!vars
BY DEF Stream!vars, Payload

\* The connection is lost, or given up while it opens.
LEMMA StreamBreaks ==
  ASSUME Flags, UNCHANGED <<sent, cancelled, received, data_closed>>, up' = up \/ ~up'
  PROVE  [Stream!Next]_(Stream!vars)
<1>1. CASE up' = up
  BY <1>1, StreamStays
<1>2. CASE ~up'
  <2>1. Written' = Written /\ Ended' = Ended
    BY DEF Written, Ended, Payload
  <2>2. Broken' = TRUE
    BY <1>2 DEF Broken
  <2>3. Stream!Break
    BY <2>1, <2>2 DEF Stream!Break, Written, Ended, Broken
  <2> QED
    BY <2>3 DEF Stream!Next
<1> QED
  BY <1>1, <1>2

LEMMA StreamCancelled ==
  ASSUME CancelSession
  PROVE  Stream!Break
<1>1. /\ UNCHANGED <<sent, up, received>> /\ data_closed' = TRUE /\ cancelled' = TRUE
  BY DEF CancelSession, server
<1>2. Written' = Written /\ Ended' = Ended /\ Broken' = TRUE
  BY <1>1 DEF Written, Ended, Broken, Payload
<1> QED
  BY <1>1, <1>2 DEF Stream!Break, Written, Ended, Broken

\* Told of the disconnect, the reader of an open session finds it broken.
LEMMA StreamDisconnected ==
  ASSUME NEW r \in Readers, Disconnected(r)
  PROVE  [Stream!Next]_(Stream!vars)
<1>1. UNCHANGED <<sent, up, received, cancelled>> /\ ~up
  BY DEF Disconnected, server, sending
<1>2. CASE Open
  <2>1. data_closed' = TRUE
    BY <1>2 DEF Disconnected
  <2>2. Written' = Written /\ Ended' = Ended /\ Broken' = Broken /\ Broken
    BY <1>1 DEF Written, Ended, Broken, Payload
  <2>3. Stream!Close
    BY <1>1, <2>1, <2>2 DEF Stream!Close, Written, Ended, Broken
  <2> QED
    BY <2>3 DEF Stream!Next
<1>3. CASE ~Open
  BY <1>1, <1>3, StreamStays DEF Disconnected
<1> QED
  BY <1>2, <1>3

\* A data frame: a payload is the first that was not read, and after a FIN there is
\* none.
LEMMA StreamReads ==
  ASSUME ForwardInv, NEW r \in Readers, DataFrame(r)
  PROVE  [Stream!Next]_(Stream!vars)
<1> USE DEF ForwardInv, Types
<1>1. /\ Take(r, {"data"}) /\ UNCHANGED <<sent, up, cancelled>> /\ Open
      /\ data_closed' = (data_closed \/ First.fin)
  BY DEF DataFrame, server, sending
<1>2. /\ taken' = taken + 1 /\ taken' \in 1..Len(sent) /\ First = sent[taken']
      /\ sent[taken'].kind = "data" /\ taken \in Nat /\ received \in Nat /\ received <= taken
      /\ Len(sent) \in Nat
  BY <1>1, TakeStep
<1>3. \A i \in 1..taken : Payload(i) => i <= received
  BY <1>1 DEF AllRead
<1>4. Written' = Written /\ Ended' = Ended /\ Broken' = Broken
  BY <1>1 DEF Written, Ended, Broken, Payload
<1>5. First.fin => Ended /\ \A i \in Written : i <= taken'
  BY <1>2 DEF Ended, Written, Payload, FinIsLast
<1>6. Stream!Unread = {p \in Written : p > received}
  BY DEF Stream!Unread, Written
<1>7. \A p \in Stream!Unread : p \in Nat /\ p >= taken'
  BY <1>2, <1>3, <1>6 DEF Written
<1>8. CASE ~First.empty
  <2>1. received' = taken'
    BY <1>8 DEF DataFrame
  <2>2. taken' \in Stream!Unread
    BY <1>2, <1>6, <1>8 DEF Written, Payload
  <2>3. First.fin => Stream!Unread = {taken'}
    BY <1>2, <1>5, <1>6, <1>7, <2>2 DEF Written
  <2>4. UNCHANGED data_closed \/ (data_closed' = TRUE /\ Ended /\ Stream!Unread = {taken'})
    BY <1>1, <1>5, <2>3 DEF Flags
  <2>5. Stream!Read
    BY <1>4, <1>7, <2>1, <2>2, <2>4 DEF Stream!Read, Written, Ended, Broken
  <2> QED
    BY <2>5 DEF Stream!Next
<1>9. CASE First.empty
  <2>1. UNCHANGED received
    BY <1>9 DEF DataFrame
  <2>2. CASE First.fin
    <3>1. ~Payload(taken')
      BY <1>2, <1>9 DEF Payload
    <3>2. Stream!Unread = {}
      BY <1>2, <1>5, <1>6, <1>7, <2>2, <3>1 DEF Written
    <3>3. Stream!Close
      BY <1>1, <1>4, <1>5, <2>1, <2>2, <3>2 DEF Stream!Close, Written, Ended, Broken
    <3> QED
      BY <3>3 DEF Stream!Next
  <2>3. CASE ~First.fin
    BY <1>1, <2>1, <2>3, StreamStays DEF Flags
  <2> QED
    BY <2>2, <2>3
<1> QED
  BY <1>8, <1>9

\* A frame of the data stream is a write, unless it ended before; others are not.
LEMMA StreamWrites ==
  ASSUME ForwardInv, NEW f \in Frames, ServerSend(f)
  PROVE  [Stream!Next]_(Stream!vars)
<1> USE DEF ForwardInv, Types
<1>1. /\ sent' = Append(sent, f) /\ UNCHANGED <<up, cancelled, received, data_closed>>
      /\ \A i \in 1..Len(sent) : ~(sent[i].kind = f.kind /\ sent[i].fin)
  BY DEF ServerSend, stream, sending
<1> DEFINE n == Len(sent) + 1
<1>2. /\ Len(sent) \in Nat /\ Len(sent') = n /\ sent'[n] = f
      /\ \A i \in 1..Len(sent) : sent'[i] = sent[i]
  BY <1>1, AppendIsLonger
<1>3. received \in Nat /\ received < n
  BY <1>2 DEF Sizes
<1>4. Written' = Written \union (IF f.kind = "data" /\ ~f.empty THEN {n} ELSE {})
  <2>1. \A i : i \in 1..n <=> i \in 1..Len(sent) \/ i = n
    BY <1>2
  <2>2. \A i \in 1..Len(sent) : Payload(i)' <=> Payload(i)
    BY <1>2 DEF Payload
  <2>3. ASSUME NEW i, i = n PROVE Payload(i)' <=> (f.kind = "data" /\ ~f.empty)
    BY <1>2, <2>3 DEF Payload
  <2> QED
    BY <1>2, <2>1, <2>2, <2>3 DEF Written
<1>5. Broken' = Broken
  BY <1>1 DEF Broken
<1>6. CASE f.kind = "data"
  <2>1. ~Ended
    BY <1>1, <1>6 DEF Ended
  <2>2. Ended' \in BOOLEAN
    BY DEF Ended
  <2>3. \/ UNCHANGED Written
        \/ \E p \in Written' : /\ p \in Nat /\ p > received /\ \A q \in Written : p > q
                               /\ Written' = Written \union {p}
    <3>1. CASE f.empty
      BY <1>4, <3>1
    <3>2. CASE ~f.empty
      <4>1. Written' = Written \union {n}
        BY <1>4, <1>6, <3>2
      <4>2. n \in Written' /\ n \in Nat /\ n > received /\ \A q \in Written : n > q
        BY <1>2, <1>3, <4>1 DEF Written
      <4> QED
        BY <4>1, <4>2
    <3> QED
      BY <3>1, <3>2
  <2>4. Stream!Write
    BY <1>1, <1>5, <2>1, <2>2, <2>3 DEF Stream!Write, Written, Ended, Broken
  <2> QED
    BY <2>4 DEF Stream!Next
<1>7. CASE f.kind # "data"
  <2>1. Written' = Written
    BY <1>4, <1>7
  <2>2. Ended' = Ended
    <3>1. ASSUME NEW i \in 1..Len(sent'), sent'[i].kind = "data" PROVE i \in 1..Len(sent)
      BY <1>2, <1>7, <3>1
    <3> QED
      BY <1>2, <3>1 DEF Ended
  <2>3. UNCHANGED Stream!vars
    BY <1>1, <1>5, <2>1, <2>2 DEF Stream!vars, Written, Ended, Broken
  <2> QED
    BY <2>3
<1> QED
  BY <1>6, <1>7

LEMMA StreamStep == ForwardInv /\ [Next]_vars => [Stream!Next]_(Stream!vars)
<1> SUFFICES ASSUME ForwardInv, [Next]_vars PROVE [Stream!Next]_(Stream!vars)
  OBVIOUS
<1>1. ASSUME NEW r \in Readers, RunStep(r), ~DataFrame(r)
      PROVE  /\ UNCHANGED <<sent, cancelled, received, data_closed>>
             /\ up' = up \/ ~up'
  BY <1>1 DEF RunStep, Enter, Await, Ignore, Ping, Refuse, Reply, Abandon, ErrorFrame,
     server, stream, sending, ForwardInv, Types, Flags
<1>2. ASSUME NEW r \in Readers, Resume(r) \/ GiveUp(r) \/ Receive(r), ~Disconnected(r)
      PROVE  /\ UNCHANGED <<sent, cancelled, received, data_closed>>
             /\ up' = up \/ ~up'
  BY <1>2 DEF Resume, Message, PongSent, GiveUp, Abandon, Receive, server, stream, sending,
     ForwardInv, Types, Flags
<1>3. CASE Send \/ CloseSend \/ Disconnect \/ UNCHANGED vars
  <2>1. UNCHANGED <<sent, cancelled, received, data_closed>> /\ (up' = up \/ ~up')
    BY <1>3 DEF Send, CloseSend, Disconnect, vars, server, stream, sending
  <2> QED
    BY <2>1, StreamBreaks DEF ForwardInv, Types
<1>4. CASE CancelSession
  BY <1>4, StreamCancelled DEF Stream!Next
<1> QED
  BY <1>1, <1>2, <1>3, <1>4, StreamBreaks, StreamDisconnected, StreamReads, StreamWrites
  DEF Next, Resume, RunStep, ForwardInv, Types

\* The session implements the byte stream: no reader skips, repeats or reorders a
\* payload, and none is told of an end that is not there.
THEOREM ForwardImplementsByteStream == Spec => StreamSpec
<1>1. Init => Stream!Init
  <2> SUFFICES ASSUME Init PROVE Stream!Init
    OBVIOUS
  <2>1. Len(sent) = 0
    BY DEF Init
  <2>2. Written = {} /\ Ended = FALSE /\ Broken = FALSE
    BY <2>1 DEF Init, Written, Ended, Broken
  <2> QED
    BY <2>2 DEF Init, Stream!Init, Written, Ended, Broken
<1> QED
  BY <1>1, StreamStep, ForwardInvariant, PTL DEF Spec, StreamSpec, Stream!Spec

\* The end, while connection and session live, is the end: the pod has closed its
\* side, and there is no payload that was not returned.
EndIsComplete ==
  (data_closed /\ up /\ ~cancelled) => Ended /\ \A i \in Written : i <= received

\* It is the byte stream that keeps it, and so every session that implements one:
\* after the end nothing is written, and what is read before it is all there is.
THEOREM ForwardEndIsComplete == Spec => []EndIsComplete
<1> DEFINE Whole ==
      received \in Nat /\ ((data_closed /\ ~Broken) => Ended /\ Stream!Unread = {})
<1> USE DEF Written, Ended, Broken
<1>1. Stream!Init => Whole
  BY DEF Stream!Init
<1>2. Whole /\ [Stream!Next]_(Stream!vars) => Whole'
  <2> SUFFICES ASSUME Whole, [Stream!Next]_(Stream!vars)
               PROVE  Whole'
    OBVIOUS
  <2> HIDE DEF Written, Ended, Broken
  <2>0. Written \subseteq Nat
    BY DEF Written
  <2>1. Stream!Unread = {p \in Written : p > received}
    BY DEF Stream!Unread, Written
  <2>2. Stream!Unread' = {p \in Written' : p > received'}
    BY DEF Stream!Unread, Written
  <2>3. CASE Stream!Write
    BY <2>3 DEF Stream!Write, Ended, Broken
  <2>4. CASE Stream!Read
    <3>1. /\ UNCHANGED <<Written, Ended, Broken>>
          /\ \E p \in Stream!Unread : (\A q \in Stream!Unread : p <= q) /\ received' = p
          /\ \/ UNCHANGED data_closed
             \/ Ended /\ Stream!Unread = {received'}
      BY <2>4 DEF Stream!Read, Written, Ended, Broken
    <3>2. PICK q \in Stream!Unread : (\A p \in Stream!Unread : q <= p) /\ received' = q
      BY <3>1
    <3>3. q \in Written /\ q \in Nat /\ q > received
      BY <2>0, <2>1
    <3>4. ASSUME NEW p \in Written', p > received'
          PROVE  p \in Stream!Unread /\ p # received'
      <4>1. p \in Written /\ p \in Nat /\ p > q
        BY <2>0, <3>1, <3>2, <3>4
      <4>2. p > received /\ p # q
        BY <3>3, <4>1
      <4> QED
        BY <2>1, <3>2, <4>1, <4>2
    <3>5. CASE Ended /\ Stream!Unread = {received'}
      BY <2>2, <3>1, <3>2, <3>3, <3>4, <3>5
    <3>6. CASE UNCHANGED data_closed
      <4>1. data_closed => Broken
        BY <3>2
      <4> QED
        BY <3>1, <3>2, <3>3, <3>6, <4>1
    <3> QED
      BY <3>1, <3>5, <3>6
  <2>5. CASE Stream!Close
    <3>1. UNCHANGED <<Written, Ended, Broken, received>> /\ (Broken \/ (Ended /\ Stream!Unread = {}))
      BY <2>5 DEF Stream!Close, Written, Ended, Broken
    <3> QED
      BY <2>1, <2>2, <3>1
  <2>6. CASE Stream!Break
    BY <2>6 DEF Stream!Break, Broken
  <2>7. CASE UNCHANGED Stream!vars
    BY <2>1, <2>2, <2>7 DEF Stream!vars, Written, Ended, Broken
  <2> QED
    BY <2>3, <2>4, <2>5, <2>6, <2>7 DEF Stream!Next
<1>3. Spec => Stream!Spec
  BY ForwardImplementsByteStream DEF StreamSpec
<1>4. ForwardInv /\ Whole => EndIsComplete
  <2> SUFFICES ASSUME ForwardInv, Stream!Unread = {}, NEW i \in Written PROVE i <= received
    BY DEF EndIsComplete
  <2>1. i \in Nat /\ received \in Nat
    BY DEF ForwardInv, Types, Sizes
  <2> QED
    BY <2>1 DEF Stream!Unread
<1> QED
  BY <1>1, <1>2, <1>3, <1>4, ForwardInvariant, PTL DEF Stream!Spec

\* With one reader no two awaits overlap, so nothing is ever added to a stale
\* buffer: the synchronous session, whatever the messages are cut into.
THEOREM ForwardOneReader ==
  ASSUME \A r, s \in Readers : r = s
  PROVE  Spec => []~torn
<1>1. Init => ~overlapped
  BY DEF Init
<1>2. ForwardInv /\ ~overlapped /\ [Next]_vars => ~overlapped'
  <2> SUFFICES ASSUME ForwardInv, ~overlapped, [Next]_vars PROVE ~overlapped'
    OBVIOUS
  <2>1. ASSUME NEW r \in Readers, Await(r) PROVE ~overlapped'
    BY <2>1 DEF Await, Runs
  <2>2. ASSUME NEW r \in Readers, ~Await(r),
               RunStep(r) \/ PongSent(r) \/ Disconnected(r) \/ GiveUp(r) \/ Receive(r)
        PROVE  ~overlapped'
    BY <2>2, BufferStep DEF ForwardInv
  <2>3. ASSUME NEW r \in Readers, Message(r) PROVE ~overlapped'
    BY <2>3 DEF Message
  <2>4. CASE \/ Send \/ CloseSend \/ CancelSession \/ Disconnect \/ UNCHANGED vars
             \/ \E f \in Frames : ServerSend(f)
    BY <2>4 DEF Send, CloseSend, CancelSession, Disconnect, ServerSend, vars, history
  <2> QED
    BY <2>1, <2>2, <2>3, <2>4 DEF Next, Resume
<1>3. ForwardInv /\ ~overlapped => ~torn
  BY DEF ForwardInv, TornOnlyByOverlap
<1> QED
  BY <1>1, <1>2, <1>3, ForwardInvariant, PTL DEF Spec
==============================================================================
