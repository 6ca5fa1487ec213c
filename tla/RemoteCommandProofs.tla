------------------------- MODULE RemoteCommandProofs -------------------------
(***************************************************************************)
(* Theorems about one session of exec or attach, for any Status, however   *)
(* many frames carry it.  The inductive invariant says what collect() has  *)
(* gathered: the frames of each channel read since it began.               *)
(***************************************************************************)
EXTENDS RemoteCommand, SequenceTheorems, TLAPS

\* The bytearray of a channel holds its frames, once and in order.
Holds(c) ==
  /\ \A i \in 1..Len(gathered[c]) : gathered[c][i] \in Sent(c)
  /\ \A n \in Sent(c) : \E i \in 1..Len(gathered[c]) : gathered[c][i] = n
  /\ \A i, j \in 1..Len(gathered[c]) : i < j => gathered[c][i] < gathered[c][j]

Gathered == (collecting \/ outcome = "result") => \A c \in Channels : Holds(c)

ResultIsFinal ==
  outcome = "result" =>
    /\ ~collecting /\ connection # "open"
    /\ connection = "closed" => read = Len(sent)

CommandInv == TypeOK /\ Gathered /\ ResultIsFinal /\ ZeroIsSuccess

LEMMA CommandInit == Init => CommandInv
<1> SUFFICES ASSUME Init PROVE CommandInv
  OBVIOUS
<1>1. gathered \in [Channels -> Seq(1..read)]
  BY DEF Init, Empty
<1>2. sent \in Seq(Kinds) /\ Len(sent) = 0
  BY DEF Init
<1>3. collecting \in BOOLEAN
  BY DEF Init
<1>4. TypeOK
  BY <1>3, <1>1, <1>2, CommandAssumption DEF Init, TypeOK
<1> QED
  BY <1>4 DEF Init, CommandInv, Gathered, ResultIsFinal, ZeroIsSuccess

\* What the frames read are does not change, so neither does what is held.
LEMMA HoldsStays ==
  ASSUME TypeOK, UNCHANGED <<read, from, gathered>>, NEW c,
         \A n \in 1..read : sent'[n] = sent[n], Holds(c)
  PROVE  Holds(c)'
<1>1. Sent(c)' = Sent(c)
  BY DEF Sent, TypeOK
<1> QED
  BY <1>1 DEF Holds

LEMMA CollectStep ==
  ASSUME CommandInv, Collect
  PROVE  CommandInv'
<1> USE DEF CommandInv, Collect, server
<1>1. gathered' \in [Channels -> Seq(1..read')]
  BY DEF Empty
<1>2. TypeOK'
  BY <1>1 DEF TypeOK
<1>3. \A c \in Channels : Holds(c)'
  <2>1. \A c \in Channels : Len(gathered'[c]) = 0
    BY DEF Empty
  <2>2. from' = read' /\ read' \in Nat
    BY DEF TypeOK
  <2>3. \A c : Sent(c)' = {}
    BY <2>2 DEF Sent
  <2> QED
    BY <2>1, <2>3 DEF Holds
<1> QED
  BY <1>2, <1>3 DEF Gathered, ResultIsFinal, ZeroIsSuccess

LEMMA FrameStep ==
  ASSUME CommandInv, Frame
  PROVE  CommandInv'
<1> USE DEF CommandInv, Frame, server
<1>1. /\ read \in Nat /\ from \in Nat /\ from <= read /\ read' = read + 1 /\ read < Len(sent)
      /\ sent \in Seq(Kinds) /\ Len(sent) \in Nat /\ UNCHANGED <<sent, from>>
  BY DEF TypeOK, Arrived
<1>2. gathered \in [Channels -> Seq(1..read)]
  BY DEF TypeOK
<1>3. outcome' \in {outcome, "protocol"} /\ outcome # "result" /\ collecting
      /\ collecting' \in BOOLEAN
  BY DEF End, ResultIsFinal, TypeOK
<1>4. ASSUME NEW c \in Channels
      PROVE  /\ gathered'[c] \in Seq(1..read') /\ Holds(c)'
  <2> DEFINE s == gathered[c]
             Old == 1..read
             New == 1..read'
  <2>1. s \in Seq(Old) /\ Len(s) \in Nat /\ Old \subseteq New /\ read' \in New
    BY <1>1, <1>2
  <2>2. /\ \A i \in 1..Len(s) : s[i] \in Sent(c)
        /\ \A n \in Sent(c) : \E i \in 1..Len(s) : s[i] = n
        /\ \A i, j \in 1..Len(s) : i < j => s[i] < s[j]
    BY DEF Gathered, Holds
  <2>3. \A n \in Sent(c) : n \in Nat /\ n < read'
    BY <1>1 DEF Sent
  <2>4. CASE Kind # c
    <3>1. gathered'[c] = s
      BY <1>2, <2>4 DEF Gather
    <3>2. Sent(c)' = Sent(c)
      BY <1>1, <2>4 DEF Sent, Kind
    <3>3. s \in Seq(New)
      BY <2>1, SeqMonotonic
    <3> QED
      BY <2>1, <2>2, <3>1, <3>2, <3>3 DEF Holds
  <2>5. CASE Kind = c
    <3> DEFINE t == gathered'[c]
    <3>1. t = Append(s, read')
      BY <1>2, <2>5 DEF Gather
    <3>2. Sent(c)' = Sent(c) \union {read'}
      BY <1>1, <2>5 DEF Sent, Kind
    <3>3. t \in Seq(New)
      <4> HIDE DEF New, Old, s, t
      <4>1. s \in Seq(New)
        BY <2>1, SeqMonotonic
      <4> QED
        BY <2>1, <3>1, <4>1
    <3>4. /\ Len(t) = Len(s) + 1 /\ t[Len(s) + 1] = read'
          /\ \A i \in 1..Len(s) : t[i] = s[i]
      <4> HIDE DEF New, Old, s, t
      <4> QED
        BY <2>1, <3>1
    <3> HIDE DEF s
    <3>5. \A i \in 1..Len(t) : t[i] \in Sent(c)'
      BY <2>1, <2>2, <3>2, <3>4
    <3>6. \A n \in Sent(c)' : \E i \in 1..Len(t) : t[i] = n
      <4>1. Len(s) + 1 \in 1..Len(t) /\ \A i \in 1..Len(s) : i \in 1..Len(t)
        BY <2>1, <3>4
      <4> QED
        BY <2>2, <3>2, <3>4, <4>1
    <3>7. ASSUME NEW i \in 1..Len(t), NEW j \in 1..Len(t), i < j
          PROVE  t[i] < t[j]
      <4>1. i \in 1..Len(s) /\ t[i] = s[i] /\ s[i] \in Nat /\ s[i] < read'
        BY <2>1, <2>2, <2>3, <3>4, <3>7
      <4>2. CASE j = Len(s) + 1
        BY <3>4, <4>1, <4>2
      <4>3. CASE j \in 1..Len(s)
        BY <2>2, <3>4, <3>7, <4>1, <4>3
      <4> QED
        BY <2>1, <3>4, <4>2, <4>3
    <3> QED
      BY <3>3, <3>5, <3>6, <3>7 DEF Holds
  <2> QED
    BY <2>4, <2>5
<1>5. gathered' \in [Channels -> Seq(1..read')]
  <2>1. gathered' = [c \in Channels |-> gathered'[c]]
    BY <1>2 DEF Gather
  <2> QED
    BY <1>4, <2>1
<1>6. TypeOK'
  BY <1>1, <1>3, <1>5 DEF TypeOK
<1> QED
  BY <1>3, <1>4, <1>6 DEF Gathered, ResultIsFinal, ZeroIsSuccess

\* The exit code by what was gathered of the Status.
LEMMA VerdictMeaning ==
  ASSUME status \in Status, NEW parts \in Nat
  PROVE  /\ Verdict(parts) \in Nat \union {NoCode}
         /\ Verdict(parts) = 0 => parts = 0 \/ status.success \/ status.code = 0
<1>1. status.code \in Nat \union {NoCode} /\ NoCode \notin Nat /\ Parts \in Nat /\ Parts # 0
  BY CommandAssumption DEF Status
<1>2. CASE parts = 0
  BY <1>1, <1>2 DEF Verdict
<1>3. CASE parts \notin {0, Parts}
  BY <1>1, <1>3 DEF Verdict
<1>4. CASE parts = Parts /\ status.success
  BY <1>1, <1>4 DEF Verdict
<1>5. CASE parts = Parts /\ ~status.success
  <2>1. Verdict(parts) = IF status.reason # "NonZeroExitCode" THEN 1 ELSE status.code
    BY <1>1, <1>5 DEF Verdict
  <2> QED
    BY <1>1, <2>1
<1> QED
  BY <1>2, <1>3, <1>4, <1>5

LEMMA DisconnectedStep ==
  ASSUME CommandInv, Disconnected
  PROVE  CommandInv'
<1> USE DEF CommandInv, Disconnected, server
<1> DEFINE code == Verdict(Len(gathered["error"]))
<1>1. status \in Status /\ gathered["error"] \in Seq(1..read) /\ Len(gathered["error"]) \in Nat
  BY CommandAssumption DEF TypeOK, Channels
<1>2. \/ outcome' = "protocol" /\ UNCHANGED exit_code
      \/ outcome' = "result" /\ exit_code' = code /\ code \in Nat
  BY <1>1, VerdictMeaning DEF End
<1>3. TypeOK'
  BY <1>2 DEF TypeOK, End
<1>4. \A c \in Channels : Holds(c)'
  BY HoldsStays DEF Gathered
<1>5. ResultIsFinal'
  BY DEF ResultIsFinal, End, TypeOK
<1>6. ZeroIsSuccess'
  <2>1. Sent("error")' = Sent("error")
    BY DEF Sent
  <2>2. Len(gathered["error"]) = 0 => Sent("error") = {}
    BY DEF Gathered, Holds, Channels
  <2> QED
    BY <1>1, <1>2, <2>1, <2>2, VerdictMeaning DEF ZeroIsSuccess
<1> QED
  BY <1>3, <1>4, <1>5, <1>6 DEF Gathered

LEMMA GiveUpStep ==
  ASSUME CommandInv, GiveUp
  PROVE  CommandInv'
<1>1. gathered' \in [Channels -> Seq(1..read')]
  BY DEF GiveUp, Empty
<1> QED
  BY <1>1 DEF CommandInv, GiveUp, End, server, TypeOK, Gathered, ResultIsFinal, ZeroIsSuccess

LEMMA ReceiveStep ==
  ASSUME CommandInv, Receive
  PROVE  CommandInv'
<1>1. read \in Nat /\ read' = read + 1 /\ read' \in 0..Len(sent)
  BY DEF Receive, Arrived, CommandInv, TypeOK
<1>2. gathered' \in [Channels -> Seq(1..read')]
  <2>1. gathered \in [Channels -> Seq(1..read)] /\ 1..read \subseteq 1..read'
    BY <1>1 DEF CommandInv, TypeOK
  <2>2. Seq(1..read) \subseteq Seq(1..read')
    BY <2>1, SeqMonotonic
  <2> QED
    BY <2>1, <2>2 DEF Receive
<1> QED
  BY <1>1, <1>2 DEF CommandInv, Receive, server, TypeOK, Gathered, ResultIsFinal, ZeroIsSuccess

LEMMA ServerStep ==
  ASSUME CommandInv, (\E kind \in Kinds : ServerSend(kind)) \/ ServerClose
  PROVE  CommandInv'
<1> USE DEF CommandInv
<1>1. /\ connection = "open" /\ outcome # "result"
      /\ UNCHANGED <<status, read, collecting, from, gathered, outcome, exit_code>>
  BY DEF ServerSend, ServerClose, ResultIsFinal
<1>2. /\ sent \in Seq(Kinds) /\ Len(sent) \in Nat /\ read \in 0..Len(sent)
      /\ Len(sent) <= MaxFrames /\ MaxFrames \in Nat
  BY CommandAssumption DEF TypeOK
<1>3. /\ sent' \in Seq(Kinds) /\ Len(sent) <= Len(sent') /\ Len(sent') <= MaxFrames
      /\ Len(sent') \in Nat /\ \A n \in 1..Len(sent) : sent'[n] = sent[n]
  <2>1. CASE ServerClose
    BY <1>2, <2>1 DEF ServerClose
  <2>2. ASSUME NEW kind \in Kinds, ServerSend(kind)
        PROVE  sent' = Append(sent, kind) /\ Len(sent) < MaxFrames
    BY <2>2 DEF ServerSend
  <2>3. ASSUME NEW kind \in Kinds, sent' = Append(sent, kind)
        PROVE  /\ sent' \in Seq(Kinds) /\ Len(sent') = Len(sent) + 1
               /\ \A n \in 1..Len(sent) : sent'[n] = sent[n]
    <3> HIDE DEF Kinds
    <3> QED
      BY <1>2, <2>3
  <2> QED
    BY <1>2, <2>1, <2>2, <2>3
<1>4. connection' \in {"open", "closed", "lost"}
  BY <1>1 DEF ServerSend, ServerClose
<1>5. TypeOK'
  BY <1>1, <1>2, <1>3, <1>4 DEF TypeOK
<1>6. \A n \in 1..read : sent'[n] = sent[n]
  BY <1>2, <1>3
<1>7. Gathered'
  BY <1>1, <1>6, HoldsStays DEF Gathered
<1> QED
  BY <1>1, <1>5, <1>7 DEF ResultIsFinal, ZeroIsSuccess

LEMMA CommandStep == CommandInv /\ [Next]_vars => CommandInv'
<1> SUFFICES ASSUME CommandInv, [Next]_vars PROVE CommandInv'
  OBVIOUS
<1>1. CASE UNCHANGED vars
  BY <1>1 DEF vars, server, CommandInv, TypeOK, Gathered, Holds, Sent, ResultIsFinal, ZeroIsSuccess
<1> QED
  BY <1>1, CollectStep, FrameStep, DisconnectedStep, GiveUpStep, ReceiveStep, ServerStep DEF Next

\* The inductive invariant of collect(): its bytearrays are what it has read.
THEOREM CommandInvariant == Spec => []CommandInv
  BY CommandInit, CommandStep, PTL DEF Spec

\* The bytearrays name frames that were read, and the exit code is a number.
THEOREM CommandTypeOK == Spec => []TypeOK
  BY CommandInvariant, PTL DEF CommandInv

\* collect() returns what was sent on stdout and stderr since it began, in order,
\* and everything unless the connection was lost.
THEOREM CommandOutputComplete == Spec => []OutputComplete
<1>1. CommandInv => OutputComplete
  <2> SUFFICES ASSUME CommandInv, outcome = "result" PROVE OutputComplete
    BY DEF OutputComplete
  <2>1. ASSUME NEW c \in {"stdout", "stderr"}
        PROVE  /\ {gathered[c][i] : i \in 1..Len(gathered[c])} = Sent(c)
               /\ \A i, j \in 1..Len(gathered[c]) : i < j => gathered[c][i] < gathered[c][j]
    <3>1. Holds(c)
      BY DEF CommandInv, Gathered, Channels
    <3> QED
      BY <3>1 DEF Holds
  <2> QED
    BY <2>1 DEF CommandInv, ResultIsFinal, OutputComplete
<1> QED
  BY <1>1, CommandInvariant, PTL

\* Exit code 0 is never read from part of a Status, or from one that reports a
\* failure.
THEOREM CommandZeroIsSuccess == Spec => []ZeroIsSuccess
  BY CommandInvariant, PTL DEF CommandInv
==============================================================================
