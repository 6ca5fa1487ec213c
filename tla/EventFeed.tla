----------------------------- MODULE EventFeed -----------------------------
(***************************************************************************)
(* What a watch promises to the code that iterates over it, without        *)
(* streams, retries or lists: a cursor moves forward over the log of       *)
(* writes; a selected write is delivered when everything selected between  *)
(* the cursor and it has been settled; and a write that is passed over     *)
(* without delivery is one a recovery declared skipped.                    *)
(*                                                                         *)
(* A version is the index of a write in the log.  An event of an           *)
(* Unversioned object carries no resourceVersion, so its delivery does not *)
(* move the cursor and it may be delivered again.                          *)
(***************************************************************************)
EXTENDS Naturals, Sequences

CONSTANTS Objects, Selected, Unversioned

VARIABLES log, delivered, skipped, cursor

vars == <<log, delivered, skipped, cursor>>

Due(c) == {v \in 1..Len(log) : v > c /\ log[v] \in Selected}
Versioned(v) == log[v] \notin Unversioned
DeliveredSet == {delivered[i] : i \in 1..Len(delivered)}
Settled(v) == v \in DeliveredSet \/ v \in skipped

Init ==
  /\ log = <<>> /\ delivered = <<>> /\ skipped = {} /\ cursor = 0

Write ==
  /\ \E o \in Objects : log' = Append(log, o)
  /\ UNCHANGED <<delivered, skipped, cursor>>

Deliver ==
  \E v \in Due(cursor) :
    /\ \A w \in Due(cursor) : w < v => Settled(w)
    /\ delivered' = Append(delivered, v)
    /\ cursor' = IF Versioned(v) THEN v ELSE cursor
    /\ UNCHANGED <<log, skipped>>

\* A bookmark moves the cursor over writes that nobody is waiting for.
Checkpoint ==
  \E c \in cursor..Len(log) :
    /\ \A w \in Due(cursor) : w <= c => Settled(w)
    /\ cursor' = c
    /\ UNCHANGED <<log, delivered, skipped>>

\* A recovery moves the cursor over the writes it can no longer deliver.
Jump ==
  \E c \in cursor..Len(log) :
    /\ skipped' = skipped \union {w \in Due(cursor) : w <= c /\ ~Settled(w)}
    /\ cursor' = c
    /\ UNCHANGED <<log, delivered>>

Next == Write \/ Deliver \/ Checkpoint \/ Jump

Spec == Init /\ [][Next]_vars

-----------------------------------------------------------------------------

TypeOK ==
  /\ log \in Seq(Objects)
  /\ delivered \in Seq(1..Len(log))
  /\ skipped \subseteq 1..Len(log)
  /\ cursor \in 0..Len(log)

\* Among the events that carry a version, a later delivery has a higher one:
\* none is repeated and none is out of order.
VersionsIncrease ==
  \A i, j \in 1..Len(delivered) :
    i < j /\ Versioned(delivered[i]) /\ Versioned(delivered[j])
      => delivered[i] < delivered[j]

\* Everything selected up to the cursor was delivered or given up by a
\* recovery.
NoSilentGap == \A v \in Due(0) : v <= cursor => Settled(v)

\* A versioned event is never behind the cursor when it arrives.
CursorCoversDelivered ==
  \A i \in 1..Len(delivered) : Versioned(delivered[i]) => delivered[i] <= cursor

=============================================================================
