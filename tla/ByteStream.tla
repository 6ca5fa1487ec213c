----------------------------- MODULE ByteStream -----------------------------
(***************************************************************************)
(* What a port-forward session promises its reader about the direction     *)
(* from the pod: a stream of payloads that is read in order, each once,    *)
(* and ends only when all of it was read or the connection was given up.   *)
(* A payload is known by its position among everything the pod sent.       *)
(***************************************************************************)
EXTENDS Naturals

VARIABLES
  written,  \* positions of the payloads the pod wrote
  ended,    \* the pod has closed its side
  broken,   \* the connection is lost, or the session was cancelled
  last,     \* position of the last payload read, 0 before the first
  closed    \* the reader will be told, or was told, that this is the end

vars == <<written, ended, broken, last, closed>>

Init == written = {} /\ ended = FALSE /\ broken = FALSE /\ last = 0 /\ closed = FALSE

Unread == {p \in written : p > last}

\* The pod writes a payload, closes its side, or both in one frame.
Write ==
  /\ ~ended
  /\ \/ UNCHANGED written
     \/ \E p \in written' : /\ p \in Nat /\ p > last
                            /\ \A q \in written : p > q
                            /\ written' = written \union {p}
  /\ ended' \in BOOLEAN
  /\ UNCHANGED <<broken, last, closed>>

Read ==
  /\ \E p \in Unread : (\A q \in Unread : p <= q) /\ last' = p
  /\ \/ UNCHANGED closed
     \/ closed' = TRUE /\ ended /\ Unread = {last'}
  /\ UNCHANGED <<written, ended, broken>>

Close ==
  /\ broken \/ (ended /\ Unread = {})
  /\ closed' = TRUE
  /\ UNCHANGED <<written, ended, broken, last>>

Break ==
  /\ broken' = TRUE /\ closed' \in {closed, TRUE}
  /\ UNCHANGED <<written, ended, last>>

Next == Write \/ Read \/ Close \/ Break

Spec == Init /\ [][Next]_vars
=============================================================================
