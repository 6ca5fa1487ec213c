--------------------------- MODULE MCPortForward ---------------------------
(* PortForward with two readers and the frames that differ for the session. *)
EXTENDS PortForward

Plain(kind) == [kind |-> kind, empty |-> TRUE, fin |-> FALSE]

SomeFrames ==
  {Plain(k) : k \in {"reply1", "reply3", "ping", "bad"}}
  \union {[kind |-> "data", empty |-> e, fin |-> f] : e \in BOOLEAN, f \in BOOLEAN}
  \union [kind : {"error"}, empty : {FALSE}, fin : BOOLEAN]
=============================================================================
