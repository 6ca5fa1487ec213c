-------------------------- MODULE MCRemoteCommand --------------------------
(* RemoteCommand with one Status of each shape.                             *)
EXTENDS RemoteCommand

AnyEnd ==
  {[success |-> TRUE, reason |-> "other", code |-> NoCode],
   [success |-> FALSE, reason |-> "other", code |-> NoCode],
   [success |-> FALSE, reason |-> "NonZeroExitCode", code |-> 7],
   [success |-> FALSE, reason |-> "NonZeroExitCode", code |-> NoCode]}
=============================================================================
