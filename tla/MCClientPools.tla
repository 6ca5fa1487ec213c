--------------------------- MODULE MCClientPools ---------------------------
(* ClientPools with a few tasks and certificates.                           *)
EXTENDS ClientPools
=============================================================================
