---------------------------- MODULE MCCredentials ----------------------------
(* Credentials with every pair of small kubeconfig files.                   *)
EXTENDS Credentials

Names == {"a", ""}
Users == {{}, {"exec"}, {"exec", "token"}, {"client-certificate"}}

Partial(names, values) == UNION {[d -> values] : d \in SUBSET names}

Files ==
  [current : Names \union {None},
   contexts : Partial(Names, [cluster : {"c"}, user : {"", None}]),
   clusters : Partial({"c"}, {"cluster"}),
   users : Partial({""}, Users)]

Pairs ==
  [files : {<<f, g>> : f, g \in Files}, requested : {None, ""}]

Seconds == {0, 1, 3}
==============================================================================
