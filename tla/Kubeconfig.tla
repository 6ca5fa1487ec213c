----------------------------- MODULE Kubeconfig -----------------------------
(***************************************************************************)
(* What _resolve of _config.py selects from a list of kubeconfig files, and *)
(* the same said through the merged file they stand for.                   *)
(*                                                                         *)
(* A file is a record: the current context and functions from the names it *)
(* defines to contexts, clusters and users.  A user is the set of the      *)
(* fields it sets.                                                         *)
(***************************************************************************)
EXTENDS Naturals, Sequences

CONSTANT
  None   \* in place of a name: no requested context, no current one, no user of a
         \* context (the empty string is a name like any other)

\* The one answer to every ConfigError.
Error == [error |-> TRUE]

Earliest(found) == CHOOSE i \in found : \A j \in found : i <= j

\* A mistake: a later file overrides an earlier one.
SelectLastNamed(files, collection, name) ==
  LET found == {i \in 1..Len(files) : name \in DOMAIN files[i][collection]}
  IN IF found = {} THEN 0 ELSE CHOOSE i \in found : \A j \in found : j <= i

\* The first file that defines the name, 0 if none does.
SelectNamed(files, collection, name) ==
  LET found == {i \in 1..Len(files) : name \in DOMAIN files[i][collection]}
  IN IF found = {} THEN 0 ELSE Earliest(found)

\* But an empty current-context sets none.
Current(file) == IF file.current = "" THEN None ELSE file.current

CurrentContext(files, requested) ==
  LET set == {i \in 1..Len(files) : Current(files[i]) # None}
  IN IF requested # None THEN requested
     ELSE IF set = {} THEN None ELSE Current(files[Earliest(set)])

\* The field a value is taken from: inline data before the name of a file.
Source(user, inline, file) ==
  IF inline \in user THEN inline ELSE IF file \in user THEN file ELSE "none"

CertificateSource(user) == Source(user, "client-certificate-data", "client-certificate")
KeySource(user) == Source(user, "client-key-data", "client-key")

\* exec excludes every static field.
Exclusive(user) == "exec" \in user => user = {"exec"}

\* A certificate needs its key, and a key its certificate.
Paired(user) == (CertificateSource(user) = "none") = (KeySource(user) = "none")

\* Where cluster and user come from; relative paths are taken from there.  A
\* context without a user gets an empty one, next to its cluster.
Resolve(files, requested) ==
  LET name == CurrentContext(files, requested)
      c == SelectNamed(files, "contexts", name)
      context == files[c].contexts[name]
      k == SelectNamed(files, "clusters", context.cluster)
      u == IF context.user = None THEN k ELSE SelectNamed(files, "users", context.user)
      user == IF context.user = None THEN {} ELSE files[u].users[context.user]
  IN IF name = None \/ c = 0 THEN Error
     ELSE IF k = 0 \/ u = 0 THEN Error
     ELSE IF ~Exclusive(user) \/ ~Paired(user) THEN Error
     ELSE [error |-> FALSE, cluster |-> <<k, context.cluster>>, base |-> u, user |-> user]

-----------------------------------------------------------------------------
\* The merged file: of two definitions of a name the earlier one stays, and each
\* remembers the file it came from.
Merged(files, collection) ==
  LET merge[i \in 0..Len(files)] ==
        IF i = 0 THEN [n \in {} |-> 0]
        ELSE [n \in DOMAIN merge[i - 1] \union DOMAIN files[i][collection] |->
                IF n \in DOMAIN merge[i - 1] THEN merge[i - 1][n]
                ELSE [file |-> i, value |-> files[i][collection][n]]]
  IN merge[Len(files)]

MergedContext(files) ==
  LET merge[i \in 0..Len(files)] ==
        IF i = 0 THEN None
        ELSE IF merge[i - 1] # None THEN merge[i - 1] ELSE Current(files[i])
  IN merge[Len(files)]

ResolveMerged(files, requested) ==
  LET name == IF requested # None THEN requested ELSE MergedContext(files)
      contexts == Merged(files, "contexts")
      clusters == Merged(files, "clusters")
      users == Merged(files, "users")
      context == contexts[name].value
      cluster == clusters[context.cluster]
      user == IF context.user = None THEN [file |-> cluster.file, value |-> {}]
                                       ELSE users[context.user]
      known == /\ name # None /\ name \in DOMAIN contexts
               /\ context.cluster \in DOMAIN clusters
               /\ context.user \in DOMAIN users \union {None}
  IN IF known /\ Exclusive(user.value) /\ Paired(user.value)
     THEN [error |-> FALSE, cluster |-> <<cluster.file, context.cluster>>,
           base |-> user.file, user |-> user.value]
     ELSE Error
=============================================================================
