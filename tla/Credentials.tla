---------------------------- MODULE Credentials -----------------------------
(***************************************************************************)
(* A ClientConfig resolved from kubeconfig files (_config.py) and shared   *)
(* by clients: the exec plugin with its cached credential                  *)
(* (_ExecCredentialProvider), the SSL context built from a certificate     *)
(* (_ExecCertificateProvider), and what each request of a client makes of  *)
(* them (_refresh_certificate and the token provider).  Time is counted,   *)
(* and the plugin takes some.  Nothing here awaits: a request gets its     *)
(* credential in one step of its event loop.                               *)
(***************************************************************************)
EXTENDS Kubeconfig, Integers

CONSTANTS
  Clients,    \* clients made from the configuration
  Configs,    \* what may be loaded: records of files and requested context
  Lifetimes,  \* from the start of the plugin to the expiry of what it returns
  Never,      \* no expirationTimestamp
  Slowest,    \* how long the plugin may take (exec_timeout)
  Leeway,     \* a credential is renewed so long before it expires
  MaxTime,    \* bound: time
  MaxIssued   \* bound: credentials the plugin returns

ASSUME CredentialsAssumption ==
  /\ \A c \in Configs : Len(c.files) \in Nat
  /\ Lifetimes \subseteq Int /\ Never \notin Int
  /\ Slowest \in Nat /\ Leeway \in Nat /\ MaxTime \in Nat /\ MaxIssued \in Nat

VARIABLES
  config,   \* what is to be loaded, dropped once it is
  form,     \* "start", "failed", "static", or what the plugin returned at load
  now,
  cached,   \* the provider's credential; they are numbered in order of issue
  known,    \* number of the credential the certificate provider last accepted
  context,  \* number of the one its SSL context was built from
  verify,   \* of each client: number of the one its pools were built from
  last      \* the last request: whose, how it went, with which credential, when
            \* it asked, and whether the cache answered

vars == <<config, form, now, cached, known, context, verify, last>>
certificates == <<known, context, verify>>

Forms == {"token", "certificate"}
Nothing == [files |-> <<>>, requested |-> None]
NoCredential == [serial |-> 0, form |-> "token", loads |-> TRUE, expires |-> Never]
NoRequest == [client |-> None, how |-> "none", serial |-> 0, asked |-> 0, hit |-> FALSE]

Init ==
  /\ config \in Configs /\ form = "start" /\ now = 0
  /\ cached = NoCredential /\ known = 0 /\ context = 0
  /\ verify = [c \in Clients |-> 0] /\ last = NoRequest

\* The plugin runs until now', within its timeout.
Runs == now' \in now..(now + Slowest) /\ now' <= MaxTime

\* What _execute may return: the expiry is compared with the time read before the
\* run.  Whether a certificate loads shows only when a context is built.
Answers ==
  {got \in [serial : {cached.serial + 1}, form : Forms, loads : BOOLEAN,
            expires : {now + t : t \in Lifetimes} \union {Never}] :
     /\ got.form = "token" => got.loads
     /\ got.expires # Never => now < got.expires}

Executes(got) == Runs /\ got \in Answers /\ got.serial <= MaxIssued

\* No such name, or a file that cannot be read or is not PEM.
LoadError == form' = "failed" /\ UNCHANGED <<now, cached, certificates>>

\* The plugin fails, or a certificate does not load.
LoadFails == form' = "failed" /\ Runs /\ UNCHANGED <<cached, certificates>>

LoadExec(got) ==
  /\ Executes(got) /\ got.loads /\ form' = got.form /\ cached' = got
  /\ known' = (IF got.form = "certificate" THEN got.serial ELSE 0) /\ context' = known'
  /\ verify' = [c \in Clients |-> context']

\* load_kubeconfig.
Load ==
  LET chosen == Resolve(config.files, config.requested)
  IN /\ form = "start" /\ config' = Nothing /\ UNCHANGED last
     /\ \/ LoadError
        \/ /\ ~chosen.error /\ "exec" \notin chosen.user
           /\ form' = "static" /\ UNCHANGED <<now, cached, certificates>>
        \/ /\ ~chosen.error /\ "exec" \in chosen.user
           /\ LoadFails \/ \E got \in Answers : LoadExec(got)

\* A mistake: the leeway is added to the wrong side.
ValidTooLong(credential) ==
  credential.expires # Never => now < credential.expires + Leeway

\* May the cache answer?
Valid(credential) == credential.expires # Never => now + Leeway < credential.expires

\* resolve(): got, from the cache or from a run of the plugin, which is cached
\* whatever becomes of it.
Provides(got, hit) ==
  IF hit THEN Valid(cached) /\ got = cached /\ UNCHANGED <<now, cached>>
         ELSE ~Valid(cached) /\ Executes(got) /\ cached' = got

Record(c, how, serial, hit) ==
  last' = [client |-> c, how |-> how, serial |-> serial, asked |-> now, hit |-> hit]

\* A mistake: the cache is emptied before the plugin is run.
ForgetThenRun(c) ==
  /\ form \in Forms /\ ~Valid(cached) /\ Runs /\ cached' = NoCredential
  /\ Record(c, "failed", 0, FALSE) /\ UNCHANGED <<config, form, certificates>>

\* The plugin fails: nothing is cached, and the old credential stays.
PluginFails(c) ==
  /\ form \in Forms /\ ~Valid(cached) /\ Runs
  /\ Record(c, "failed", 0, FALSE) /\ UNCHANGED <<config, form, cached, certificates>>

\* A request that needs a token.
Token(c, got, hit) ==
  /\ form = "token" /\ Provides(got, hit)
  /\ Record(c, IF got.form = "token" THEN "ok" ELSE "refused", got.serial, hit)
  /\ UNCHANGED <<config, form, certificates>>

\* _build_context succeeds: a certificate, and its PEM is valid.
Builds(got) == got.form = "certificate" /\ got.loads

\* A mistake: the credential is accepted before its context is built.
AcceptFirst(got) ==
  /\ known' = got.serial
  /\ context' = (IF got.serial # known /\ Builds(got) THEN got.serial ELSE context)

\* _ExecCertificateProvider.context(): nothing to build for the credential
\* accepted last; one that is a token or does not load changes nothing.
Accept(got) ==
  IF got.serial # known /\ Builds(got)
  THEN known' = got.serial /\ context' = got.serial
  ELSE UNCHANGED <<known, context>>

\* A request that needs a certificate; new pools when the context is another one.
Certificate(c, got, hit) ==
  /\ form = "certificate" /\ Provides(got, hit) /\ Accept(got)
  /\ IF got.serial = known \/ Builds(got)
     THEN verify' = [verify EXCEPT ![c] = context'] /\ Record(c, "ok", verify'[c], hit)
     ELSE UNCHANGED verify /\ Record(c, "refused", got.serial, hit)
  /\ UNCHANGED <<config, form>>

Tick ==
  /\ form \in Forms /\ now < MaxTime /\ now' = now + 1
  /\ UNCHANGED <<config, form, cached, certificates, last>>

Request(c) ==
  \/ PluginFails(c)
  \/ \E got \in Answers \union {cached}, hit \in BOOLEAN :
        Token(c, got, hit) \/ Certificate(c, got, hit)

Next == Load \/ Tick \/ \E c \in Clients : Request(c)

Spec == Init /\ [][Next]_vars

-----------------------------------------------------------------------------
\* Types; clients and the certificate provider are never ahead of the cache.
Credential ==
  [serial : Nat, form : Forms, loads : BOOLEAN, expires : Int \union {Never}]

TypeOK ==
  /\ form \in {"start", "failed", "static"} \union Forms /\ now \in Nat
  /\ cached \in Credential /\ known \in 0..cached.serial /\ context \in 0..known
  /\ verify \in [Clients -> 0..context]
  /\ last.how \in {"none", "ok", "failed", "refused"} /\ last.asked \in 0..now
  /\ last.serial \in 0..cached.serial /\ last.hit \in BOOLEAN

\* A request goes out with nothing older than the provider's credential and never
\* with one that was refused, whichever client renewed it (context() returns the
\* context it has only for the credential that context was built from).
NewestIsUsed ==
  (last.how = "ok") =>
    /\ last.serial = cached.serial /\ cached.form = form /\ cached.loads
    /\ form = "certificate" => verify[last.client] = cached.serial

\* From the cache a credential is served only while it has more than the leeway to
\* live; from the plugin, if it was valid when the plugin was started: it may have
\* expired when it is used (resolve() reads the clock once, before the run).
ServedFresh ==
  (last.how = "ok" /\ cached.expires # Never) =>
    last.asked + (IF last.hit THEN Leeway ELSE 0) < cached.expires

\* The files are read as if they were merged, the earlier definition of a name
\* winning, with relative paths taken from the file that defines the user
\* (_select_named searches the files in order, for each of the three names).
ResolvesAsMerged ==
  (form = "start") =>
    Resolve(config.files, config.requested) = ResolveMerged(config.files, config.requested)
=============================================================================
