-------------------------- MODULE CredentialsProofs --------------------------
(***************************************************************************)
(* What holds of Credentials for any clients, files, lifetimes and leeway. *)
(***************************************************************************)
EXTENDS Credentials, WellFoundedInduction, TLAPS

\* The context is the one of the credential accepted last, what was accepted is a
\* certificate, and a token needs no loading; requests are made only once a plugin
\* has answered.
InStep ==
  /\ known = context
  /\ (form = "certificate" /\ known = cached.serial) =>
       cached.form = "certificate" /\ cached.loads
  /\ cached.form = "token" => cached.loads
  /\ form \notin Forms => last.how = "none"

IInv == TypeOK /\ InStep /\ NewestIsUsed /\ ServedFresh

LEMMA CredentialsInit == Init => IInv
  BY CredentialsAssumption DEF Init, IInv, TypeOK, InStep, NewestIsUsed, ServedFresh,
     NoCredential, NoRequest, Credential, Forms

\* What an answer of the plugin is, and that time does not go back.
LEMMA AnswersTyped ==
  ASSUME TypeOK, NEW got \in Answers, Runs
  PROVE  /\ got \in Credential /\ got.serial = cached.serial + 1
         /\ got.form = "token" => got.loads
         /\ got.expires # Never => now < got.expires
         /\ now' \in Nat /\ now <= now'
<1>1. now \in Nat /\ cached.serial \in Nat
  BY DEF TypeOK, Credential
<1>2. now' \in Nat /\ now <= now'
  BY <1>1, CredentialsAssumption DEF Runs
<1>3. {now + t : t \in Lifetimes} \subseteq Int
  <2>1. ASSUME NEW t \in Lifetimes PROVE now + t \in Int
    <3>1. t \in Int
      BY CredentialsAssumption
    <3> QED
      BY <1>1, <3>1
  <2> QED
    BY <2>1
<1> QED
  BY <1>1, <1>2, <1>3 DEF Answers, Credential

LEMMA LoadStep ==
  ASSUME IInv, Load
  PROVE  IInv'
<1> USE DEF IInv
<1>0. /\ form = "start" /\ UNCHANGED last /\ last.how = "none" /\ now \in Nat
      /\ last.how \notin {"ok"}
  BY DEF Load, InStep, Forms, TypeOK
<1>1. CASE LoadError
  BY <1>0, <1>1 DEF LoadError, TypeOK, InStep, NewestIsUsed, ServedFresh, certificates, Forms
<1>2. CASE LoadFails
  <2>1. now' \in Nat /\ now <= now'
    BY <1>0, <1>2, CredentialsAssumption DEF LoadFails, Runs
  <2> QED
    BY <1>0, <1>2, <2>1 DEF LoadFails, TypeOK, InStep, NewestIsUsed, ServedFresh, certificates,
       Forms
<1>3. CASE form' = "static" /\ UNCHANGED <<now, cached, certificates>>
  BY <1>0, <1>3 DEF TypeOK, InStep, NewestIsUsed, ServedFresh, certificates, Forms
<1>4. ASSUME NEW got \in Answers, LoadExec(got) PROVE IInv'
  <2>1. /\ got \in Credential /\ got.serial = cached.serial + 1 /\ now' \in Nat /\ now <= now'
    BY <1>4, AnswersTyped DEF LoadExec, Executes
  <2>2. /\ cached' = got /\ form' = got.form /\ got.loads /\ known' \in {0, got.serial}
        /\ (got.form = "certificate" => known' = got.serial) /\ context' = known'
        /\ verify' = [c \in Clients |-> context']
    BY <1>4 DEF LoadExec
  <2>3. got.serial \in Nat /\ got.form \in Forms
    BY <2>1 DEF Credential
  <2>4. TypeOK'
    BY <1>0, <2>1, <2>2, <2>3 DEF TypeOK, Credential
  <2>5. InStep'
    BY <1>0, <2>2, <2>3 DEF InStep, Forms
  <2> QED
    BY <1>0, <2>4, <2>5 DEF NewestIsUsed, ServedFresh
<1> QED
  BY <1>1, <1>2, <1>3, <1>4 DEF Load

LEMMA TickStep ==
  ASSUME IInv, Tick
  PROVE  IInv'
  BY DEF IInv, Tick, TypeOK, InStep, NewestIsUsed, ServedFresh, certificates

LEMMA PluginFailsStep ==
  ASSUME IInv, NEW c \in Clients, PluginFails(c)
  PROVE  IInv'
<1> USE DEF IInv
<1>1. now \in Nat /\ now' \in Nat /\ now <= now'
  BY CredentialsAssumption DEF PluginFails, Runs, TypeOK
<1>2. /\ last' = [client |-> c, how |-> "failed", serial |-> 0, asked |-> now, hit |-> FALSE]
      /\ form \in Forms /\ UNCHANGED <<form, cached, known, context, verify>>
  BY DEF PluginFails, Record, certificates
<1> QED
  BY <1>1, <1>2 DEF TypeOK, InStep, NewestIsUsed, ServedFresh, Credential

\* What resolve() gives a request: typed, cached, and fresh.
LEMMA Provided ==
  ASSUME TypeOK, InStep, NEW hit \in BOOLEAN, NEW got, Provides(got, hit)
  PROVE  /\ got \in Credential /\ cached' = got /\ now' \in Nat /\ now <= now' /\ now \in Nat
         /\ got.serial \in Nat /\ cached.serial <= got.serial
         /\ hit => got = cached
         /\ got.form = "token" => got.loads
         /\ ~hit => got.serial = cached.serial + 1
         /\ got.expires # Never => now + (IF hit THEN Leeway ELSE 0) < got.expires
<1>0. now \in Nat /\ cached \in Credential
  BY DEF TypeOK
<1>1. CASE hit
  BY <1>0, <1>1, CredentialsAssumption DEF Provides, Valid, Credential, InStep
<1>2. CASE ~hit
  <2>1. Runs /\ got \in Answers /\ cached' = got
    BY <1>2 DEF Provides, Executes
  <2>2. /\ got \in Credential /\ got.serial = cached.serial + 1
        /\ got.expires # Never => now < got.expires
        /\ got.form = "token" => got.loads
        /\ now' \in Nat /\ now <= now'
    BY <2>1, AnswersTyped
  <2> QED
    BY <1>0, <1>2, <2>1, <2>2 DEF Credential
<1> QED
  BY <1>1, <1>2

LEMMA TokenStep ==
  ASSUME IInv, NEW c \in Clients, NEW got, NEW hit \in BOOLEAN, Token(c, got, hit)
  PROVE  IInv'
<1> USE DEF IInv
<1>1. /\ got \in Credential /\ cached' = got /\ now' \in Nat /\ now <= now' /\ now \in Nat
      /\ got.serial \in Nat /\ cached.serial <= got.serial
      /\ got.expires # Never => now + (IF hit THEN Leeway ELSE 0) < got.expires
      /\ hit => got = cached
      /\ got.form = "token" => got.loads
      /\ ~hit => got.serial = cached.serial + 1
  BY Provided DEF Token
<1> DEFINE how == IF got.form = "token" THEN "ok" ELSE "refused"
<1>2. /\ last' = [client |-> c, how |-> how, serial |-> got.serial, asked |-> now, hit |-> hit]
      /\ form = "token" /\ UNCHANGED <<form, known, context, verify>>
  BY DEF Token, Record, certificates
<1>3. TypeOK'
  BY <1>1, <1>2 DEF TypeOK, Credential
<1>4. InStep'
  BY <1>1, <1>2 DEF InStep, Forms, TypeOK, Credential
<1>5. ServedFresh'
  BY <1>1, <1>2 DEF ServedFresh
<1>6. NewestIsUsed'
  <2>1. last'.how = "ok" => got.form = "token" /\ got.loads
    BY <1>1, <1>2
  <2> QED
    BY <1>1, <1>2, <2>1 DEF NewestIsUsed
<1> QED
  BY <1>3, <1>4, <1>5, <1>6

LEMMA CertificateStep ==
  ASSUME IInv, NEW c \in Clients, NEW got, NEW hit \in BOOLEAN, Certificate(c, got, hit)
  PROVE  IInv'
<1> USE DEF IInv
<1>1. /\ got \in Credential /\ cached' = got /\ now' \in Nat /\ now <= now' /\ now \in Nat
      /\ got.serial \in Nat /\ cached.serial <= got.serial
      /\ got.expires # Never => now + (IF hit THEN Leeway ELSE 0) < got.expires
      /\ hit => got = cached
      /\ got.form = "token" => got.loads
      /\ ~hit => got.serial = cached.serial + 1
  BY Provided DEF Certificate
<1>2. /\ form = "certificate" /\ form' = form
      /\ known = context /\ known \in 0..cached.serial
      /\ verify \in [Clients -> 0..context] /\ cached.serial \in Nat
  BY DEF Certificate, InStep, TypeOK, Credential
\* Accepted now, accepted before, or refused.
<1>3. \/ /\ Builds(got) /\ got.serial # known /\ known' = got.serial /\ context' = got.serial
      \/ got.serial = known /\ hit /\ known' = known /\ context' = context
      \/ ~Builds(got) /\ got.serial # known /\ known' = known /\ context' = context
  BY <1>1, <1>2 DEF Certificate, Accept
<1>4. known' = context' /\ known' \in 0..got.serial /\ context' \in 0..known'
      /\ context <= context'
  BY <1>1, <1>2, <1>3
<1>5. (known' = got.serial) => Builds(got)
  BY <1>1, <1>2, <1>3 DEF InStep, Builds
<1>6. CASE got.serial = known \/ Builds(got)
  <2>1. known' = got.serial
    BY <1>3, <1>6
  <2>2. /\ verify' = [verify EXCEPT ![c] = context']
        /\ last' = [client |-> c, how |-> "ok", serial |-> verify'[c], asked |-> now, hit |-> hit]
    BY <1>6 DEF Certificate, Record
  <2>3. verify'[c] = context' /\ verify' \in [Clients -> 0..context']
    BY <1>2, <1>4, <2>2
  <2>4. TypeOK'
    BY <1>1, <1>2, <1>4, <2>2, <2>3 DEF TypeOK
  <2>5. InStep'
    BY <1>1, <1>2, <1>4, <1>5 DEF InStep, Builds, Forms
  <2>6. NewestIsUsed'
    BY <1>1, <1>2, <1>4, <1>5, <2>1, <2>2, <2>3 DEF NewestIsUsed, Builds
  <2>7. ServedFresh'
    BY <1>1, <2>2 DEF ServedFresh
  <2> QED
    BY <2>4, <2>5, <2>6, <2>7
<1>7. CASE ~(got.serial = known \/ Builds(got))
  <2>1. /\ UNCHANGED verify
        /\ last' = [client |-> c, how |-> "refused", serial |-> got.serial, asked |-> now,
                    hit |-> hit]
    BY <1>7 DEF Certificate, Record
  <2>2. verify' \in [Clients -> 0..context']
    BY <1>2, <1>4, <2>1
  <2>3. TypeOK'
    BY <1>1, <1>2, <1>4, <2>1, <2>2 DEF TypeOK
  <2>4. InStep'
    BY <1>1, <1>2, <1>4, <1>5 DEF InStep, Builds, Forms
  <2> QED
    BY <2>1, <2>3, <2>4 DEF NewestIsUsed, ServedFresh
<1> QED
  BY <1>6, <1>7

LEMMA CredentialsStep == IInv /\ [Next]_vars => IInv'
<1> SUFFICES ASSUME IInv, [Next]_vars PROVE IInv'
  OBVIOUS
<1>1. ASSUME NEW c \in Clients, Request(c) PROVE IInv'
  BY <1>1, PluginFailsStep, TokenStep, CertificateStep DEF Request
<1>2. CASE UNCHANGED vars
  BY <1>2 DEF vars, certificates, IInv, TypeOK, InStep, NewestIsUsed, ServedFresh
<1> QED
  BY <1>1, <1>2, LoadStep, TickStep DEF Next

\* The inductive invariant of load_kubeconfig and of every request after it.
THEOREM CredentialsInvariant == Spec => []IInv
  BY CredentialsInit, CredentialsStep, PTL DEF Spec

\* No client and no context is ahead of the credential the plugin returned last.
THEOREM CredentialsTypeOK == Spec => []TypeOK
  BY CredentialsInvariant, PTL DEF IInv

\* A request goes out with the newest credential and never with a refused one,
\* whichever of the clients had it renewed.
THEOREM CredentialsNewestIsUsed == Spec => []NewestIsUsed
  BY CredentialsInvariant, PTL DEF IInv

\* Served from the cache, a credential outlives the leeway; served by the plugin,
\* it was valid when the plugin was started.
THEOREM CredentialsServedFresh == Spec => []ServedFresh
  BY CredentialsInvariant, PTL DEF IInv

\* The credentials are numbered in order of issue, and no client goes back to an
\* earlier certificate, whichever of the clients had it renewed and whatever was
\* refused in between.
CertificatesAdvance ==
  [][cached.serial <= cached'.serial /\ \A c \in Clients : verify[c] <= verify'[c]]_vars

THEOREM CredentialsAdvance == Spec => CertificatesAdvance
<1> DEFINE Unissued == form = "start" => cached.serial = 0
           Advances == /\ cached.serial <= cached'.serial
                       /\ \A c \in Clients : verify[c] <= verify'[c]
<1>1. Init => Unissued
  BY DEF Init, NoCredential
<1>2. ASSUME IInv, IInv', Unissued, Load PROVE Advances /\ Unissued'
  <2> USE DEF IInv, TypeOK
  <2>1. /\ cached.serial = 0 /\ cached'.serial \in Nat
        /\ \A c \in Clients : verify[c] = 0 /\ verify'[c] \in Nat
    BY <1>2 DEF Load, Credential
  <2>2. form' # "start"
    BY <1>2 DEF Load, LoadError, LoadFails, LoadExec, Answers, Forms
  <2> QED
    BY <2>1, <2>2
<1>3. ASSUME IInv, IInv', NEW c \in Clients, Request(c) PROVE Advances /\ form' # "start"
  <2>0. TypeOK /\ InStep /\ TypeOK'
    BY <1>3 DEF IInv
  <2>1. /\ cached.serial \in Nat /\ context \in Nat /\ known = context /\ context <= cached.serial
        /\ \A d \in Clients : verify[d] \in 0..context
    BY <2>0 DEF TypeOK, InStep, Credential
  <2>2. CASE PluginFails(c)
    BY <2>1, <2>2 DEF PluginFails, certificates, Forms
  <2>3. ASSUME NEW got, NEW hit \in BOOLEAN, Token(c, got, hit)
        PROVE  Advances /\ form' # "start"
    <3>1. cached' = got /\ cached.serial <= got.serial
      BY <2>0, <2>3, Provided DEF Token
    <3> QED
      BY <2>1, <2>3, <3>1 DEF Token, certificates
  <2>4. ASSUME NEW got, NEW hit \in BOOLEAN, Certificate(c, got, hit)
        PROVE  Advances /\ form' # "start"
    <3>1. cached' = got /\ got.serial \in Nat /\ cached.serial <= got.serial
      BY <2>0, <2>4, Provided DEF Certificate
    <3>2. context' \in Nat /\ context <= context'
      BY <2>1, <2>4, <3>1 DEF Certificate, Accept
    <3>3. verify' = [verify EXCEPT ![c] = context'] \/ UNCHANGED verify
      BY <2>4 DEF Certificate
    <3>4. \A d \in Clients : verify'[d] \in {verify[d], context'} /\ verify[d] <= context'
      BY <2>0, <2>1, <3>2, <3>3 DEF TypeOK
    <3> QED
      BY <2>1, <2>4, <3>1, <3>4 DEF Certificate
  <2> QED
    BY <1>3, <2>2, <2>3, <2>4 DEF Request
<1>4. ASSUME IInv, Unissued, Tick \/ UNCHANGED vars PROVE Advances /\ Unissued'
  BY <1>4 DEF Tick, vars, certificates, IInv, TypeOK, Credential
<1>5. IInv /\ IInv' /\ Unissued /\ [Next]_vars => Advances /\ Unissued'
  BY <1>2, <1>3, <1>4 DEF Next
<1> QED
  BY <1>1, <1>5, CredentialsInvariant, PTL DEF Spec, CertificatesAdvance

-----------------------------------------------------------------------------
(***************************************************************************)
(* The files: a merge of them file by file, as the reference has it, comes *)
(* to what a search through them in order finds.                           *)
(***************************************************************************)
\* The least-number principle.
LEMMA LeastNumber ==
  ASSUME NEW found \in SUBSET Nat, found # {}
  PROVE  Earliest(found) \in found /\ \A j \in found : Earliest(found) <= j
<1>1. PICK i \in found : \A j \in found : ~(<<j, i>> \in OpToRel(<, Nat))
  BY WFMin, NatLessThanWellFounded
<1>2. \A j \in found : ~(j < i)
  BY <1>1 DEF OpToRel
<1>3. \A j \in found : i <= j
  BY <1>2
<1> QED
  BY <1>3 DEF Earliest

\* What _select_named finds: the first file that defines the name, 0 if none does.
LEMMA SelectNamedFindsFirst ==
  ASSUME NEW files, NEW n \in Nat, n = Len(files), NEW collection, NEW name,
         NEW first, first = SelectNamed(files, collection, name)
  PROVE  /\ first \in 0..n
         /\ first # 0 => name \in DOMAIN files[first][collection]
         /\ \A i \in 1..n : name \in DOMAIN files[i][collection] => first # 0 /\ first <= i
<1>1. PICK found : found = {i \in 1..n : name \in DOMAIN files[i][collection]}
  OBVIOUS
<1>2. /\ \A i \in found : i \in 1..n /\ name \in DOMAIN files[i][collection]
      /\ \A i \in 1..n : name \in DOMAIN files[i][collection] => i \in found
  BY <1>1
<1>3. first = IF found = {} THEN 0 ELSE Earliest(found)
  BY <1>1 DEF SelectNamed
<1>4. found \in SUBSET Nat
  BY <1>2
<1>5. CASE found = {}
  BY <1>2, <1>3, <1>5
<1>6. CASE found # {}
  <2>1. first \in found /\ \A j \in found : first <= j
    BY <1>3, <1>4, <1>6, LeastNumber
  <2> QED
    BY <1>2, <2>1
<1> QED
  BY <1>5, <1>6

\* The merge of the first i files has the names found in them, each with what the
\* search finds: the least i at which a solution of the recursion differs would be
\* the successor of one at which it does not.
LEMMA MergedIsFirst ==
  ASSUME NEW files, NEW n \in Nat, n = Len(files), NEW collection
  PROVE  /\ \A x : x \in DOMAIN Merged(files, collection) <=> SelectNamed(files, collection, x) # 0
         /\ \A x \in DOMAIN Merged(files, collection) :
              Merged(files, collection)[x] =
                [file |-> SelectNamed(files, collection, x),
                 value |-> files[SelectNamed(files, collection, x)][collection][x]]
<1> DEFINE First(x) == SelectNamed(files, collection, x)
           Names(i) == {x \in UNION {DOMAIN files[j][collection] : j \in 1..n} : First(x) \in 1..i}
           Part(i) == [x \in Names(i) |-> [file |-> First(x), value |-> files[First(x)][collection][x]]]
           Sum(before, i) ==
             [x \in DOMAIN before \union DOMAIN files[i][collection] |->
                IF x \in DOMAIN before THEN before[x]
                ELSE [file |-> i, value |-> files[i][collection][x]]]
           Fold(f) == [i \in 0..n |-> IF i = 0 THEN [x \in {} |-> 0] ELSE Sum(f[i - 1], i)]
           merge == CHOOSE f : f = Fold(f)
<1>1. ASSUME NEW x
      PROVE  /\ First(x) \in 0..n
             /\ First(x) # 0 => x \in DOMAIN files[First(x)][collection]
             /\ \A i \in 1..n : x \in DOMAIN files[i][collection] => First(x) # 0 /\ First(x) <= i
  BY SelectNamedFindsFirst
<1> HIDE DEF First
<1>2. \A i \in 0..n : \A x : x \in Names(i) <=> First(x) \in 1..i
  BY <1>1
<1>3. Part(0) = [x \in {} |-> 0]
  <2>1. Names(0) = {}
    OBVIOUS
  <2> QED
    BY <2>1
<1>4. ASSUME NEW i \in 1..n
      PROVE  Sum(Part(i - 1), i) = Part(i)
  <2>1. i - 1 \in 0..n /\ i \in 0..n
    OBVIOUS
  <2>2. \A x : x \in Names(i) <=> x \in Names(i - 1) \/ x \in DOMAIN files[i][collection]
    BY <1>1, <1>2, <2>1
  <2>3. \A x \in DOMAIN files[i][collection] : x \notin Names(i - 1) => First(x) = i
    BY <1>1, <1>2, <2>1
  <2>4. Names(i) = Names(i - 1) \union DOMAIN files[i][collection]
    BY <2>2
  <2> HIDE DEF Names
  <2>5. DOMAIN Part(i - 1) = Names(i - 1)
    OBVIOUS
  <2>6. \A x \in Names(i) : Sum(Part(i - 1), i)[x] = Part(i)[x]
    BY <2>3, <2>4
  <2> QED
    BY <2>4, <2>5, <2>6
<1> HIDE DEF Part, Sum
<1>5. merge = Fold(merge)
  <2> DEFINE closed == [i \in 0..n |-> Part(i)]
  <2>1. closed = Fold(closed)
    <3>1. \A i \in 1..n : closed[i - 1] = Part(i - 1)
      OBVIOUS
    <3> QED
      BY <1>3, <1>4, <3>1
  <2> QED
    BY <2>1
<1> HIDE DEF merge
<1>6. \A i \in 0..n : merge[i] = Part(i)
  <2> DEFINE bad == {i \in 0..n : merge[i] # Part(i)}
  <2>1. SUFFICES ASSUME bad # {} PROVE FALSE
    OBVIOUS
  <2>2. bad \in SUBSET Nat
    OBVIOUS
  <2>3. PICK i \in bad : \A j \in bad : i <= j
    BY <2>1, <2>2, LeastNumber
  <2>4. i # 0
    BY <1>3, <1>5
  <2>5. i - 1 \in 0..n /\ i - 1 \notin bad
    BY <2>3, <2>4
  <2>6. merge[i] = Sum(Part(i - 1), i)
    BY <1>5, <2>4, <2>5
  <2> QED
    BY <1>4, <2>4, <2>6
<1>7. Merged(files, collection) = merge[n]
  BY DEF Merged, merge, Sum
<1>8. Merged(files, collection) = Part(n)
  BY <1>6, <1>7
<1>9. \A x : x \in Names(n) <=> First(x) # 0
  BY <1>1, <1>2
<1> HIDE DEF Names
<1>10. DOMAIN Part(n) = Names(n) /\ \A x \in Names(n) :
         Part(n)[x] = [file |-> First(x), value |-> files[First(x)][collection][x]]
  BY DEF Part
<1> QED
  BY <1>8, <1>9, <1>10 DEF First

\* The same of the current context, which the first file that sets one decides.
LEMMA MergedContextIsFirst ==
  ASSUME NEW files, NEW n \in Nat, n = Len(files)
  PROVE  MergedContext(files) = CurrentContext(files, None)
<1> DEFINE Set(i) == {j \in 1..i : Current(files[j]) # None}
           Part(i) == IF Set(i) = {} THEN None ELSE Current(files[Earliest(Set(i))])
           Fold(f) == [i \in 0..n |-> IF i = 0 THEN None
                         ELSE IF f[i - 1] # None THEN f[i - 1] ELSE Current(files[i])]
           merge == CHOOSE f : f = Fold(f)
<1>1. ASSUME NEW i \in 0..n, Set(i) # {}
      PROVE  Earliest(Set(i)) \in Set(i) /\ \A j \in Set(i) : Earliest(Set(i)) <= j
  <2>1. Set(i) \in SUBSET Nat
    OBVIOUS
  <2> QED
    BY <1>1, <2>1, LeastNumber
<1>2. Part(0) = None
  OBVIOUS
<1>3. ASSUME NEW i \in 1..n
      PROVE  Part(i) = IF Part(i - 1) # None THEN Part(i - 1) ELSE Current(files[i])
  <2>1. i - 1 \in 0..n /\ i \in 0..n /\ \A j : j \in Set(i) <=> j \in Set(i - 1) \/ (j = i /\ i \in Set(i))
    OBVIOUS
  <2>2. CASE Set(i - 1) # {}
    <3>1. Set(i) # {} /\ Earliest(Set(i)) = Earliest(Set(i - 1))
      <4>1. /\ Earliest(Set(i - 1)) \in Set(i - 1)
            /\ \A j \in Set(i - 1) : Earliest(Set(i - 1)) <= j
        BY <1>1, <2>1, <2>2
      <4>2. Set(i) # {}
        BY <2>1, <4>1
      <4>3. Earliest(Set(i)) \in Set(i) /\ \A j \in Set(i) : Earliest(Set(i)) <= j
        BY <1>1, <2>1, <4>2
      <4> HIDE DEF Set
      <4>4. Earliest(Set(i - 1)) \in 1..(i - 1) /\ Earliest(Set(i)) \in 1..i
        BY <4>1, <4>3 DEF Set
      <4>5. Earliest(Set(i)) <= Earliest(Set(i - 1))
        BY <2>1, <4>1, <4>3
      <4>6. Earliest(Set(i)) \in Set(i - 1)
        BY <2>1, <4>3, <4>4, <4>5
      <4> QED
        BY <4>1, <4>2, <4>4, <4>5, <4>6
    <3>2. Current(files[Earliest(Set(i - 1))]) # None
      BY <1>1, <2>1, <2>2
    <3> QED
      BY <2>2, <3>1, <3>2
  <2>3. CASE Set(i - 1) = {} /\ i \in Set(i)
    <3>1. Set(i) # {}
      BY <2>3
    <3>2. Earliest(Set(i)) = i
      BY <1>1, <2>1, <2>3, <3>1
    <3> HIDE DEF Set
    <3> QED
      BY <2>3, <3>1, <3>2
  <2>4. CASE Set(i - 1) = {} /\ i \notin Set(i)
    <3>1. Set(i) = {} /\ Current(files[i]) = None
      BY <2>1, <2>4
    <3> HIDE DEF Set
    <3> QED
      BY <2>4, <3>1
  <2> QED
    BY <2>2, <2>3, <2>4
<1> HIDE DEF Part
<1>4. merge = Fold(merge)
  <2> DEFINE closed == [i \in 0..n |-> Part(i)]
  <2>1. closed = Fold(closed)
    <3>1. \A i \in 1..n : closed[i - 1] = Part(i - 1)
      OBVIOUS
    <3> QED
      BY <1>2, <1>3, <3>1
  <2> QED
    BY <2>1
<1> HIDE DEF merge
<1>5. \A i \in 0..n : merge[i] = Part(i)
  <2> DEFINE bad == {i \in 0..n : merge[i] # Part(i)}
  <2>1. SUFFICES ASSUME bad # {} PROVE FALSE
    OBVIOUS
  <2>2. bad \in SUBSET Nat
    OBVIOUS
  <2>3. PICK i \in bad : \A j \in bad : i <= j
    BY <2>1, <2>2, LeastNumber
  <2>4. i # 0
    BY <1>2, <1>4
  <2>5. i - 1 \in 0..n /\ i - 1 \notin bad
    BY <2>3, <2>4
  <2> QED
    BY <1>3, <1>4, <2>4, <2>5
<1>6. MergedContext(files) = merge[n]
  BY DEF MergedContext, merge
<1>7. CurrentContext(files, None) = Part(n)
  BY DEF CurrentContext, Part
<1> QED
  BY <1>5, <1>6, <1>7

\* Whatever the files and the context asked for, the search of _resolve gives what
\* the merged file gives: the same cluster, user and directory, or the same refusal.
THEOREM ResolveIsMerge ==
  \A files : Len(files) \in Nat => \A requested :
    Resolve(files, requested) = ResolveMerged(files, requested)
<1> SUFFICES ASSUME NEW files, Len(files) \in Nat, NEW requested
             PROVE  Resolve(files, requested) = ResolveMerged(files, requested)
  OBVIOUS
<1> DEFINE name == CurrentContext(files, requested)
           Named(collection, x) == SelectNamed(files, collection, x)
           All(collection) == Merged(files, collection)
           contexts == All("contexts")
           clusters == All("clusters")
           users == All("users")
           picked == files[Named("contexts", name)].contexts[name]
           k == Named("clusters", picked.cluster)
           u == IF picked.user = None THEN k ELSE Named("users", picked.user)
           user == IF picked.user = None THEN {} ELSE files[u].users[picked.user]
           mine == contexts[name].value
           cluster == clusters[mine.cluster]
           owner == IF mine.user = None THEN [file |-> cluster.file, value |-> {}]
                                          ELSE users[mine.user]
           found == name # None /\ Named("contexts", name) # 0 /\ k # 0 /\ u # 0
           defined == /\ name # None /\ name \in DOMAIN contexts
                      /\ mine.cluster \in DOMAIN clusters
                      /\ mine.user \in DOMAIN users \union {None}
<1>1. name = IF requested # None THEN requested ELSE MergedContext(files)
  BY MergedContextIsFirst DEF CurrentContext
<1>2. ASSUME NEW collection
      PROVE  /\ \A x : x \in DOMAIN All(collection) <=> Named(collection, x) # 0
             /\ \A x \in DOMAIN All(collection) :
                  /\ All(collection)[x].file = Named(collection, x)
                  /\ All(collection)[x].value = files[Named(collection, x)][collection][x]
  BY MergedIsFirst
<1>3. Resolve(files, requested) =
        IF found /\ Exclusive(user) /\ Paired(user)
        THEN [error |-> FALSE, cluster |-> <<k, picked.cluster>>, base |-> u, user |-> user]
        ELSE Error
  BY DEF Resolve
<1>4. ResolveMerged(files, requested) =
        IF defined /\ Exclusive(owner.value) /\ Paired(owner.value)
        THEN [error |-> FALSE, cluster |-> <<cluster.file, mine.cluster>>,
              base |-> owner.file, user |-> owner.value]
        ELSE Error
  BY <1>1 DEF ResolveMerged
<1> HIDE DEF name, Named, All
<1>5. Named("contexts", name) # 0 => mine = picked
  BY <1>2
<1>6. CASE Named("contexts", name) = 0
  BY <1>2, <1>3, <1>4, <1>6
<1>7. CASE k = 0
  BY <1>2, <1>3, <1>4, <1>5, <1>7
<1>8. CASE Named("contexts", name) # 0 /\ k # 0
  <2>1. mine = picked /\ cluster.file = k /\ mine.cluster \in DOMAIN clusters
    BY <1>2, <1>5, <1>8
  <2>2. CASE picked.user = None
    <3>1. owner.file = u /\ owner.value = user /\ u = k
      BY <2>1, <2>2
    <3>2. defined <=> found
      BY <1>2, <1>8, <2>1, <2>2, <3>1
    <3>3. mine.cluster = picked.cluster
      BY <2>1
    <3> HIDE DEF defined, found, owner, user, u, cluster, mine, picked, k
    <3> QED
      BY <1>3, <1>4, <2>1, <3>1, <3>2, <3>3
  <2>3. CASE picked.user # None
    <3>1. u = Named("users", picked.user) /\ owner = users[picked.user]
      BY <2>1, <2>3
    <3>2. defined <=> found
      BY <1>2, <1>8, <2>1, <2>3, <3>1
    <3>3. found => owner.file = u /\ owner.value = user
      BY <1>2, <2>3, <3>1
    <3>4. mine.cluster = picked.cluster
      BY <2>1
    <3> HIDE DEF defined, found, owner, user, u, cluster, mine, picked, k
    <3>5. CASE found
      <4>1. owner.file = u /\ owner.value = user /\ cluster.file = k /\ defined
        BY <2>1, <3>2, <3>3, <3>5
      <4> QED
        BY <1>3, <1>4, <3>4, <3>5, <4>1
    <3>6. CASE ~found
      BY <1>3, <1>4, <3>2, <3>6
    <3> QED
      BY <3>5, <3>6
  <2> QED
    BY <2>2, <2>3
<1> QED
  BY <1>6, <1>7, <1>8

\* load_kubeconfig makes of its files what the merged file says.
THEOREM CredentialsResolvesAsMerged == Spec => []ResolvesAsMerged
<1> DEFINE Unread == form = "start" => config \in Configs
<1>1. Init => Unread
  BY DEF Init
<1>2. TypeOK /\ Unread /\ [Next]_vars => Unread'
  <2>1. ASSUME NEW c \in Clients, Request(c) PROVE form' = form /\ form # "start"
    BY <2>1 DEF Request, PluginFails, Token, Certificate, Forms
  <2>2. ASSUME TypeOK, Load PROVE form' # "start"
    <3>1. ASSUME NEW got \in Answers, LoadExec(got) PROVE form' # "start"
      BY <3>1 DEF LoadExec, Answers, Forms
    <3> QED
      BY <2>2, <3>1 DEF Load, LoadError, LoadFails
  <2> QED
    BY <2>1, <2>2 DEF Next, Tick, vars, Forms
<1>3. Unread => ResolvesAsMerged
  BY ResolveIsMerge, CredentialsAssumption DEF ResolvesAsMerged
<1> QED
  BY <1>1, <1>2, <1>3, CredentialsTypeOK, PTL DEF Spec
=============================================================================
