---------------------------- MODULE PkiSetupProofs ----------------------------
(***************************************************************************)
(* Theorems about the PKI commands, for any number of shells, namespaces,  *)
(* certificates, attempts and roots.  What has to be found is what a       *)
(* cleanup that is under way has achieved already: of each resource, the   *)
(* steps that are left tell which deletions are behind it (Behind), and a  *)
(* certificate that comes later is counted as missed.                      *)
(***************************************************************************)
EXTENDS PkiSetup, TLAPS

CreateStep == [op : {"apply", "ready", "secret"}, of : SUBSET Resources]
CleanupStep ==
    [op : {"delete"}, of : SUBSET Resources]
    \cup [op : {"deleteSecret"}, of : SUBSET Certificates]
    \cup [op : {"deletePattern", "deleteSecretPattern"}, of : SUBSET IssuedLeaves]

Job == [command : {"none", "create", "cleanup"}, rest : Seq(CreateStep \cup CleanupStep),
        attempt : 1..MaxRetries, waiting : BOOLEAN, alone : BOOLEAN]

(* What a step deletes.  The one that deletes the operator's certificate   *)
(* settles those of the other namespaces, too: they are absent or missed.  *)
DeletesCert(s, r) ==
    \/ s.op \in {"delete", "deletePattern"} /\ r \in s.of
    \/ s.op = "delete" /\ r \in OperatorCerts /\ s.of \subseteq OperatorCerts

DeletesSecret(s, r) == s.op \in {"deleteSecret", "deleteSecretPattern"} /\ r \in s.of

(* Each secret is deleted after its certificate, the root's at the very end. *)
OrderedAt(steps, i) ==
    /\ steps[i].op \in {"delete", "deletePattern"} =>
          \A r \in Certificates \cap steps[i].of :
              \E j \in (i + 1)..Len(steps) : DeletesSecret(steps[j], r)
    /\ \A j \in (i + 1)..Len(steps) : \A r \in Certificates :
          DeletesSecret(steps[i], r) => ~DeletesCert(steps[j], r)
    /\ DeletesSecret(steps[i], RootCert) => i = Len(steps) /\ steps[i].of = {RootCert}

Ordered(steps) == \A i \in 1..Len(steps) : OrderedAt(steps, i)

(* No step that is left deletes the certificate r, or its secret. *)
CertBehind(steps, r) == \A i \in 1..Len(steps) : ~DeletesCert(steps[i], r)
SecretBehind(steps, r) == \A i \in 1..Len(steps) : ~DeletesSecret(steps[i], r)

(* What a cleanup has achieved when these steps are left: of the leaves, and *)
(* of everything if it is the only command.                                  *)
Behind(steps, alone, stat, secr, miss) ==
    \A r \in Resources \ miss :
        (alone \/ r \in Leaves) /\ CertBehind(steps, r) =>
            /\ stat[r] = "absent"
            /\ r \in Certificates /\ SecretBehind(steps, r) => secr[r] = 0

JobsShaped ==
    /\ jobs \in [Callers -> Job]
    /\ \A c \in Callers :
         /\ jobs[c].rest = <<>> \/ jobs[c].command = "none" => jobs[c] = Idle
         /\ jobs[c].command = "create" => jobs[c].rest \in Seq(CreateStep)
         /\ CleaningUp(c) => jobs[c].rest \in Seq(CleanupStep) /\ Ordered(jobs[c].rest)
         /\ jobs[c].alone => CleaningUp(c) /\ \A d \in Callers \ {c} : jobs[d] = Idle
         /\ cleaned => jobs[c] = Idle

ClusterTyped ==
    /\ status \in [Resources -> {"absent", "new", "ready"}]
    /\ secrets \in [Certificates -> 0..roots]
    /\ caSecret \in 0..roots
    /\ roots \in 0..MaxRoots
    /\ missed \subseteq Leaves
    /\ cleaned \in BOOLEAN

CleanupsGetOn ==
    \A c \in Callers :
        CleaningUp(c) => Behind(jobs[c].rest, jobs[c].alone, status, secrets, missed)

(* Without a root there is no certificate but what was missed. *)
NoLeafWithoutRoot ==
    secrets[RootCert] = 0 => \A l \in Leaves \ missed : secrets[l] = 0

ReadyHasSecret == \A l \in Leaves \ missed : status[l] = "ready" => secrets[l] # 0

PkiInv ==
    /\ JobsShaped
    /\ ClusterTyped
    /\ CleanupsGetOn
    /\ NoLeafWithoutRoot
    /\ ReadyHasSecret
    /\ SignedByTheRoot
    /\ CleanedStaysClean

-----------------------------------------------------------------------------
(* The kinds of resources. *)
LEMMA Kinds ==
    /\ RootCert \in Certificates /\ Leaves \subseteq Certificates
    /\ Certificates \subseteq Resources
    /\ {RootIssuer, CaIssuer, Bundle} \subseteq Resources
    /\ {RootIssuer, CaIssuer, Bundle} \cap Certificates = {}
    /\ RootCert \notin Leaves
    /\ OperatorCerts \cap IssuedLeaves = {}
    /\ Bundle # RootIssuer /\ Bundle # CaIssuer
<1>1. \A l \in IssuedLeaves : l.kind \in {"service", "app", "prometheus"}
  BY PkiAssumption DEF LeafKinds
<1>2. \A l \in OperatorCerts : l.kind = "operator"
  BY DEF OperatorCerts, OperatorCert, Resource
<1>3. /\ RootIssuer.kind = "root-issuer" /\ RootCert.kind = "root-cert"
      /\ CaIssuer.kind = "broker-ca-issuer" /\ Bundle.kind = "bundle"
  BY DEF RootIssuer, RootCert, CaIssuer, Bundle, Resource
<1> QED
  BY <1>1, <1>2, <1>3 DEF Resources, Certificates, Leaves

(* The steps that are left after the first one. *)
LEMMA TailSteps ==
    ASSUME NEW S, NEW s \in Seq(S), s # <<>>
    PROVE  /\ Head(s) = s[1] /\ s[1] \in S
           /\ Tail(s) \in Seq(S)
           /\ Len(s) \in Nat \ {0} /\ Len(Tail(s)) = Len(s) - 1
           /\ \A i \in 1..Len(Tail(s)) : Tail(s)[i] = s[i + 1]
OBVIOUS

(* They are none exactly if there was one step. *)
LEMMA TailEmpty ==
    ASSUME NEW S, NEW s \in Seq(S), s # <<>>
    PROVE  /\ Len(s) > 1 => Tail(s) # <<>>
           /\ ~(Len(s) > 1) => Len(Tail(s)) = 0
<1> DEFINE n == Len(Tail(s))
<1>1. Len(s) \in Nat \ {0} /\ n = Len(s) - 1
  BY TailSteps
<1>2. Tail(s) = <<>> => n = 0
  <2>1. \A t : t = <<>> => Len(t) = 0
    OBVIOUS
  <2> QED
    BY <2>1, Zenon
<1> HIDE DEF n
<1> DEFINE m == Len(s)
<1>3. m \in Nat \ {0} /\ n = m - 1
  BY <1>1
<1> HIDE DEF m
<1>4. (m > 1 => n # 0) /\ (~(m > 1) => n = 0)
  BY <1>3
<1> QED
  BY <1>2, <1>4 DEF m, n

(* What is ordered stays so when its first step is done. *)
LEMMA TailOrdered ==
    ASSUME NEW s \in Seq(CleanupStep), s # <<>>, Ordered(s)
    PROVE  Ordered(Tail(s))
<1> DEFINE t == Tail(s)
<1>1. /\ Len(s) \in Nat \ {0} /\ Len(t) = Len(s) - 1
      /\ \A i \in 1..Len(t) : t[i] = s[i + 1]
  BY TailSteps
<1> HIDE DEF t
<1> SUFFICES ASSUME NEW i \in 1..Len(t)
             PROVE  OrderedAt(t, i)
  BY DEF Ordered, t
<1>2. i + 1 \in 1..Len(s) /\ t[i] = s[i + 1] /\ i \in Int
  BY <1>1
<1>3. OrderedAt(s, i + 1)
  BY <1>2 DEF Ordered
<1>4. ASSUME s[i + 1].op \in {"delete", "deletePattern"}, NEW r \in Certificates \cap s[i + 1].of
      PROVE  \E j \in (i + 1)..Len(t) : DeletesSecret(t[j], r)
  <2>1. PICK k \in ((i + 1) + 1)..Len(s) : DeletesSecret(s[k], r)
    BY <1>3, <1>4 DEF OrderedAt
  <2>2. k - 1 \in (i + 1)..Len(t) /\ t[k - 1] = s[k]
    BY <1>1, <1>2, <2>1
  <2> QED
    BY <2>1, <2>2
<1>5. ASSUME NEW j \in (i + 1)..Len(t), NEW r \in Certificates, DeletesSecret(s[i + 1], r)
      PROVE  ~DeletesCert(t[j], r)
  <2>1. j + 1 \in ((i + 1) + 1)..Len(s) /\ t[j] = s[j + 1]
    BY <1>1, <1>2
  <2> QED
    BY <1>3, <1>5, <2>1 DEF OrderedAt
<1>6. DeletesSecret(s[i + 1], RootCert) => i + 1 = Len(s) /\ s[i + 1].of = {RootCert}
  BY <1>3 DEF OrderedAt
<1>7. i + 1 = Len(s) => i = Len(t)
  BY <1>1, <1>2
<1>8. t[i].op \in {"delete", "deletePattern"} =>
         \A r \in Certificates \cap t[i].of :
             \E j \in (i + 1)..Len(t) : DeletesSecret(t[j], r)
  BY <1>2, <1>4
<1>9. \A j \in (i + 1)..Len(t) : \A r \in Certificates :
         DeletesSecret(t[i], r) => ~DeletesCert(t[j], r)
  BY <1>2, <1>5
<1>10. DeletesSecret(t[i], RootCert) => i = Len(t) /\ t[i].of = {RootCert}
  BY <1>2, <1>6, <1>7
<1> QED
  BY <1>8, <1>9, <1>10 DEF OrderedAt

(* The steps of a new cleanup are ordered, and delete each certificate. *)
LEMMA NewCleanup ==
    ASSUME NEW n \in Namespaces
    PROVE  /\ CleanupSteps(n) \in Seq(CleanupStep) /\ CleanupSteps(n) # <<>>
           /\ Ordered(CleanupSteps(n))
           /\ \A r \in Resources : ~CertBehind(CleanupSteps(n), r)
<1> DEFINE s == CleanupSteps(n)
<1>1. /\ s \in Seq(CleanupStep) /\ s # <<>> /\ Len(s) = 12
  <2>1. /\ {Bundle} \subseteq Resources /\ {RootCert} \subseteq Certificates
        /\ {RootIssuer, CaIssuer} \subseteq Resources /\ {RootCert} \subseteq Resources
        /\ {OperatorCert(n)} \subseteq Certificates /\ {OperatorCert(n)} \subseteq Resources
    BY Kinds DEF OperatorCerts, Leaves
  <2>2. \A kind : LeavesOf(kind) \subseteq IssuedLeaves
    BY DEF LeavesOf
  <2> QED
    BY <2>1, <2>2 DEF CleanupSteps, CleanupStep, Step
<1>2. /\ s[1] = Step("delete", {Bundle})
      /\ s[2] = Step("delete", {OperatorCert(n)})
      /\ s[3] = Step("deleteSecret", {OperatorCert(n)})
      /\ s[4] = Step("deletePattern", LeavesOf("service"))
      /\ s[5] = Step("deleteSecretPattern", LeavesOf("service"))
      /\ s[6] = Step("deletePattern", LeavesOf("app"))
      /\ s[7] = Step("deleteSecretPattern", LeavesOf("app"))
      /\ s[8] = Step("deletePattern", LeavesOf("prometheus"))
      /\ s[9] = Step("deleteSecretPattern", LeavesOf("prometheus"))
      /\ s[10] = Step("delete", {RootIssuer, CaIssuer})
      /\ s[11] = Step("delete", {RootCert})
      /\ s[12] = Step("deleteSecret", {RootCert})
  BY DEF CleanupSteps
<1>3. \A i \in 1..12 : i \in {1, 2, 3, 4, 5, 6, 7, 8, 9, 10, 11, 12}
  OBVIOUS
<1> HIDE DEF s
<1>4. ASSUME NEW i \in 1..12, s[i].op \in {"delete", "deletePattern"},
             NEW r \in Certificates \cap s[i].of
      PROVE  \E j \in (i + 1)..12 : DeletesSecret(s[j], r)
  BY <1>2, <1>3, <1>4, Kinds DEF Step, DeletesSecret
<1>5. ASSUME NEW i \in 1..12, NEW j \in (i + 1)..12, NEW r \in Certificates,
             DeletesSecret(s[i], r)
      PROVE  ~DeletesCert(s[j], r)
  <2>1. \/ i = 3 /\ r.kind = "operator"
        \/ i = 5 /\ r.kind = "service"
        \/ i = 7 /\ r.kind = "app"
        \/ i = 9 /\ r.kind = "prometheus"
        \/ i = 12
    BY <1>2, <1>3, <1>5 DEF Step, DeletesSecret, OperatorCert, LeavesOf, RootCert, Resource
  <2>2. ~({Bundle} \subseteq OperatorCerts) /\ ~({RootCert} \subseteq OperatorCerts)
        /\ ~({RootIssuer, CaIssuer} \subseteq OperatorCerts)
    BY Kinds DEF Leaves, Certificates
  <2>3. \A q \in OperatorCerts : q.kind = "operator"
    BY DEF OperatorCerts, OperatorCert, Resource
  <2>4. /\ RootIssuer.kind = "root-issuer" /\ RootCert.kind = "root-cert"
        /\ CaIssuer.kind = "broker-ca-issuer" /\ OperatorCert(n).kind = "operator"
    BY DEF RootIssuer, RootCert, CaIssuer, OperatorCert, Resource
  <2>5. j \in 4..12 /\ DeletesCert(s[j], r) =>
          \/ j = 4 /\ r.kind = "service"
          \/ j = 6 /\ r.kind = "app"
          \/ j = 8 /\ r.kind = "prometheus"
          \/ j \in {10, 11} /\ r.kind \in {"root-issuer", "root-cert", "broker-ca-issuer"}
    BY <1>2, <1>3, <2>2, <2>3, <2>4 DEF Step, DeletesCert, LeavesOf
  <2> QED
    BY <2>1, <2>5
<1>6. ASSUME NEW i \in 1..12, DeletesSecret(s[i], RootCert)
      PROVE  i = 12 /\ s[i].of = {RootCert}
  BY <1>2, <1>3, <1>6 DEF Step, DeletesSecret, OperatorCert, LeavesOf, RootCert, Resource
<1>7. Ordered(s)
  BY <1>1, <1>4, <1>5, <1>6 DEF Ordered, OrderedAt
<1>8. ASSUME NEW r \in Resources
      PROVE  ~CertBehind(s, r)
  <2>1. r \in IssuedLeaves =>
          r \in LeavesOf("service") \cup LeavesOf("app") \cup LeavesOf("prometheus")
    BY PkiAssumption DEF LeavesOf, LeafKinds
  <2>2. \E i \in 1..12 : DeletesCert(s[i], r)
    <3>1. CASE r \in IssuedLeaves
      BY <1>2, <2>1, <3>1 DEF DeletesCert, Step
    <3>2. CASE r \in OperatorCerts
      <4>1. DeletesCert(s[2], r)
        BY <1>2, <3>2 DEF DeletesCert, Step, OperatorCerts
      <4> QED
        BY <4>1
    <3> QED
      BY <1>2, <3>1, <3>2 DEF DeletesCert, Step, Resources, Certificates, Leaves
  <2> QED
    BY <1>1, <2>2 DEF CertBehind
<1> QED
  BY <1>1, <1>7, <1>8 DEF s

-----------------------------------------------------------------------------
(* What the steps of a command do to the jobs. *)

(* A sequence before another one. *)
LEMMA Joined ==
    ASSUME NEW S, NEW s \in Seq(S), NEW t \in Seq(S), s # <<>>
    PROVE  s \o t \in Seq(S) /\ s \o t # <<>>
<1>1. s \o t \in Seq(S) /\ Len(s \o t) = Len(s) + Len(t)
  OBVIOUS
<1>2. Len(s) \in Nat /\ Len(t) \in Nat /\ Len(s) # 0
  OBVIOUS
<1>3. Len(<<>>) = 0
  OBVIOUS
<1> QED
  BY <1>1, <1>2, <1>3

(* The steps of the commands that create something. *)
LEMMA CreateSteps ==
    /\ \A l \in Leaves : CreateCertificate(l) \in Seq(CreateStep) /\ CreateCertificate(l) # <<>>
    /\ \A n \in Namespaces :
          SetupCompletePKI(n) \in Seq(CreateStep) /\ SetupCompletePKI(n) # <<>>
<1>1. ASSUME NEW r \in Resources
      PROVE  Create(r) \in Seq(CreateStep) /\ Create(r) # <<>>
  BY DEF Create, Step, CreateStep
<1>2. ASSUME NEW l \in Leaves
      PROVE  CreateCertificate(l) \in Seq(CreateStep) /\ CreateCertificate(l) # <<>>
  <2>1. l \in Resources
    BY Kinds
  <2>2. <<Step("secret", {l})>> \in Seq(CreateStep) /\ <<Step("secret", {l})>> # <<>>
    BY <2>1 DEF Step, CreateStep
  <2>3. /\ <<Step("secret", {l})>> \o Create(l) \in Seq(CreateStep)
        /\ <<Step("secret", {l})>> \o Create(l) # <<>>
    BY <1>1, <2>1, <2>2, Joined
  <2> QED
    BY <1>1, <2>1, <2>3 DEF CreateCertificate
<1>3. ASSUME NEW n \in Namespaces
      PROVE  SetupCompletePKI(n) \in Seq(CreateStep) /\ SetupCompletePKI(n) # <<>>
  <2>1. RootIssuer \in Resources /\ RootCert \in Resources /\ CaIssuer \in Resources
        /\ Bundle \in Resources
    BY Kinds
  <2>2. /\ Create(RootIssuer) \o Create(RootCert) \in Seq(CreateStep)
        /\ Create(RootIssuer) \o Create(RootCert) # <<>>
    BY <1>1, <2>1, Joined
  <2>3. CreateClusterInfrastructure \in Seq(CreateStep) /\ CreateClusterInfrastructure # <<>>
    BY <1>1, <2>1, <2>2, Joined DEF CreateClusterInfrastructure
  <2>4. CreateTrustBundle \in Seq(CreateStep)
    BY <1>1, <2>1 DEF CreateTrustBundle
  <2>5. /\ CreateClusterInfrastructure \o CreateTrustBundle \in Seq(CreateStep)
        /\ CreateClusterInfrastructure \o CreateTrustBundle # <<>>
    BY <2>3, <2>4, Joined
  <2>6. OperatorCert(n) \in Leaves
    BY DEF Leaves, OperatorCerts
  <2> QED
    BY <1>2, <2>5, <2>6, Joined DEF SetupCompletePKI
<1> QED
  BY <1>2, <1>3

(* A command that goes on to its next step, or ends well. *)
LEMMA ProceedJobs ==
    ASSUME JobsShaped, NEW c \in Callers, jobs[c].rest # <<>>, Proceed(c)
    PROVE  /\ JobsShaped'
           /\ jobs[c] # Idle
           /\ \A d \in Callers \ {c} : jobs'[d] = jobs[d]
           /\ CleaningUp(c)' => /\ CleaningUp(c) /\ jobs'[c].alone = jobs[c].alone
                                /\ jobs'[c].rest = Tail(jobs[c].rest)
           /\ cleaned' => jobs[c].alone /\ Len(Tail(jobs[c].rest)) = 0
<1> USE DEF JobsShaped
<1>1. jobs[c] \in Job /\ jobs[c] # Idle /\ ~cleaned
  <2>1. Idle.rest = <<>>
    BY DEF Idle
  <2> QED
    BY <2>1
<1>2. 1 \in 1..MaxRetries
  BY PkiAssumption
<1>3. Idle \in Job
  BY <1>2 DEF Idle, Job
<1>4. CASE Len(jobs[c].rest) > 1
  <2> DEFINE new == [jobs[c] EXCEPT !.rest = Tail(jobs[c].rest), !.attempt = 1]
  <2>1. jobs' = [jobs EXCEPT ![c] = new] /\ cleaned' = cleaned
    BY <1>4 DEF Proceed
  <2>2. Tail(jobs[c].rest) \in Seq(CreateStep \cup CleanupStep) /\ Tail(jobs[c].rest) # <<>>
    <3>1. jobs[c].rest \in Seq(CreateStep \cup CleanupStep)
      BY <1>1 DEF Job
    <3> QED
      BY <1>4, <3>1, TailSteps, TailEmpty
  <2>3. new \in Job /\ new.command = jobs[c].command /\ new.alone = jobs[c].alone
        /\ new.rest = Tail(jobs[c].rest)
    BY <1>1, <1>2, <2>2 DEF Job
  <2>4. new.command = "create" => new.rest \in Seq(CreateStep)
    BY <2>3, TailSteps
  <2>5. new.command = "cleanup" => new.rest \in Seq(CleanupStep) /\ Ordered(new.rest)
    BY <2>3, TailSteps, TailOrdered DEF CleaningUp
  <2>6. new.command # "none"
    BY <1>1, <2>3
  <2> HIDE DEF new
  <2>7. jobs'[c] = new /\ \A d \in Callers \ {c} : jobs'[d] = jobs[d]
    BY <2>1
  <2>8. jobs' \in [Callers -> Job]
    BY <2>1, <2>3
  <2>9. \A d \in Callers : ~jobs[d].alone \/ d = c
    BY <1>1
  <2> QED
    BY <1>1, <2>1, <2>2, <2>3, <2>4, <2>5, <2>6, <2>7, <2>8, <2>9 DEF CleaningUp
<1>5. CASE ~(Len(jobs[c].rest) > 1)
  <2>1. jobs' = [jobs EXCEPT ![c] = Idle] /\ cleaned' = jobs[c].alone
    BY <1>5 DEF Proceed
  <2>2. Len(Tail(jobs[c].rest)) = 0
    <3>1. jobs[c].rest \in Seq(CreateStep \cup CleanupStep)
      BY <1>1 DEF Job
    <3> QED
      BY <1>5, <3>1, TailEmpty
  <2>3. jobs'[c] = Idle /\ \A d \in Callers \ {c} : jobs'[d] = jobs[d]
    BY <2>1
  <2>4. jobs' \in [Callers -> Job]
    BY <1>3, <2>1
  <2>5. \A d \in Callers : ~jobs[d].alone \/ d = c
    BY <1>1
  <2> QED
    BY <1>1, <2>1, <2>2, <2>3, <2>4, <2>5 DEF CleaningUp, Idle
<1> QED
  BY <1>4, <1>5

(* A command that stops. *)
LEMMA ExitJobs ==
    ASSUME JobsShaped, NEW c \in Callers, Exit(c), jobs[c] # Idle
    PROVE  /\ JobsShaped' /\ ~cleaned' /\ ~CleaningUp(c)'
           /\ \A d \in Callers \ {c} : jobs'[d] = jobs[d]
<1> USE DEF JobsShaped
<1>1. Idle \in Job
  BY PkiAssumption DEF Idle, Job
<1>2. jobs' = [jobs EXCEPT ![c] = Idle] /\ cleaned' = cleaned
  BY DEF Exit
<1>3. jobs'[c] = Idle /\ \A d \in Callers \ {c} : jobs'[d] = jobs[d]
  BY <1>2
<1>4. jobs' \in [Callers -> Job]
  BY <1>1, <1>2
<1>5. \A d \in Callers : ~jobs[d].alone \/ d = c
  OBVIOUS
<1> QED
  BY <1>2, <1>3, <1>4, <1>5 DEF CleaningUp, Idle

(* A command that waits for a webhook, or has waited. *)
LEMMA WaitingJobs ==
    ASSUME JobsShaped, NEW c \in Callers, jobs[c] # Idle, NEW w \in BOOLEAN,
           NEW a \in 1..MaxRetries,
           jobs' = [jobs EXCEPT ![c] = [@ EXCEPT !.waiting = w, !.attempt = a]],
           cleaned' = cleaned
    PROVE  /\ JobsShaped' /\ ~cleaned'
           /\ \A d \in Callers \ {c} : jobs'[d] = jobs[d]
           /\ CleaningUp(c)' => /\ CleaningUp(c) /\ jobs'[c].alone = jobs[c].alone
                                /\ jobs'[c].rest = jobs[c].rest
<1> USE DEF JobsShaped
<1> DEFINE new == [jobs[c] EXCEPT !.waiting = w, !.attempt = a]
<1>1. /\ new \in Job /\ new.command = jobs[c].command /\ new.alone = jobs[c].alone
      /\ new.rest = jobs[c].rest
  BY DEF Job
<1>2. jobs'[c] = new /\ \A d \in Callers \ {c} : jobs'[d] = jobs[d]
  OBVIOUS
<1>3. jobs' \in [Callers -> Job]
  BY <1>1
<1>4. \A d \in Callers : ~jobs[d].alone \/ d = c
  OBVIOUS
<1>5. new.rest # <<>> /\ new.command # "none"
  BY <1>1
<1> HIDE DEF new
<1> QED
  BY <1>1, <1>2, <1>3, <1>4, <1>5 DEF CleaningUp

(* A command that begins. *)
LEMMA StartJobs ==
    ASSUME JobsShaped, NEW c \in Callers, NEW command \in {"create", "cleanup"},
           NEW steps, steps # <<>>, Start(c, command, steps),
           command = "create" => steps \in Seq(CreateStep),
           command = "cleanup" => steps \in Seq(CleanupStep) /\ Ordered(steps)
    PROVE  /\ JobsShaped' /\ ~cleaned'
           /\ CleaningUp(c)' => command = "cleanup" /\ jobs'[c].rest = steps
           /\ \A d \in Callers \ {c} :
                 /\ CleaningUp(d)' => CleaningUp(d)
                 /\ jobs'[d].rest = jobs[d].rest /\ jobs'[d].alone = FALSE
<1> USE DEF JobsShaped
<1> DEFINE alone == command = "cleanup" /\ \A e \in Callers : jobs[e] = Idle
           new == [Idle EXCEPT !.command = command, !.rest = steps, !.alone = alone]
           quiet(d) == [jobs[d] EXCEPT !.alone = FALSE]
<1>1. /\ jobs[c] = Idle /\ cleaned' = FALSE
      /\ jobs' = [d \in Callers |-> IF d = c THEN new ELSE quiet(d)]
  BY DEF Start
<1>2. alone \in BOOLEAN
  OBVIOUS
<1>3. /\ new.command = command /\ new.rest = steps /\ new.alone = alone
      /\ new \in Job
  <2>1. Idle \in Job
    BY PkiAssumption DEF Idle, Job
  <2>2. steps \in Seq(CreateStep \cup CleanupStep)
    OBVIOUS
  <2> HIDE DEF alone
  <2> QED
    BY <1>2, <2>1, <2>2 DEF Job
<1>4. ASSUME NEW d \in Callers
      PROVE  /\ quiet(d) \in Job /\ quiet(d).alone = FALSE
             /\ quiet(d).command = jobs[d].command /\ quiet(d).rest = jobs[d].rest
             /\ jobs[d] = Idle => quiet(d) = Idle
  <2>1. jobs[d] \in Job
    OBVIOUS
  <2>2. /\ quiet(d) \in Job /\ quiet(d).alone = FALSE
        /\ quiet(d).command = jobs[d].command /\ quiet(d).rest = jobs[d].rest
    BY <2>1 DEF Job
  <2>3. ~jobs[d].alone => quiet(d) = jobs[d]
    BY <2>1 DEF Job
  <2>4. ~Idle.alone
    BY DEF Idle
  <2> QED
    BY <2>2, <2>3, <2>4
<1>5. alone => \A d \in Callers : jobs[d] = Idle
  OBVIOUS
<1> HIDE DEF new, quiet, alone
<1>6. jobs' \in [Callers -> Job]
  BY <1>1, <1>3, <1>4
<1>7. jobs'[c] = new /\ \A d \in Callers \ {c} : jobs'[d] = quiet(d)
  BY <1>1
<1>8. alone => command = "cleanup"
  BY DEF alone
<1>9. ASSUME NEW d \in Callers
      PROVE  /\ jobs'[d].rest = <<>> \/ jobs'[d].command = "none" => jobs'[d] = Idle
             /\ jobs'[d].command = "create" => jobs'[d].rest \in Seq(CreateStep)
             /\ CleaningUp(d)' => jobs'[d].rest \in Seq(CleanupStep) /\ Ordered(jobs'[d].rest)
             /\ jobs'[d].alone => CleaningUp(d)' /\ \A e \in Callers \ {d} : jobs'[e] = Idle
  <2>1. CASE d = c
    BY <1>3, <1>4, <1>5, <1>7, <1>8, <2>1 DEF CleaningUp
  <2>2. CASE d # c
    BY <1>4, <1>7, <2>2 DEF CleaningUp
  <2> QED
    BY <2>1, <2>2
<1> QED
  BY <1>1, <1>3, <1>4, <1>6, <1>7, <1>9 DEF CleaningUp

-----------------------------------------------------------------------------
(* What the steps do to the cluster, for the cleanups under way. *)

(* What a cleanup has dealt with stays away. *)
Keeps(r) ==
    r \notin missed' =>
        \/ /\ r \notin missed
           /\ status[r] = "absent" => status'[r] = "absent"
           /\ r \in Certificates /\ status[r] = "absent" /\ secrets[r] = 0 => secrets'[r] = 0
        \/ status'[r] = "absent" /\ (r \in Certificates => secrets'[r] = 0)

LEMMA BehindStays ==
    ASSUME NEW steps, NEW alone \in BOOLEAN,
           Behind(steps, alone, status, secrets, missed),
           \A r \in Resources : alone \/ r \in Leaves => Keeps(r)
    PROVE  Behind(steps, alone, status', secrets', missed')
<1> SUFFICES ASSUME NEW r \in Resources \ missed', alone \/ r \in Leaves, CertBehind(steps, r)
             PROVE  /\ status'[r] = "absent"
                    /\ r \in Certificates /\ SecretBehind(steps, r) => secrets'[r] = 0
  BY DEF Behind
<1>1. Keeps(r)
  OBVIOUS
<1>2. r \notin missed => /\ status[r] = "absent"
                         /\ r \in Certificates /\ SecretBehind(steps, r) => secrets[r] = 0
  BY DEF Behind
<1> QED
  BY <1>1, <1>2 DEF Keeps

(* The cleanups get on when one command does a step that keeps what the others *)
(* have dealt with, and its own part is shown.                                 *)
LEMMA GetOn ==
    ASSUME JobsShaped, CleanupsGetOn, NEW c \in Callers, jobs[c] # Idle,
           \A d \in Callers \ {c} : jobs'[d] = jobs[d],
           (\E d \in Callers : CleaningUp(d)) => \A r \in Leaves : Keeps(r),
           CleaningUp(c)' =>
               Behind(jobs'[c].rest, jobs'[c].alone, status', secrets', missed')
    PROVE  CleanupsGetOn'
<1>1. ASSUME NEW d \in Callers, d # c, CleaningUp(d)'
      PROVE  Behind(jobs'[d].rest, jobs'[d].alone, status', secrets', missed')
  <2>1. CleaningUp(d) /\ jobs'[d] = jobs[d]
    BY <1>1 DEF CleaningUp
  <2>2. jobs[d].alone = FALSE
    BY <1>1 DEF JobsShaped, Job
  <2>3. Behind(jobs[d].rest, FALSE, status, secrets, missed)
    BY <2>1, <2>2 DEF CleanupsGetOn
  <2>4. \A r \in Resources : FALSE \/ r \in Leaves => Keeps(r)
    BY <2>1
  <2>5. Behind(jobs[d].rest, FALSE, status', secrets', missed')
    BY <2>3, <2>4, BehindStays
  <2> QED
    BY <2>1, <2>2, <2>5
<1> QED
  BY <1>1 DEF CleanupsGetOn

(* A cleanup goes on: what its first step was to delete is gone or missed. *)
LEMMA BehindNext ==
    ASSUME NEW steps \in Seq(CleanupStep), steps # <<>>, Ordered(steps),
           NEW alone \in BOOLEAN, Behind(steps, alone, status, secrets, missed),
           \A r \in Resources : alone \/ r \in Leaves => Keeps(r),
           \A r \in Resources \ missed' :
               /\ DeletesCert(steps[1], r) =>
                     /\ status'[r] = "absent"
                     /\ r \in Certificates \ steps[1].of => secrets'[r] = 0
               /\ DeletesSecret(steps[1], r) => secrets'[r] = 0
    PROVE  Behind(Tail(steps), alone, status', secrets', missed')
<1> DEFINE rest == Tail(steps)
<1>1. /\ Len(steps) \in Nat \ {0} /\ Len(rest) = Len(steps) - 1
      /\ \A i \in 1..Len(rest) : rest[i] = steps[i + 1]
  BY TailSteps
<1> HIDE DEF rest
<1>2. \A j \in 2..Len(steps) : j - 1 \in 1..Len(rest) /\ rest[j - 1] = steps[j]
  BY <1>1
<1>3. \A r : CertBehind(rest, r) /\ ~DeletesCert(steps[1], r) => CertBehind(steps, r)
  BY <1>1, <1>2 DEF CertBehind
<1>4. \A r : SecretBehind(rest, r) /\ ~DeletesSecret(steps[1], r) => SecretBehind(steps, r)
  BY <1>1, <1>2 DEF SecretBehind
<1>5. ASSUME NEW r \in Certificates, DeletesCert(steps[1], r), r \in steps[1].of
      PROVE  ~SecretBehind(rest, r)
  <2>1. OrderedAt(steps, 1) /\ steps[1].op \in {"delete", "deletePattern"}
    BY <1>1, <1>5 DEF Ordered, DeletesCert
  <2>2. PICK j \in 2..Len(steps) : DeletesSecret(steps[j], r)
    BY <1>5, <2>1 DEF OrderedAt
  <2> QED
    BY <1>2, <2>2 DEF SecretBehind
<1> SUFFICES ASSUME NEW r \in Resources \ missed', alone \/ r \in Leaves, CertBehind(rest, r)
             PROVE  /\ status'[r] = "absent"
                    /\ r \in Certificates /\ SecretBehind(rest, r) => secrets'[r] = 0
  BY DEF Behind, rest
<1>6. CASE DeletesCert(steps[1], r)
  BY <1>5, <1>6
<1>7. CASE ~DeletesCert(steps[1], r)
  <2>1. CertBehind(steps, r)
    BY <1>3, <1>7
  <2>2. r \notin missed =>
            /\ status[r] = "absent"
            /\ r \in Certificates /\ SecretBehind(steps, r) => secrets[r] = 0
    BY <2>1 DEF Behind
  <2>3. Keeps(r)
    OBVIOUS
  <2>4. CASE DeletesSecret(steps[1], r)
    BY <2>2, <2>3, <2>4 DEF Keeps
  <2>5. CASE ~DeletesSecret(steps[1], r)
    BY <1>4, <2>2, <2>3, <2>5 DEF Keeps
  <2> QED
    BY <2>4, <2>5
<1> QED
  BY <1>6, <1>7

(* Whose secret is about to be deleted, its certificate is gone; with the *)
(* root's, all are.                                                       *)
LEMMA HeadSecret ==
    ASSUME ClusterTyped, NEW steps \in Seq(CleanupStep), steps # <<>>, Ordered(steps),
           NEW alone \in BOOLEAN, Behind(steps, alone, status, secrets, missed)
    PROVE  /\ \A l \in Leaves \ missed :
                 DeletesSecret(steps[1], l) => status[l] = "absent"
           /\ DeletesSecret(steps[1], RootCert) =>
                 /\ steps[1].of = {RootCert}
                 /\ \A l \in Leaves \ missed : secrets[l] = 0
<1>1. Len(steps) \in Nat \ {0} /\ OrderedAt(steps, 1)
  BY TailSteps DEF Ordered
<1>2. ASSUME NEW r \in Certificates, DeletesSecret(steps[1], r)
      PROVE  CertBehind(steps, r)
  <2>1. ~DeletesCert(steps[1], r)
    BY <1>2 DEF DeletesSecret, DeletesCert
  <2>2. \A j \in 2..Len(steps) : ~DeletesCert(steps[j], r)
    BY <1>1, <1>2 DEF OrderedAt
  <2> QED
    BY <1>1, <2>1, <2>2 DEF CertBehind
<1>3. ASSUME NEW l \in Leaves \ missed, DeletesSecret(steps[1], l)
      PROVE  status[l] = "absent"
  BY <1>2, <1>3, Kinds DEF Behind
<1>4. ASSUME DeletesSecret(steps[1], RootCert)
      PROVE  steps[1].of = {RootCert} /\ \A l \in Leaves \ missed : secrets[l] = 0
  <2>1. Len(steps) = 1 /\ steps[1].of = {RootCert}
    BY <1>1, <1>4 DEF OrderedAt
  <2>2. \A l \in Leaves : CertBehind(steps, l) /\ SecretBehind(steps, l)
    <3>1. \A l \in Leaves : ~DeletesCert(steps[1], l) /\ ~DeletesSecret(steps[1], l)
      BY <1>4, <2>1, Kinds DEF DeletesSecret, DeletesCert
    <3>2. \A i \in 1..1 : i = 1
      OBVIOUS
    <3> QED
      BY <2>1, <3>1, <3>2 DEF CertBehind, SecretBehind
  <2> QED
    BY <2>1, <2>2, Kinds DEF Behind
<1> QED
  BY <1>3, <1>4

-----------------------------------------------------------------------------
(* The steps of the commands. *)

(* Which commands a step belongs to. *)
LEMMA CreateDoes ==
    ASSUME JobsShaped, NEW c \in Callers, NEW op \in {"apply", "ready", "secret"}, Doing(c, op)
    PROVE  /\ jobs[c] # Idle /\ jobs[c].rest # <<>> /\ ~CleaningUp(c) /\ ~jobs[c].alone
           /\ Of(c) \subseteq Resources
<1>1. jobs[c] \in Job /\ jobs[c].rest # <<>> /\ Head(jobs[c].rest).op = op
  BY DEF JobsShaped, Doing
<1>2. jobs[c] # Idle
  <2>1. Idle.rest = <<>>
    BY DEF Idle
  <2> QED
    BY <1>1, <2>1
<1>3. ~CleaningUp(c)
  <2>1. ASSUME CleaningUp(c)
        PROVE  FALSE
    <3>1. jobs[c].rest \in Seq(CleanupStep)
      BY <2>1 DEF JobsShaped
    <3>2. Head(jobs[c].rest) \in CleanupStep
      BY <1>1, <3>1, TailSteps
    <3> QED
      BY <1>1, <3>2 DEF CleanupStep
  <2> QED
    BY <2>1
<1>4. jobs[c].command = "create"
  BY <1>1, <1>2, <1>3 DEF Job, CleaningUp, JobsShaped
<1>5. Head(jobs[c].rest) \in CreateStep
  BY <1>1, <1>4, TailSteps DEF JobsShaped
<1> QED
  BY <1>1, <1>2, <1>3, <1>5 DEF JobsShaped, CreateStep, Of

(* The same of the deletions. *)
LEMMA CleanupDoes ==
    ASSUME JobsShaped, NEW c \in Callers,
           NEW op \in {"delete", "deleteSecret", "deletePattern", "deleteSecretPattern"},
           Doing(c, op)
    PROVE  /\ CleaningUp(c) /\ jobs[c] # Idle /\ jobs[c].alone \in BOOLEAN
           /\ jobs[c].rest \in Seq(CleanupStep) /\ jobs[c].rest # <<>> /\ Ordered(jobs[c].rest)
           /\ jobs[c].rest[1].op = op /\ jobs[c].rest[1].of = Of(c)
           /\ Of(c) \subseteq Resources
           /\ op \in {"deleteSecret", "deletePattern", "deleteSecretPattern"} =>
                 Of(c) \subseteq Certificates
           /\ op \in {"deletePattern", "deleteSecretPattern"} => Of(c) \subseteq Leaves
<1>1. /\ jobs[c] \in Job /\ jobs[c].rest # <<>> /\ Head(jobs[c].rest).op = op
  BY DEF JobsShaped, Doing
<1>2. jobs[c] # Idle
  <2>1. Idle.rest = <<>>
    BY DEF Idle
  <2> QED
    BY <1>1, <2>1
<1>3. jobs[c].command # "create"
  <2>1. ASSUME jobs[c].command = "create"
        PROVE  FALSE
    <3>1. jobs[c].rest \in Seq(CreateStep)
      BY <2>1 DEF JobsShaped
    <3>2. Head(jobs[c].rest) \in CreateStep
      BY <1>1, <3>1, TailSteps
    <3> QED
      BY <1>1, <3>2 DEF CreateStep
  <2> QED
    BY <2>1
<1>4. CleaningUp(c)
  BY <1>1, <1>2, <1>3 DEF Job, CleaningUp, JobsShaped
<1>5. jobs[c].rest \in Seq(CleanupStep) /\ Ordered(jobs[c].rest)
  BY <1>4 DEF JobsShaped
<1>6. Head(jobs[c].rest) = jobs[c].rest[1] /\ Head(jobs[c].rest) \in CleanupStep
  BY <1>1, <1>5, TailSteps
<1>7. /\ Of(c) \subseteq Resources
      /\ op \in {"deleteSecret", "deletePattern", "deleteSecretPattern"} =>
            Of(c) \subseteq Certificates
      /\ op \in {"deletePattern", "deleteSecretPattern"} => Of(c) \subseteq Leaves
  BY <1>1, <1>6, Kinds DEF CleanupStep, Of, Leaves
<1>8. jobs[c].alone \in BOOLEAN
  BY <1>1 DEF Job
<1> QED
  BY <1>1, <1>2, <1>4, <1>5, <1>6, <1>7, <1>8 DEF Of

(* A step that only the command itself notices. *)
LEMMA OnlyTheJob ==
    ASSUME PkiInv, NEW c \in Callers, jobs[c] # Idle,
           JobsShaped', \A d \in Callers \ {c} : jobs'[d] = jobs[d],
           CleaningUp(c)' => /\ CleaningUp(c) /\ jobs'[c].alone = jobs[c].alone
                             /\ jobs'[c].rest = jobs[c].rest,
           ~cleaned', cleaned' \in BOOLEAN,
           UNCHANGED <<cluster, missed>>
    PROVE  PkiInv'
<1>1. UNCHANGED <<status, secrets, caSecret, roots, missed>>
  BY DEF cluster
<1>2. ClusterTyped'
  BY <1>1 DEF PkiInv, ClusterTyped
<1>3. CleanupsGetOn'
  <2>1. \A r \in Leaves : Keeps(r)
    BY <1>1 DEF Keeps
  <2>2. CleaningUp(c)' => Behind(jobs'[c].rest, jobs'[c].alone, status', secrets', missed')
    BY <1>1 DEF PkiInv, CleanupsGetOn
  <2> QED
    BY <2>1, <2>2, GetOn DEF PkiInv
<1>4. NoLeafWithoutRoot' /\ ReadyHasSecret' /\ SignedByTheRoot' /\ CleanedStaysClean'
  BY <1>1 DEF PkiInv, NoLeafWithoutRoot, ReadyHasSecret, SignedByTheRoot, CleanedStaysClean
<1> QED
  BY <1>2, <1>3, <1>4 DEF PkiInv

(* kubectl apply, whatever becomes of the command. *)
LEMMA AppliedStep ==
    ASSUME PkiInv, NEW c \in Callers, jobs[c] # Idle, NEW r \in Resources, Applied(c, r),
           JobsShaped', \A d \in Callers \ {c} : jobs'[d] = jobs[d], ~CleaningUp(c)',
           ~cleaned', cleaned' \in BOOLEAN
    PROVE  PkiInv'
<1>1. /\ status' = [status EXCEPT ![r] = IF status[r] = "absent" THEN "new" ELSE status[r]]
      /\ UNCHANGED <<secrets, caSecret, roots>>
      /\ missed \subseteq missed' /\ missed' \subseteq missed \cup {r}
      /\ r \in Leaves /\ (\E d \in Callers : CleaningUp(d)) => r \in missed'
      /\ missed' \subseteq Leaves
  BY DEF Applied, PkiInv, ClusterTyped
<1>2. ClusterTyped'
  BY <1>1 DEF PkiInv, ClusterTyped
<1>3. CleanupsGetOn'
  <2>1. (\E d \in Callers : CleaningUp(d)) => \A q \in Leaves : Keeps(q)
    BY <1>1, Kinds DEF Keeps, PkiInv, ClusterTyped
  <2> QED
    BY <2>1, GetOn DEF PkiInv
<1>4. NoLeafWithoutRoot' /\ SignedByTheRoot' /\ CleanedStaysClean'
  BY <1>1 DEF PkiInv, NoLeafWithoutRoot, SignedByTheRoot, CleanedStaysClean
<1>5. ReadyHasSecret'
  BY <1>1, Kinds DEF PkiInv, ClusterTyped, ReadyHasSecret
<1> QED
  BY <1>2, <1>3, <1>4, <1>5 DEF PkiInv

(* A deletion of certificates or other resources, of all or some of them. *)
LEMMA RemovalStep ==
    ASSUME PkiInv, NEW c \in Callers, CleaningUp(c), jobs[c] # Idle,
           jobs[c].rest \in Seq(CleanupStep), jobs[c].rest # <<>>, Ordered(jobs[c].rest),
           jobs[c].alone \in BOOLEAN,
           jobs[c].rest[1].op \in {"delete", "deletePattern"},
           NEW gone,
           status' = [r \in Resources |-> IF r \in gone THEN "absent" ELSE status[r]],
           UNCHANGED <<secrets, caSecret, roots>>,
           missed \subseteq missed', missed' \subseteq Leaves,
           \A r \in Resources \ missed' :
               DeletesCert(jobs[c].rest[1], r) =>
                   /\ status'[r] = "absent"
                   /\ r \in Certificates \ jobs[c].rest[1].of => secrets[r] = 0,
           Proceed(c)
    PROVE  PkiInv'
<1>1. /\ JobsShaped'
      /\ \A d \in Callers \ {c} : jobs'[d] = jobs[d]
      /\ CleaningUp(c)' => /\ jobs'[c].alone = jobs[c].alone
                           /\ jobs'[c].rest = Tail(jobs[c].rest)
      /\ cleaned' => jobs[c].alone /\ Len(Tail(jobs[c].rest)) = 0
      /\ cleaned' \in BOOLEAN
  <2>1. cleaned' \in BOOLEAN
    BY DEF Proceed, PkiInv, ClusterTyped
  <2> QED
    BY <2>1, ProceedJobs DEF PkiInv
<1>2. \A r \in Resources : Keeps(r)
  BY DEF Keeps
<1>3. Behind(Tail(jobs[c].rest), jobs[c].alone, status', secrets', missed')
  <2>1. Behind(jobs[c].rest, jobs[c].alone, status, secrets, missed)
    BY DEF PkiInv, CleanupsGetOn
  <2>2. \A r : ~DeletesSecret(jobs[c].rest[1], r)
    BY DEF DeletesSecret
  <2> QED
    BY <1>2, <2>1, <2>2, BehindNext
<1>4. ClusterTyped'
  BY <1>1 DEF PkiInv, ClusterTyped
<1>5. CleanupsGetOn'
  BY <1>1, <1>2, <1>3, Kinds, GetOn DEF PkiInv
<1>6. NoLeafWithoutRoot' /\ SignedByTheRoot'
  BY DEF PkiInv, NoLeafWithoutRoot, SignedByTheRoot
<1>7. ReadyHasSecret'
  BY Kinds DEF PkiInv, ReadyHasSecret
<1>8. CleanedStaysClean'
  <2>1. ASSUME cleaned'
        PROVE  \A r \in Resources \ missed' :
                   status'[r] = "absent" /\ (r \in Certificates => secrets'[r] = 0)
    <3>1. \A r : CertBehind(Tail(jobs[c].rest), r) /\ SecretBehind(Tail(jobs[c].rest), r)
      BY <1>1, <2>1 DEF CertBehind, SecretBehind
    <3> QED
      BY <1>1, <1>3, <2>1, <3>1 DEF Behind
  <2> QED
    BY <2>1 DEF CleanedStaysClean
<1> QED
  BY <1>1, <1>4, <1>5, <1>6, <1>7, <1>8 DEF PkiInv

(* A deletion of secrets, of all or some of them. *)
LEMMA SecretRemovalStep ==
    ASSUME PkiInv, NEW c \in Callers, CleaningUp(c), jobs[c] # Idle,
           jobs[c].rest \in Seq(CleanupStep), jobs[c].rest # <<>>, Ordered(jobs[c].rest),
           jobs[c].alone \in BOOLEAN,
           jobs[c].rest[1].op \in {"deleteSecret", "deleteSecretPattern"},
           NEW gone, gone \subseteq jobs[c].rest[1].of,
           secrets' = [r \in Certificates |-> IF r \in gone THEN 0 ELSE secrets[r]],
           UNCHANGED <<status, caSecret, roots>>,
           missed' \subseteq Leaves,
           \A r \in missed \ missed' : r \in gone /\ status[r] = "absent",
           \A r \in Resources \ missed' :
               DeletesSecret(jobs[c].rest[1], r) => secrets'[r] = 0,
           Proceed(c)
    PROVE  PkiInv'
<1>1. /\ JobsShaped'
      /\ \A d \in Callers \ {c} : jobs'[d] = jobs[d]
      /\ CleaningUp(c)' => /\ jobs'[c].alone = jobs[c].alone
                           /\ jobs'[c].rest = Tail(jobs[c].rest)
      /\ cleaned' => jobs[c].alone /\ Len(Tail(jobs[c].rest)) = 0
      /\ cleaned' \in BOOLEAN
  <2>1. cleaned' \in BOOLEAN
    BY DEF Proceed, PkiInv, ClusterTyped
  <2> QED
    BY <2>1, ProceedJobs DEF PkiInv
<1>2. \A r \in Certificates :
          /\ secrets'[r] \in {0, secrets[r]}
          /\ r \in gone => secrets'[r] = 0
          /\ r \notin gone => secrets'[r] = secrets[r]
  OBVIOUS
<1>3. \A r \in Resources : Keeps(r)
  BY <1>2 DEF Keeps
<1>4. Behind(jobs[c].rest, jobs[c].alone, status, secrets, missed)
  BY DEF PkiInv, CleanupsGetOn
<1>5. Behind(Tail(jobs[c].rest), jobs[c].alone, status', secrets', missed')
  <2>1. \A r : ~DeletesCert(jobs[c].rest[1], r)
    BY DEF DeletesCert
  <2> QED
    BY <1>3, <1>4, <2>1, BehindNext
<1>6. /\ \A l \in Leaves \ missed :
            DeletesSecret(jobs[c].rest[1], l) => status[l] = "absent"
      /\ DeletesSecret(jobs[c].rest[1], RootCert) =>
            /\ jobs[c].rest[1].of = {RootCert}
            /\ \A l \in Leaves \ missed : secrets[l] = 0
  BY <1>4, HeadSecret DEF PkiInv
<1>7. \A r : r \in gone => DeletesSecret(jobs[c].rest[1], r)
  BY DEF DeletesSecret
<1>8. ClusterTyped'
  <2>1. secrets' \in [Certificates -> 0..roots]
    BY DEF PkiInv, ClusterTyped
  <2> QED
    BY <1>1, <2>1 DEF PkiInv, ClusterTyped
<1>9. CleanupsGetOn'
  BY <1>1, <1>3, <1>5, Kinds, GetOn DEF PkiInv
<1>10. \A l \in Leaves \ missed' : l \in missed => secrets'[l] = 0
  BY <1>2, Kinds
<1>11. NoLeafWithoutRoot'
  <2>1. CASE RootCert \in gone
    BY <1>2, <1>6, <1>7, <1>10, <2>1, Kinds DEF NoLeafWithoutRoot
  <2>2. CASE RootCert \notin gone
    BY <1>2, <1>10, <2>2, Kinds DEF PkiInv, NoLeafWithoutRoot
  <2> QED
    BY <2>1, <2>2
<1>12. ReadyHasSecret'
  BY <1>2, <1>6, <1>7, Kinds DEF PkiInv, ReadyHasSecret
<1>13. SignedByTheRoot'
  BY <1>2, <1>10, Kinds DEF PkiInv, SignedByTheRoot
<1>14. CleanedStaysClean'
  <2>1. ASSUME cleaned'
        PROVE  \A r \in Resources \ missed' :
                   status'[r] = "absent" /\ (r \in Certificates => secrets'[r] = 0)
    <3>1. \A r : CertBehind(Tail(jobs[c].rest), r) /\ SecretBehind(Tail(jobs[c].rest), r)
      BY <1>1, <2>1 DEF CertBehind, SecretBehind
    <3> QED
      BY <1>1, <1>5, <2>1, <3>1 DEF Behind
  <2> QED
    BY <2>1 DEF CleanedStaysClean
<1> QED
  BY <1>1, <1>8, <1>9, <1>11, <1>12, <1>13, <1>14 DEF PkiInv

(* A new command. *)
LEMMA StartStep ==
    ASSUME PkiInv, NEW c \in Callers, NEW command \in {"create", "cleanup"},
           NEW steps, steps # <<>>, Start(c, command, steps),
           command = "create" => steps \in Seq(CreateStep),
           command = "cleanup" => /\ steps \in Seq(CleanupStep) /\ Ordered(steps)
                                  /\ \A r \in Resources : ~CertBehind(steps, r)
    PROVE  PkiInv'
<1>1. /\ JobsShaped' /\ ~cleaned'
      /\ CleaningUp(c)' => command = "cleanup" /\ jobs'[c].rest = steps
      /\ \A d \in Callers \ {c} :
            /\ CleaningUp(d)' => CleaningUp(d)
            /\ jobs'[d].rest = jobs[d].rest /\ jobs'[d].alone = FALSE
  BY StartJobs DEF PkiInv
<1>2. UNCHANGED <<status, secrets, caSecret, roots, missed>> /\ cleaned' \in BOOLEAN
  BY DEF Start, cluster
<1>3. ClusterTyped'
  BY <1>2 DEF PkiInv, ClusterTyped
<1>4. CleanupsGetOn'
  <2>1. CleaningUp(c)' => Behind(jobs'[c].rest, jobs'[c].alone, status', secrets', missed')
    BY <1>1 DEF Behind
  <2>2. ASSUME NEW d \in Callers \ {c}, CleaningUp(d)'
        PROVE  Behind(jobs'[d].rest, jobs'[d].alone, status', secrets', missed')
    BY <1>1, <1>2, <2>2 DEF PkiInv, CleanupsGetOn, Behind
  <2> QED
    BY <2>1, <2>2 DEF CleanupsGetOn
<1>5. NoLeafWithoutRoot' /\ ReadyHasSecret' /\ SignedByTheRoot' /\ CleanedStaysClean'
  BY <1>1, <1>2
  DEF PkiInv, NoLeafWithoutRoot, ReadyHasSecret, SignedByTheRoot, CleanedStaysClean
<1> QED
  BY <1>1, <1>3, <1>4, <1>5 DEF PkiInv

(* The ways a command begins. *)
LEMMA Starts ==
    ASSUME PkiInv, NEW c \in Callers, Setup(c) \/ Cleanup(c) \/ CreateLeaf(c)
    PROVE  PkiInv'
<1>1. CASE Setup(c)
  BY <1>1, StartStep, CreateSteps DEF Setup
<1>2. CASE Cleanup(c)
  BY <1>2, StartStep, NewCleanup DEF Cleanup
<1>3. CASE CreateLeaf(c)
  BY <1>3, StartStep, CreateSteps DEF CreateLeaf, Leaves
<1> QED
  BY <1>1, <1>2, <1>3

(* The steps of the creating commands. *)
LEMMA CreationSteps ==
    ASSUME PkiInv, NEW c \in Callers,
           \/ ApplyYaml(c) \/ ApplyRefused(c) \/ ApplyFails(c) \/ WebhookAvailable(c)
           \/ SeesReady(c) \/ SeesSecret(c) \/ TimesOut(c) \/ Interrupt(c)
    PROVE  PkiInv'
<1>1. JobsShaped /\ cleaned \in BOOLEAN /\ (jobs[c] # Idle => ~cleaned)
      /\ jobs[c] \in Job
  BY DEF PkiInv, JobsShaped, ClusterTyped
<1>2. ASSUME NEW op \in {"apply", "ready", "secret"}, Doing(c, op), Proceed(c)
      PROVE  /\ JobsShaped' /\ ~CleaningUp(c)' /\ ~cleaned' /\ cleaned' \in BOOLEAN
             /\ \A d \in Callers \ {c} : jobs'[d] = jobs[d]
  <2>1. /\ jobs[c] # Idle /\ jobs[c].rest # <<>> /\ ~CleaningUp(c) /\ ~jobs[c].alone
    BY <1>1, <1>2, CreateDoes
  <2>2. /\ JobsShaped' /\ ~CleaningUp(c)' /\ ~cleaned'
        /\ \A d \in Callers \ {c} : jobs'[d] = jobs[d]
    BY <1>1, <1>2, <2>1, ProceedJobs
  <2>3. cleaned' \in BOOLEAN
    BY <1>1, <1>2 DEF Proceed, Job
  <2> QED
    BY <2>2, <2>3
<1>3. ASSUME jobs[c] # Idle, Exit(c)
      PROVE  /\ JobsShaped' /\ ~CleaningUp(c)' /\ ~cleaned' /\ cleaned' \in BOOLEAN
             /\ \A d \in Callers \ {c} : jobs'[d] = jobs[d]
  BY <1>1, <1>3, ExitJobs DEF Exit
<1>4. ASSUME NEW r, NEW refused \in BOOLEAN, Doing(c, "apply"), RetryOrThrow(c, r, refused)
      PROVE  /\ JobsShaped' /\ ~CleaningUp(c)' /\ ~cleaned' /\ cleaned' \in BOOLEAN
             /\ \A d \in Callers \ {c} : jobs'[d] = jobs[d]
  <2>1. jobs[c] # Idle /\ ~CleaningUp(c)
    BY <1>1, <1>4, CreateDoes
  <2>2. CASE Exit(c)
    BY <1>3, <2>1, <2>2
  <2>3. CASE /\ jobs[c].attempt < MaxRetries
             /\ jobs' = [jobs EXCEPT ![c].waiting = TRUE, ![c].attempt = @ + 1]
             /\ UNCHANGED cleaned
    <3>1. jobs[c].attempt + 1 \in 1..MaxRetries
      BY <1>1, <2>3, PkiAssumption DEF Job
    <3>2. jobs' = [jobs EXCEPT ![c] = [@ EXCEPT !.waiting = TRUE,
                                              !.attempt = jobs[c].attempt + 1]]
      BY <1>1, <2>3 DEF JobsShaped, Job
    <3> QED
      BY <1>1, <2>1, <2>3, <3>1, <3>2, WaitingJobs
  <2> QED
    BY <1>4, <2>2, <2>3 DEF RetryOrThrow
<1>5. CASE ApplyYaml(c)
  <2>1. PICK r \in Of(c) : Applied(c, r)
    BY <1>5 DEF ApplyYaml
  <2>2. r \in Resources /\ jobs[c] # Idle
    BY <1>1, <1>5, CreateDoes DEF ApplyYaml
  <2> QED
    BY <1>2, <1>5, <2>1, <2>2, AppliedStep DEF ApplyYaml
<1>6. CASE ApplyRefused(c)
  <2>1. jobs[c] # Idle
    BY <1>1, <1>6, CreateDoes DEF ApplyRefused
  <2> QED
    BY <1>4, <1>6, <2>1, OnlyTheJob DEF ApplyRefused
<1>7. CASE ApplyFails(c)
  <2>1. PICK r \in Of(c) : /\ RetryOrThrow(c, r, FALSE)
                           /\ Applied(c, r) \/ UNCHANGED <<cluster, missed>>
    BY <1>7 DEF ApplyFails
  <2>2. r \in Resources /\ jobs[c] # Idle
    BY <1>1, <1>7, CreateDoes DEF ApplyFails
  <2>3. CASE Applied(c, r)
    BY <1>4, <1>7, <2>1, <2>2, <2>3, AppliedStep DEF ApplyFails
  <2>4. CASE UNCHANGED <<cluster, missed>>
    BY <1>4, <1>7, <2>1, <2>2, <2>4, OnlyTheJob DEF ApplyFails
  <2> QED
    BY <2>1, <2>3, <2>4
<1>8. CASE WebhookAvailable(c)
  <2>1. jobs[c] # Idle
    BY <1>8 DEF WebhookAvailable, Idle
  <2>2. jobs' = [jobs EXCEPT ![c] = [@ EXCEPT !.waiting = FALSE, !.attempt = jobs[c].attempt]]
    BY <1>1, <1>8 DEF WebhookAvailable, JobsShaped, Job
  <2>3. jobs[c].attempt \in 1..MaxRetries /\ cleaned' = cleaned
    BY <1>1, <1>8 DEF WebhookAvailable, Job
  <2>4. /\ JobsShaped' /\ ~cleaned'
        /\ \A d \in Callers \ {c} : jobs'[d] = jobs[d]
        /\ CleaningUp(c)' => /\ CleaningUp(c) /\ jobs'[c].alone = jobs[c].alone
                             /\ jobs'[c].rest = jobs[c].rest
    BY <1>1, <2>1, <2>2, <2>3, WaitingJobs
  <2> QED
    BY <1>1, <1>8, <2>1, <2>3, <2>4, OnlyTheJob DEF WebhookAvailable
<1>9. CASE SeesReady(c)
  <2>1. jobs[c] # Idle
    BY <1>1, <1>9, CreateDoes DEF SeesReady
  <2> QED
    BY <1>2, <1>9, <2>1, OnlyTheJob DEF SeesReady
<1>10. CASE SeesSecret(c)
  <2>1. jobs[c] # Idle
    BY <1>1, <1>10, CreateDoes DEF SeesSecret
  <2> QED
    BY <1>2, <1>10, <2>1, OnlyTheJob DEF SeesSecret
<1>11. CASE TimesOut(c)
  <2>1. jobs[c] # Idle
    <3>1. CASE jobs[c].waiting
      BY <3>1 DEF Idle
    <3>2. CASE Doing(c, "ready") \/ Doing(c, "secret")
      BY <1>1, <3>2, CreateDoes
    <3> QED
      BY <1>11, <3>1, <3>2 DEF TimesOut
  <2> QED
    BY <1>3, <1>11, <2>1, OnlyTheJob DEF TimesOut
<1>12. CASE Interrupt(c)
  BY <1>3, <1>12, OnlyTheJob DEF Interrupt
<1> QED
  BY <1>5, <1>6, <1>7, <1>8, <1>9, <1>10, <1>11, <1>12

(* The steps of a cleanup. *)
LEMMA DeletionSteps ==
    ASSUME PkiInv, NEW c \in Callers,
           \/ Delete(c) \/ DeleteSecret(c) \/ DeleteFails(c)
           \/ DeleteCertificatePattern(c) \/ DeleteSecretPattern(c)
    PROVE  PkiInv'
<1>1. JobsShaped /\ ClusterTyped
  BY DEF PkiInv
<1>2. CASE Delete(c)
  <2>1. Doing(c, "delete")
    BY <1>2 DEF Delete
  <2>2. \A r \in Resources \ missed' :
            DeletesCert(jobs[c].rest[1], r) =>
                /\ status'[r] = "absent"
                /\ r \in Certificates \ jobs[c].rest[1].of => secrets[r] = 0
    <3>1. ASSUME NEW r \in Resources \ missed', r \notin Of(c), r \in OperatorCerts,
                 Of(c) \subseteq OperatorCerts
          PROVE  ~Present(r) /\ status'[r] = "absent"
      BY <1>2, <3>1 DEF Delete, Present
    <3>2. ASSUME NEW r \in Of(c), r \in Resources
          PROVE  status'[r] = "absent"
      BY <1>2, <3>2 DEF Delete
    <3> QED
      BY <1>1, <2>1, <3>1, <3>2, CleanupDoes DEF DeletesCert, Present
  <2>3. missed \subseteq missed' /\ missed' \subseteq Leaves
    BY <1>1, <1>2 DEF Delete, ClusterTyped, Leaves
  <2> QED
    BY <1>1, <1>2, <2>1, <2>2, <2>3, CleanupDoes, RemovalStep DEF Delete
<1>3. CASE DeleteCertificatePattern(c)
  <2>1. Doing(c, "deletePattern")
    BY <1>3 DEF DeleteCertificatePattern
  <2>2. PICK gone \in SUBSET Of(c) :
            /\ status' = [r \in Resources |-> IF r \in gone THEN "absent" ELSE status[r]]
            /\ missed' = missed \cup {l \in Of(c) \ gone : Present(l)}
    BY <1>3 DEF DeleteCertificatePattern
  <2>3. \A r \in Resources \ missed' : r \in Of(c) => status'[r] = "absent"
    BY <2>2 DEF Present
  <2>4. \A r \in Resources \ missed' :
            DeletesCert(jobs[c].rest[1], r) =>
                /\ status'[r] = "absent"
                /\ r \in Certificates \ jobs[c].rest[1].of => secrets[r] = 0
    BY <1>1, <2>1, <2>3, CleanupDoes DEF DeletesCert
  <2>5. missed \subseteq missed' /\ missed' \subseteq Leaves
    BY <1>1, <2>1, <2>2, CleanupDoes DEF ClusterTyped
  <2> QED
    BY <1>1, <1>3, <2>1, <2>2, <2>4, <2>5, CleanupDoes, RemovalStep
    DEF DeleteCertificatePattern
<1>4. CASE DeleteSecret(c)
  <2>1. Doing(c, "deleteSecret")
    BY <1>4 DEF DeleteSecret
  <2>2. /\ missed' \subseteq Leaves
        /\ \A r \in missed \ missed' : r \in Of(c) /\ status[r] = "absent"
    BY <1>1, <1>4 DEF DeleteSecret, ClusterTyped
  <2>3. \A r \in Resources \ missed' :
            DeletesSecret(jobs[c].rest[1], r) => secrets'[r] = 0
    BY <1>1, <1>4, <2>1, CleanupDoes DEF DeleteSecret, DeletesSecret
  <2> QED
    BY <1>1, <1>4, <2>1, <2>2, <2>3, CleanupDoes, SecretRemovalStep DEF DeleteSecret
<1>5. CASE DeleteSecretPattern(c)
  <2>1. Doing(c, "deleteSecretPattern")
    BY <1>5 DEF DeleteSecretPattern
  <2>2. PICK gone \in SUBSET Of(c) :
            /\ secrets' = [r \in Certificates |-> IF r \in gone THEN 0 ELSE secrets[r]]
            /\ missed' = {l \in missed : l \notin gone \/ status[l] # "absent"}
                         \cup {l \in Of(c) \ gone : Present(l)}
    BY <1>5 DEF DeleteSecretPattern
  <2>3. /\ missed' \subseteq Leaves
        /\ \A r \in missed \ missed' : r \in gone /\ status[r] = "absent"
    BY <1>1, <2>1, <2>2, CleanupDoes DEF ClusterTyped
  <2>4. \A r \in Resources \ missed' :
            DeletesSecret(jobs[c].rest[1], r) => secrets'[r] = 0
    BY <1>1, <2>1, <2>2, CleanupDoes DEF DeletesSecret, Present
  <2>5. /\ CleaningUp(c) /\ jobs[c] # Idle /\ jobs[c].alone \in BOOLEAN
        /\ jobs[c].rest \in Seq(CleanupStep) /\ jobs[c].rest # <<>> /\ Ordered(jobs[c].rest)
        /\ jobs[c].rest[1].op = "deleteSecretPattern" /\ gone \subseteq jobs[c].rest[1].of
    BY <1>1, <2>1, CleanupDoes
  <2>6. UNCHANGED <<status, caSecret, roots>> /\ Proceed(c)
    BY <1>5 DEF DeleteSecretPattern
  <2> QED
    BY <2>2, <2>3, <2>4, <2>5, <2>6, SecretRemovalStep
<1>6. CASE DeleteFails(c)
  <2>1. /\ JobsShaped' /\ ~cleaned' /\ ~CleaningUp(c)' /\ cleaned' \in BOOLEAN
        /\ \A d \in Callers \ {c} : jobs'[d] = jobs[d]
        /\ jobs[c] # Idle
    <3>1. jobs[c] # Idle
      BY <1>1, <1>6, CleanupDoes DEF DeleteFails
    <3>2. Exit(c) /\ cleaned' = cleaned /\ cleaned \in BOOLEAN
      BY <1>1, <1>6 DEF DeleteFails, Exit, ClusterTyped
    <3> QED
      BY <1>1, <3>1, <3>2, ExitJobs
  <2>2. /\ status' \in [Resources -> {"absent", "new", "ready"}]
        /\ \A r \in Resources : status'[r] \in {"absent", status[r]}
    <3>1. CASE \E gone \in SUBSET Of(c) :
                 status' = [r \in Resources |-> IF r \in gone THEN "absent" ELSE status[r]]
      BY <1>1, <3>1 DEF ClusterTyped
    <3>2. CASE UNCHANGED status
      BY <1>1, <3>2 DEF ClusterTyped
    <3> QED
      BY <1>6, <3>1, <3>2 DEF DeleteFails
  <2>3. UNCHANGED <<secrets, caSecret, roots, missed>>
    BY <1>6 DEF DeleteFails
  <2>4. \A r \in Resources : Keeps(r)
    BY <2>2, <2>3 DEF Keeps
  <2>5. ClusterTyped'
    BY <1>1, <2>1, <2>2, <2>3 DEF ClusterTyped
  <2>6. CleanupsGetOn'
    BY <2>1, <2>4, Kinds, GetOn DEF PkiInv
  <2>7. NoLeafWithoutRoot' /\ SignedByTheRoot' /\ CleanedStaysClean'
    BY <2>1, <2>3 DEF PkiInv, NoLeafWithoutRoot, SignedByTheRoot, CleanedStaysClean
  <2>8. ReadyHasSecret'
    BY <2>2, <2>3, Kinds DEF PkiInv, ReadyHasSecret
  <2> QED
    BY <2>1, <2>5, <2>6, <2>7, <2>8 DEF PkiInv
<1> QED
  BY <1>2, <1>3, <1>4, <1>5, <1>6

(* The steps of the controllers. *)
LEMMA ControllersStep ==
    ASSUME PkiInv, Controllers
    PROVE  PkiInv'
<1>1. /\ UNCHANGED <<jobs, missed, cleaned>>
      /\ status \in [Resources -> {"absent", "new", "ready"}]
      /\ secrets \in [Certificates -> 0..roots]
      /\ caSecret \in 0..roots /\ roots \in 0..MaxRoots /\ missed \subseteq Leaves
      /\ MaxRoots \in Nat
  BY PkiAssumption DEF Controllers, PkiInv, ClusterTyped
<1>2. SUFFICES
        /\ status' \in [Resources -> {"absent", "new", "ready"}]
        /\ secrets' \in [Certificates -> 0..roots']
        /\ caSecret' \in 0..roots' /\ roots' \in 0..MaxRoots
        /\ \A r \in Resources : Keeps(r)
        /\ NoLeafWithoutRoot' /\ ReadyHasSecret' /\ SignedByTheRoot'
  <2>1. JobsShaped'
    BY <1>1 DEF PkiInv, JobsShaped, CleaningUp
  <2>2. ClusterTyped'
    BY <1>1, <1>2 DEF PkiInv, ClusterTyped
  <2>3. CleanupsGetOn'
    <3>1. ASSUME NEW c \in Callers, CleaningUp(c)
          PROVE  Behind(jobs[c].rest, jobs[c].alone, status', secrets', missed')
      <4>1. jobs[c].alone \in BOOLEAN
        BY DEF PkiInv, JobsShaped, Job
      <4>2. Behind(jobs[c].rest, jobs[c].alone, status, secrets, missed)
        BY <3>1 DEF PkiInv, CleanupsGetOn
      <4> QED
        BY <1>2, <4>1, <4>2, BehindStays
    <3> QED
      BY <1>1, <3>1 DEF CleanupsGetOn, CleaningUp
  <2>4. CleanedStaysClean'
    BY <1>1, <1>2 DEF PkiInv, CleanedStaysClean, Keeps
  <2> QED
    BY <1>2, <2>1, <2>2, <2>3, <2>4 DEF PkiInv
<1>3. CASE IssuerReady \/ SyncBundle
  <2>1. UNCHANGED <<secrets, roots>> /\ \A r \in Leaves : status'[r] = status[r]
    <3>1. \A r \in Leaves : r \in Resources /\ r \notin {RootIssuer, CaIssuer, Bundle}
      BY Kinds
    <3>2. CASE IssuerReady
      BY <1>1, <3>1, <3>2 DEF IssuerReady
    <3>3. CASE SyncBundle
      BY <1>1, <3>1, <3>3 DEF SyncBundle
    <3> QED
      BY <1>3, <3>2, <3>3
  <2>2. status' \in [Resources -> {"absent", "new", "ready"}] /\ caSecret' \in 0..roots
    BY <1>1, <1>3, Kinds DEF IssuerReady, SyncBundle
  <2>3. \A r \in Resources : status[r] = "absent" => status'[r] = "absent"
    BY <1>1, <1>3, Kinds DEF IssuerReady, SyncBundle
  <2>4. \A r \in Resources : Keeps(r)
    BY <1>1, <2>1, <2>3 DEF Keeps
  <2>5. NoLeafWithoutRoot' /\ ReadyHasSecret' /\ SignedByTheRoot'
    BY <1>1, <2>1, Kinds DEF PkiInv, NoLeafWithoutRoot, ReadyHasSecret, SignedByTheRoot
  <2> QED
    BY <1>1, <2>1, <2>2, <2>4, <2>5
<1>4. CASE CertificateReady
  <2>1. PICK r \in Certificates :
            /\ status[r] # "absent"
            /\ status' = [status EXCEPT ![r] = IF secrets[r] # 0 THEN "ready" ELSE "new"]
            /\ UNCHANGED <<secrets, caSecret, roots>>
    BY <1>4 DEF CertificateReady
  <2>2. status' \in [Resources -> {"absent", "new", "ready"}]
    BY <1>1, <2>1
  <2>3. \A q \in Resources : Keeps(q)
    BY <1>1, <2>1 DEF Keeps
  <2>4. NoLeafWithoutRoot' /\ SignedByTheRoot'
    BY <1>1, <2>1 DEF PkiInv, NoLeafWithoutRoot, SignedByTheRoot
  <2>5. ReadyHasSecret'
    BY <1>1, <2>1, Kinds DEF PkiInv, ReadyHasSecret
  <2> QED
    BY <1>1, <2>1, <2>2, <2>3, <2>4, <2>5
<1>5. CASE IssueRoot
  <2>1. /\ status[RootCert] # "absent" /\ secrets[RootCert] = 0
        /\ roots < MaxRoots /\ roots' = roots + 1
        /\ secrets' = [secrets EXCEPT ![RootCert] = roots + 1]
        /\ status' = [status EXCEPT ![RootCert] = "ready"]
        /\ caSecret' = caSecret
    BY <1>5 DEF IssueRoot
  <2>2. secrets' \in [Certificates -> 0..roots'] /\ caSecret' \in 0..roots' /\ roots' \in 0..MaxRoots
    <3>1. roots' \in 0..MaxRoots /\ roots + 1 \in 0..roots' /\ \A n \in 0..roots : n \in 0..roots'
      BY <1>1, <2>1
    <3> QED
      BY <1>1, <2>1, <3>1
  <2>3. status' \in [Resources -> {"absent", "new", "ready"}]
    BY <1>1, <2>1
  <2>4. \A r \in Resources : Keeps(r)
    BY <1>1, <2>1 DEF Keeps
  <2>5. \A l \in Leaves : secrets'[l] = secrets[l] /\ status'[l] = status[l]
    BY <1>1, <2>1, Kinds
  <2>6. \A l \in Leaves \ missed : secrets[l] = 0
    BY <2>1 DEF PkiInv, NoLeafWithoutRoot
  <2>7. secrets'[RootCert] # 0
    BY <1>1, <2>1, Kinds
  <2> QED
    BY <1>1, <2>2, <2>3, <2>4, <2>5, <2>6, <2>7
    DEF PkiInv, NoLeafWithoutRoot, ReadyHasSecret, SignedByTheRoot
<1>6. CASE IssueLeaf
  <2>1. PICK l \in Leaves :
            /\ status[l] # "absent" /\ secrets[l] = 0 /\ secrets[RootCert] # 0
            /\ secrets' = [secrets EXCEPT ![l] = secrets[RootCert]]
            /\ status' = [status EXCEPT ![l] = "ready"]
            /\ UNCHANGED <<caSecret, roots>>
    BY <1>6 DEF IssueLeaf
  <2>2. secrets' \in [Certificates -> 0..roots] /\ status' \in [Resources -> {"absent", "new", "ready"}]
    BY <1>1, <2>1, Kinds
  <2>3. \A r \in Resources : Keeps(r)
    BY <1>1, <2>1 DEF Keeps
  <2>4. secrets'[RootCert] = secrets[RootCert] /\ secrets'[l] = secrets[RootCert]
        /\ \A k \in Leaves \ {l} : secrets'[k] = secrets[k] /\ status'[k] = status[k]
    BY <1>1, <2>1, Kinds
  <2>5. NoLeafWithoutRoot' /\ ReadyHasSecret' /\ SignedByTheRoot'
    BY <1>1, <2>1, <2>4 DEF PkiInv, NoLeafWithoutRoot, ReadyHasSecret, SignedByTheRoot
  <2> QED
    BY <1>1, <2>1, <2>2, <2>3, <2>5
<1> QED
  BY <1>3, <1>4, <1>5, <1>6 DEF Controllers

-----------------------------------------------------------------------------
(* The invariant holds of every behaviour: no command, failure, interruption  *)
(* or controller, in any order, lets a cleanup lose what it has achieved.     *)
THEOREM PkiInvariant == Spec => []PkiInv
<1>1. Init => PkiInv
  <2> SUFFICES ASSUME Init
               PROVE  PkiInv
    OBVIOUS
  <2>1. /\ jobs = [c \in Callers |-> Idle] /\ missed = {} /\ cleaned = FALSE
        /\ status = [r \in Resources |-> "absent"] /\ secrets = [r \in Certificates |-> 0]
        /\ caSecret = 0 /\ roots = 0
    BY DEF Init
  <2>2. Idle \in Job /\ Idle.command = "none" /\ ~Idle.alone
    BY PkiAssumption DEF Idle, Job
  <2>3. JobsShaped
    BY <2>1, <2>2 DEF JobsShaped, CleaningUp
  <2>4. ClusterTyped
    <3>1. MaxRoots \in Nat
      BY PkiAssumption
    <3>2. 0 \in 0..0 /\ 0 \in 0..MaxRoots
      BY <3>1
    <3>3. /\ status \in [Resources -> {"absent", "new", "ready"}]
          /\ secrets \in [Certificates -> 0..roots]
      BY <2>1, <3>2
    <3> QED
      BY <2>1, <3>2, <3>3 DEF ClusterTyped
  <2>5. CleanupsGetOn
    BY <2>1, <2>2 DEF CleanupsGetOn, CleaningUp
  <2>6. NoLeafWithoutRoot /\ ReadyHasSecret /\ SignedByTheRoot /\ CleanedStaysClean
    BY <2>1, Kinds DEF NoLeafWithoutRoot, ReadyHasSecret, SignedByTheRoot, CleanedStaysClean
  <2> QED
    BY <2>3, <2>4, <2>5, <2>6 DEF PkiInv
<1>2. PkiInv /\ [Next]_vars => PkiInv'
  <2> SUFFICES ASSUME PkiInv, [Next]_vars
               PROVE  PkiInv'
    OBVIOUS
  <2>1. CASE \E c \in Administrators : Setup(c) \/ Cleanup(c)
    BY <2>1, PkiAssumption, Starts
  <2>2. CASE \E c \in Callers : CreateLeaf(c)
    BY <2>2, Starts
  <2>3. CASE \E c \in Callers : CommandStep(c) \/ Interrupt(c)
    BY <2>3, CreationSteps, DeletionSteps DEF CommandStep
  <2>4. CASE Controllers
    BY <2>4, ControllersStep
  <2>5. CASE UNCHANGED vars
    BY <2>5 DEF vars, cluster, PkiInv, JobsShaped, CleaningUp, ClusterTyped, CleanupsGetOn,
        NoLeafWithoutRoot, ReadyHasSecret, SignedByTheRoot, CleanedStaysClean
  <2> QED
    BY <2>1, <2>2, <2>3, <2>4, <2>5 DEF Next
<1> QED
  BY <1>1, <1>2, PTL DEF Spec

(* The types of the commands and of the cluster; among them, that no secret  *)
(* is signed by a root that was never made.                                  *)
THEOREM TypeCorrect == Spec => []TypeOK
<1>1. PkiInv => TypeOK
  BY DEF PkiInv, JobsShaped, Job, ClusterTyped, TypeOK
<1> QED
  BY <1>1, PkiInvariant, PTL

(* One root: what no cleanup left behind was signed by the root there is. *)
THEOREM OneRoot == Spec => []SignedByTheRoot
<1>1. PkiInv => SignedByTheRoot
  BY DEF PkiInv
<1> QED
  BY <1>1, PkiInvariant, PTL

(* After a cleanup that ran alone nothing comes back before the next command. *)
THEOREM NothingComesBack == Spec => []CleanedStaysClean
<1>1. PkiInv => CleanedStaysClean
  BY DEF PkiInv
<1> QED
  BY <1>1, PkiInvariant, PTL

(* A certificate that the script reports as created is one that is trusted. *)
THEOREM ReportsAreTrue == Spec => ReportedIsTrusted
<1>1. PkiInv /\ [Next]_vars =>
        [\A c \in Callers, l \in Leaves \ missed :
            Reports(c, l) => secrets[l] # 0 /\ secrets[l] = secrets[RootCert]]_vars
  <2> SUFFICES ASSUME PkiInv, NEW c \in Callers, NEW l \in Leaves \ missed, Reports(c, l)
               PROVE  secrets[l] # 0 /\ secrets[l] = secrets[RootCert]
    OBVIOUS
  <2>1. Head(jobs[c].rest) = Step("ready", {l}) /\ status[l] = "ready"
    BY DEF Reports, SeesReady, Of, Step
  <2> QED
    BY <2>1 DEF PkiInv, ReadyHasSecret, NoLeafWithoutRoot, SignedByTheRoot
<1> QED
  BY <1>1, PkiInvariant, PTL DEF Spec, ReportedIsTrusted

=============================================================================
