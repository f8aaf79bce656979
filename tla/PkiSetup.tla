------------------------------ MODULE PkiSetup ------------------------------
(***************************************************************************)
(* The commands of scripts/chain-of-trust.js and the functions they call in *)
(* scripts/setup-pki.js, against a cluster whose cert-manager and           *)
(* trust-manager work at their own pace.                                    *)
(*                                                                         *)
(* A command is a sequence of steps, each one call of kubectl or one wait   *)
(* for what kubectl shows.  It ends at the first step that fails, whatever  *)
(* the steps before it did; running it again is the only repair there is.   *)
(*                                                                         *)
(* Every secret carries the number of the root CA it was signed with: what  *)
(* the commands build is of use only if all of it hangs on one root.        *)
(***************************************************************************)
EXTENDS Integers, Sequences

CONSTANTS
    Callers,           \* shells that commands run in
    Administrators,    \* those of them that set up and clean up
    Namespaces,        \* where the operator may run, the fallback of its detection among them
    ClusterScope,      \* stands for no namespace, and for cert-manager's own
    IssuedLeaves,      \* the certificates of services, apps and Prometheus
    MaxRetries,        \* 10 in the code
    MaxRoots           \* bound on the root CAs that are made

Resource(kind, namespace) == [kind |-> kind, namespace |-> namespace]

RootIssuer == Resource("root-issuer", ClusterScope)
RootCert == Resource("root-cert", ClusterScope)
CaIssuer == Resource("broker-ca-issuer", ClusterScope)
Bundle == Resource("bundle", ClusterScope)
OperatorCert(namespace) == Resource("operator", namespace)

LeafKinds == {"service", "app", "prometheus"}

OperatorCerts == {OperatorCert(n) : n \in Namespaces}
Leaves == OperatorCerts \cup IssuedLeaves
Certificates == {RootCert} \cup Leaves
Resources == {RootIssuer, CaIssuer, Bundle} \cup Certificates

ASSUME PkiAssumption ==
    /\ Administrators \subseteq Callers
    /\ ClusterScope \notin Namespaces
    /\ IssuedLeaves \subseteq [kind : LeafKinds, namespace : Namespaces]
    /\ MaxRetries \in Nat \ {0}
    /\ MaxRoots \in Nat \ {0}

-----------------------------------------------------------------------------
(* The steps of a command, each on a set of resources. *)
Step(op, of) == [op |-> op, of |-> of]

(* applyYaml, and the wait until it is Ready or Synced. *)
Create(r) == <<Step("apply", {r}), Step("ready", {r})>>

CreateClusterInfrastructure == Create(RootIssuer) \o Create(RootCert) \o Create(CaIssuer)

CreateTrustBundle == Create(Bundle)

(* createOperatorCert and create{Service,App,Prometheus}Certificate; the one   *)
(* of an app does not wait for the CA secret of its namespace.                 *)
CreateCertificate(leaf) ==
    IF leaf.kind = "app" THEN Create(leaf)
                         ELSE <<Step("secret", {leaf})>> \o Create(leaf)

SetupCompletePKI(namespace) ==
    CreateClusterInfrastructure \o CreateTrustBundle
        \o CreateCertificate(OperatorCert(namespace))

LeavesOf(kind) == {l \in IssuedLeaves : l.kind = kind}

(* The deletions by pattern that the variants below share. *)
DeletePatterns(kind) ==
    <<Step("deletePattern", LeavesOf(kind)), Step("deleteSecretPattern", LeavesOf(kind))>>

(* Variant: each secret is deleted before the certificate that asks for it. *)
VariantSecretsFirst(namespace) ==
    <<Step("delete", {Bundle}),
      Step("deleteSecret", {OperatorCert(namespace)}),
      Step("delete", {OperatorCert(namespace)})>>
    \o DeletePatterns("service") \o DeletePatterns("app") \o DeletePatterns("prometheus")
    \o <<Step("delete", {RootIssuer, CaIssuer}),
         Step("delete", {RootCert}),
         Step("deleteSecret", {RootCert})>>

(* Variant: the root goes before the certificates it signed. *)
VariantRootFirst(namespace) ==
    <<Step("delete", {Bundle}),
      Step("delete", {RootIssuer, CaIssuer}),
      Step("delete", {RootCert}),
      Step("deleteSecret", {RootCert}),
      Step("delete", {OperatorCert(namespace)}),
      Step("deleteSecret", {OperatorCert(namespace)})>>
    \o DeletePatterns("service") \o DeletePatterns("app") \o DeletePatterns("prometheus")

CleanupSteps(namespace) ==
    <<Step("delete", {Bundle}),
      Step("delete", {OperatorCert(namespace)}),
      Step("deleteSecret", {OperatorCert(namespace)}),
      Step("deletePattern", LeavesOf("service")),
      Step("deleteSecretPattern", LeavesOf("service")),
      Step("deletePattern", LeavesOf("app")),
      Step("deleteSecretPattern", LeavesOf("app")),
      Step("deletePattern", LeavesOf("prometheus")),
      Step("deleteSecretPattern", LeavesOf("prometheus")),
      Step("delete", {RootIssuer, CaIssuer}),
      Step("delete", {RootCert}),
      Step("deleteSecret", {RootCert})>>

-----------------------------------------------------------------------------
VARIABLES
    jobs,       \* what runs in each shell: the steps that are left, the attempt of applyYaml
                \* and whether it waits for the webhook; and, as history, whether a cleanup
                \* has been the only command since it began
    status,     \* of each resource: absent, new, or ready (Ready or Synced is True)
    secrets,    \* of each certificate: the root it was signed with, 0 if there is none
    caSecret,   \* the root in the secret of the bundle in each namespace, 0 if none
    roots,      \* how many root CAs were made
    missed,     \* history: the leaves that a cleanup left behind
    cleaned     \* history: no command ran beside or since a cleanup that ended well

cluster == <<status, secrets, caSecret, roots>>
vars == <<jobs, cluster, missed, cleaned>>

Idle == [command |-> "none", rest |-> <<>>, attempt |-> 1, waiting |-> FALSE, alone |-> FALSE]

Init ==
    /\ jobs = [c \in Callers |-> Idle]
    /\ status = [r \in Resources |-> "absent"]
    /\ secrets = [r \in Certificates |-> 0]
    /\ caSecret = 0
    /\ roots = 0
    /\ missed = {}
    /\ cleaned = FALSE

CleaningUp(c) == jobs[c].command = "cleanup"

Start(c, command, steps) ==
    /\ jobs[c] = Idle
    /\ jobs' = [d \in Callers |->
         IF d = c THEN [Idle EXCEPT !.command = command, !.rest = steps,
                                    !.alone = (command = "cleanup" /\ \A e \in Callers : jobs[e] = Idle)]
                  ELSE [jobs[d] EXCEPT !.alone = FALSE]]
    /\ cleaned' = FALSE
    /\ UNCHANGED <<cluster, missed>>

(* detectOperatorNamespace: where the operator is at this moment, which may be *)
(* anywhere, or the fallback when it is nowhere or kubectl fails.              *)
Setup(c) == \E n \in Namespaces : Start(c, "create", SetupCompletePKI(n))

CreateLeaf(c) == \E l \in IssuedLeaves : Start(c, "create", CreateCertificate(l))

Cleanup(c) == \E n \in Namespaces : Start(c, "cleanup", CleanupSteps(n))

(* The next step of a command is op, on the resources of. *)
Doing(c, op) == jobs[c].rest # <<>> /\ Head(jobs[c].rest).op = op /\ ~jobs[c].waiting
Of(c) == Head(jobs[c].rest).of

Proceed(c) ==
    IF Len(jobs[c].rest) > 1
    THEN /\ jobs' = [jobs EXCEPT ![c].rest = Tail(@), ![c].attempt = 1]
         /\ UNCHANGED cleaned
    ELSE /\ jobs' = [jobs EXCEPT ![c] = Idle]
         /\ cleaned' = jobs[c].alone

(* An error of execAsync or of a wait reaches process.exit(1). *)
Exit(c) ==
    /\ jobs' = [jobs EXCEPT ![c] = Idle]
    /\ UNCHANGED cleaned

(* kubectl apply of r.  A leaf that comes while a cleanup runs may be too late *)
(* for it.                                                                     *)
Applied(c, r) ==
    /\ status' = [status EXCEPT ![r] = IF @ = "absent" THEN "new" ELSE @]
    /\ missed' = IF r \in Leaves /\ \E d \in Callers : CleaningUp(d)
                 THEN missed \cup {r} ELSE missed
    /\ UNCHANGED <<secrets, caSecret, roots>>

ApplyYaml(c) ==
    /\ Doing(c, "apply")
    /\ \E r \in Of(c) : Applied(c, r)
    /\ Proceed(c)

(* isWebhookUnavailableError: the message of a failed exec repeats the command, *)
(* and with it the YAML, so that every failure of the bundle, whose apiVersion  *)
(* is trust.cert-manager.io, counts as one of its webhook.                      *)
IsWebhookUnavailableError(r, refusedByWebhook) == refusedByWebhook \/ r = Bundle

(* Variant: the loop has no end. *)
VariantRetriesForever(c, r, refusedByWebhook) ==
    IF IsWebhookUnavailableError(r, refusedByWebhook)
    THEN jobs' = [jobs EXCEPT ![c].waiting = TRUE] /\ UNCHANGED cleaned
    ELSE Exit(c)

(* Variant: the attempts are counted one too far. *)
VariantOneMoreAttempt(c, r, refusedByWebhook) ==
    IF IsWebhookUnavailableError(r, refusedByWebhook) /\ jobs[c].attempt <= MaxRetries
    THEN /\ jobs' = [jobs EXCEPT ![c].waiting = TRUE, ![c].attempt = @ + 1]
         /\ UNCHANGED cleaned
    ELSE Exit(c)

(* The catch of applyYaml. *)
RetryOrThrow(c, r, refusedByWebhook) ==
    IF IsWebhookUnavailableError(r, refusedByWebhook) /\ jobs[c].attempt < MaxRetries
    THEN /\ jobs' = [jobs EXCEPT ![c].waiting = TRUE, ![c].attempt = @ + 1]
         /\ UNCHANGED cleaned
    ELSE Exit(c)

ApplyRefused(c) ==
    /\ Doing(c, "apply")
    /\ \E r \in Of(c) : RetryOrThrow(c, r, TRUE)
    /\ UNCHANGED <<cluster, missed>>

(* Any other failure, such as an answer that was lost. *)
ApplyFails(c) ==
    /\ Doing(c, "apply")
    /\ \E r \in Of(c) :
         /\ RetryOrThrow(c, r, FALSE)
         /\ Applied(c, r) \/ UNCHANGED <<cluster, missed>>

(* waitForWebhookFromError returns. *)
WebhookAvailable(c) ==
    /\ jobs[c].waiting
    /\ jobs' = [jobs EXCEPT ![c].waiting = FALSE]
    /\ UNCHANGED <<cluster, missed, cleaned>>

(* waitForClusterIssuerReady, waitForCertificate and waitForBundle return. *)
SeesReady(c) ==
    /\ Doing(c, "ready")
    /\ \A r \in Of(c) : status[r] = "ready"
    /\ Proceed(c)
    /\ UNCHANGED <<cluster, missed>>

(* waitForSecret(namespace, bundle) returns. *)
SeesSecret(c) ==
    /\ Doing(c, "secret")
    /\ caSecret # 0
    /\ Proceed(c)
    /\ UNCHANGED <<cluster, missed>>

(* A wait gives up. *)
TimesOut(c) ==
    /\ jobs[c].waiting \/ Doing(c, "ready") \/ Doing(c, "secret")
    /\ Exit(c)
    /\ UNCHANGED <<cluster, missed>>

Present(l) == status[l] # "absent" \/ secrets[l] # 0

(* Only the operator's certificate of the detected namespace is looked for. *)
Delete(c) ==
    /\ Doing(c, "delete")
    /\ status' = [r \in Resources |-> IF r \in Of(c) THEN "absent" ELSE status[r]]
    /\ missed' = IF Of(c) \subseteq OperatorCerts
                 THEN missed \cup {l \in OperatorCerts \ Of(c) : Present(l)}
                 ELSE missed
    /\ Proceed(c)
    /\ UNCHANGED <<secrets, caSecret, roots>>

DeleteSecret(c) ==
    /\ Doing(c, "deleteSecret")
    /\ secrets' = [r \in Certificates |-> IF r \in Of(c) THEN 0 ELSE secrets[r]]
    /\ missed' = {l \in missed : l \notin Of(c) \/ status[l] # "absent"}
    /\ Proceed(c)
    /\ UNCHANGED <<status, caSecret, roots>>

(* kubectl fails, perhaps after the first of two issuers is gone. *)
DeleteFails(c) ==
    /\ \/ /\ Doing(c, "delete")
          /\ \E gone \in SUBSET Of(c) :
               status' = [r \in Resources |-> IF r \in gone THEN "absent" ELSE status[r]]
       \/ /\ Doing(c, "deleteSecret")
          /\ UNCHANGED status
    /\ Exit(c)
    /\ UNCHANGED <<secrets, caSecret, roots, missed>>

(* deleteCertificatePattern and deleteSecretPattern: whatever fails in them is *)
(* ignored, so that any of the resources may stay.                             *)
DeleteCertificatePattern(c) ==
    /\ Doing(c, "deletePattern")
    /\ \E gone \in SUBSET Of(c) :
         /\ status' = [r \in Resources |-> IF r \in gone THEN "absent" ELSE status[r]]
         /\ missed' = missed \cup {l \in Of(c) \ gone : Present(l)}
    /\ Proceed(c)
    /\ UNCHANGED <<secrets, caSecret, roots>>

DeleteSecretPattern(c) ==
    /\ Doing(c, "deleteSecretPattern")
    /\ \E gone \in SUBSET Of(c) :
         /\ secrets' = [r \in Certificates |-> IF r \in gone THEN 0 ELSE secrets[r]]
         /\ missed' = {l \in missed : l \notin gone \/ status[l] # "absent"}
                      \cup {l \in Of(c) \ gone : Present(l)}
    /\ Proceed(c)
    /\ UNCHANGED <<status, caSecret, roots>>

(* Ctrl-C, or the timeout of the test that runs the command. *)
Interrupt(c) ==
    /\ jobs[c] # Idle
    /\ Exit(c)
    /\ UNCHANGED <<cluster, missed>>

-----------------------------------------------------------------------------
(* The controllers, which are external. *)
IssuerReady ==
    \E r \in {RootIssuer, CaIssuer} :
        /\ status[r] # "absent"
        /\ status' = [status EXCEPT ![r] =
             IF r = RootIssuer \/ secrets[RootCert] # 0 THEN "ready" ELSE "new"]
        /\ UNCHANGED <<secrets, caSecret, roots>>

(* cert-manager keeps a secret that is there already. *)
CertificateReady ==
    \E r \in Certificates :
        /\ status[r] # "absent"
        /\ status' = [status EXCEPT ![r] = IF secrets[r] # 0 THEN "ready" ELSE "new"]
        /\ UNCHANGED <<secrets, caSecret, roots>>

IssueRoot ==
    /\ status[RootCert] # "absent" /\ secrets[RootCert] = 0
    /\ status[RootIssuer] = "ready"
    /\ roots < MaxRoots
    /\ roots' = roots + 1
    /\ secrets' = [secrets EXCEPT ![RootCert] = roots + 1]
    /\ status' = [status EXCEPT ![RootCert] = "ready"]
    /\ UNCHANGED caSecret

IssueLeaf ==
    \E l \in Leaves :
        /\ status[l] # "absent" /\ secrets[l] = 0
        /\ status[CaIssuer] = "ready" /\ secrets[RootCert] # 0
        /\ secrets' = [secrets EXCEPT ![l] = secrets[RootCert]]
        /\ status' = [status EXCEPT ![l] = "ready"]
        /\ UNCHANGED <<caSecret, roots>>

(* The source of the bundle is the root's secret; its targets go with it. *)
SyncBundle ==
    \/ /\ status[Bundle] # "absent"
       /\ status' = [status EXCEPT ![Bundle] =
                       IF secrets[RootCert] # 0 THEN "ready" ELSE "new"]
       /\ caSecret' = IF secrets[RootCert] # 0 THEN secrets[RootCert] ELSE caSecret
       /\ UNCHANGED <<secrets, roots>>
    \/ /\ status[Bundle] = "absent"
       /\ caSecret' = 0
       /\ UNCHANGED <<status, secrets, roots>>

Controllers ==
    /\ IssuerReady \/ CertificateReady \/ IssueRoot \/ IssueLeaf \/ SyncBundle
    /\ UNCHANGED <<jobs, missed, cleaned>>

(* The step that a command is at. *)
CommandStep(c) ==
    \/ ApplyYaml(c) \/ ApplyRefused(c) \/ ApplyFails(c) \/ WebhookAvailable(c)
    \/ SeesReady(c) \/ SeesSecret(c) \/ TimesOut(c)
    \/ Delete(c) \/ DeleteSecret(c) \/ DeleteFails(c)
    \/ DeleteCertificatePattern(c) \/ DeleteSecretPattern(c)

Next ==
    \/ \E c \in Administrators : Setup(c) \/ Cleanup(c)
    \/ \E c \in Callers : CreateLeaf(c) \/ CommandStep(c) \/ Interrupt(c)
    \/ Controllers

(* A command that runs gets on: each call of kubectl returns and each wait ends, *)
(* at the latest by its timeout.                                                 *)
Spec == Init /\ [][Next]_vars /\ \A c \in Callers : WF_vars(CommandStep(c))

-----------------------------------------------------------------------------
(* Types; in particular a leaf is signed by a root that was made. *)
TypeOK ==
    /\ \A c \in Callers :
         /\ jobs[c].command \in {"none", "create", "cleanup"}
         /\ jobs[c].attempt \in 1..MaxRetries
         /\ jobs[c].rest = <<>> => jobs[c] = Idle
    /\ status \in [Resources -> {"absent", "new", "ready"}]
    /\ secrets \in [Certificates -> 0..roots]
    /\ caSecret \in 0..roots
    /\ roots \in 0..MaxRoots
    /\ missed \subseteq Leaves
    /\ cleaned \in BOOLEAN

(* A certificate that no cleanup left behind was signed by the root there is:  *)
(* whatever was interrupted, timed out or ran at the same time, a root is made *)
(* only when the certificates of the one before it are gone.                   *)
SignedByTheRoot ==
    \A l \in Leaves \ missed :
        secrets[l] # 0 /\ secrets[RootCert] # 0 => secrets[l] = secrets[RootCert]

(* The order of the deletions leaves cert-manager nothing to issue again: what *)
(* a cleanup that ran alone removed stays away until the next command.         *)
CleanedStaysClean ==
    cleaned => \A r \in Resources \ missed :
                   status[r] = "absent" /\ (r \in Certificates => secrets[r] = 0)

(* The script says that a certificate and its secret were created.  *)
Reports(c, l) ==
    /\ jobs[c].rest = <<Step("ready", {l})>>
    /\ SeesReady(c)

(* "Certificate created" and "Setup Complete" are said of a certificate whose   *)
(* secret is there, signed by the root that there is, unless a cleanup has left *)
(* the certificate behind, or runs at that moment and came upon it too early.   *)
ReportedIsTrusted ==
    [][\A c \in Callers, l \in Leaves \ missed :
          Reports(c, l) => secrets[l] # 0 /\ secrets[l] = secrets[RootCert]]_vars

(* No command runs forever, however long webhooks and controllers are away. *)
EveryCommandEnds == \A c \in Callers : jobs[c] # Idle ~> jobs[c] = Idle

=============================================================================
