----------------------------- MODULE Configurator -----------------------------
(***************************************************************************)
(* The provisioner's configurator.ConfigureRuntime                         *)
(* (components/provisioner/internal/runtime/configurator.go) for one       *)
(* runtime.  A call fetches a one-time token from the Director, then       *)
(* writes it into the compass-agent-configuration secret of the kyma-system *)
(* namespace and then of the legacy compass-system namespace (a Create,    *)
(* and an Update when the secret already exists).  Any failing call to the *)
(* Director or the cluster ends ConfigureRuntime with an error, after what *)
(* it wrote so far.  The provisioning step that calls it is run again      *)
(* after an error or a restart (the step pipeline re-runs idempotent steps *)
(* with retry).                                                            *)
(*                                                                         *)
(* Tokens are numbered in the order the Director issues them; the token   *)
(* field stands for the whole configuration data, whose other fields       *)
(* (connector URL, runtime ID, tenant) are the same in every call.        *)
(***************************************************************************)
EXTENDS Naturals

CONSTANTS
    MaxCalls,   \* bound on the runs of the provisioning step
    MaxFaults   \* bound on failing calls to the Director or the cluster

ASSUME ConfiguratorAssumption == MaxCalls \in Nat /\ MaxFaults \in Nat

\* runtimeAgentComponentNameSpace and legacyRuntimeAgentComponentNameSpace,
\* in the order ConfigureRuntime configures them (lines 59-67).
Namespaces == <<"kyma-system", "compass-system">>
NsIndex == 1..2

\* The attempts of util.RetryOnError around GetConnectionToken (line 110)
\* and createNamespace (line 87).
TokenAttempts == 3
NamespaceAttempts == 2

\* No secret, or a secret without a token of this model.
NoToken == 0

PCs == {"idle", "token", "client", "namespace", "create", "update",
        "done", "failed"}

VARIABLES
    pc,       \* where the current call of ConfigureRuntime is
    ns,       \* the namespace configureAgent works on
    token,    \* the token the current call fetched
    tries,    \* attempts of the running RetryOnError
    issued,   \* tokens the Director has issued
    secret,   \* secret[i]: the token in the secret of Namespaces[i]
    calls,
    faults

vars == <<pc, ns, token, tries, issued, secret, calls, faults>>

Init ==
    /\ pc = "idle"
    /\ ns = 1
    /\ token = NoToken
    /\ tries = 0
    /\ issued = 0
    /\ secret = [i \in NsIndex |-> NoToken]
    /\ calls = 0
    /\ faults = 0

-----------------------------------------------------------------------------
\* The provisioning step runs ConfigureRuntime: the first time, again after
\* an error, and again after a restart that lost the step's result.
Call ==
    /\ pc \in {"idle", "failed", "done"}
    /\ calls < MaxCalls
    /\ calls' = calls + 1
    /\ pc' = "token"
    /\ ns' = 1
    /\ token' = NoToken
    /\ tries' = 0
    /\ UNCHANGED <<issued, secret, faults>>

\* A failing call to the Director or the cluster.
Fault == faults < MaxFaults /\ faults' = faults + 1

\* getConnectionToken, lines 106-120 and 50-53: the Director issues a new
\* one-time token.
GetConnectionToken ==
    /\ pc = "token"
    /\ issued' = issued + 1
    /\ token' = issued + 1
    /\ pc' = "client"
    /\ UNCHANGED <<ns, tries, secret, calls, faults>>

\* The Director call fails; RetryOnError tries again until its attempts are
\* used up, and then ConfigureRuntime returns the error.
GetConnectionTokenFail ==
    /\ pc = "token"
    /\ Fault
    /\ tries' = tries + 1
    /\ pc' = IF tries + 1 = TokenAttempts THEN "failed" ELSE "token"
    /\ UNCHANGED <<ns, token, issued, secret, calls>>

\* configureAgent, lines 72-78: a client for the runtime's kubeconfig.
CreateK8SClient ==
    /\ pc = "client"
    /\ pc' = "namespace"
    /\ tries' = 0
    /\ UNCHANGED <<ns, token, issued, secret, calls, faults>>

\* createNamespace, lines 87-94 and 122-132: the namespace is created, or
\* exists already, which is no error.
CreateNamespace ==
    /\ pc = "namespace"
    /\ pc' = "create"
    /\ UNCHANGED <<ns, token, tries, issued, secret, calls, faults>>

\* createNamespace fails otherwise; RetryOnError tries again.
CreateNamespaceFail ==
    /\ pc = "namespace"
    /\ Fault
    /\ tries' = tries + 1
    /\ pc' = IF tries + 1 = NamespaceAttempts THEN "failed" ELSE "namespace"
    /\ UNCHANGED <<ns, token, issued, secret, calls>>

\* ConfigureRuntime, lines 59-69: after the kyma-system secret the legacy
\* namespace is configured, and after it the call returns nil.
Advance ==
    IF ns = 1 THEN ns' = 2 /\ pc' = "client"
              ELSE pc' = "done" /\ UNCHANGED ns

\* Mutant: upsertSecret without its Update: an existing secret counts as
\* written.
CreateSecretNoUpdate ==
    /\ pc = "create"
    /\ IF secret[ns] = NoToken
         THEN secret' = [secret EXCEPT ![ns] = token]
         ELSE UNCHANGED secret
    /\ Advance
    /\ UNCHANGED <<token, tries, issued, calls, faults>>

\* upsertSecret, lines 96-103 and 134-141: Create writes the secret; when
\* it exists already the Update follows.
CreateSecret ==
    /\ pc = "create"
    /\ IF secret[ns] = NoToken
         THEN /\ secret' = [secret EXCEPT ![ns] = token]
              /\ Advance
         ELSE /\ pc' = "update"
              /\ UNCHANGED <<ns, secret>>
    /\ UNCHANGED <<token, tries, issued, calls, faults>>

\* upsertSecret, lines 143-147: the Update overwrites the secret.
UpdateSecret ==
    /\ pc = "update"
    /\ secret' = [secret EXCEPT ![ns] = token]
    /\ Advance
    /\ UNCHANGED <<token, tries, issued, calls, faults>>

\* Lines 75-78, 135-140 and 143-146: creating the client, or the Create or
\* Update of the secret fails with another error, and ConfigureRuntime
\* returns it.
ClusterCallFail ==
    /\ pc \in {"client", "create", "update"}
    /\ Fault
    /\ pc' = "failed"
    /\ UNCHANGED <<ns, token, tries, issued, secret, calls>>

\* The provisioner restarts during a call; the step is run again later.
Restart ==
    /\ pc \notin {"idle", "failed", "done"}
    /\ Fault
    /\ pc' = "idle"
    /\ UNCHANGED <<ns, token, tries, issued, secret, calls>>

Next ==
    \/ Call \/ GetConnectionToken \/ GetConnectionTokenFail
    \/ CreateK8SClient \/ CreateNamespace \/ CreateNamespaceFail
    \/ CreateSecret \/ UpdateSecret \/ ClusterCallFail \/ Restart

Spec == Init /\ [][Next]_vars

-----------------------------------------------------------------------------
TypeOK ==
    /\ pc \in PCs
    /\ ns \in NsIndex
    /\ token \in Nat
    /\ tries \in Nat
    /\ issued \in Nat
    /\ secret \in [NsIndex -> Nat]
    /\ calls \in 0..MaxCalls
    /\ faults \in 0..MaxFaults

\* When ConfigureRuntime returns nil, the secrets of both namespaces hold
\* the token this call fetched, whatever earlier calls that failed half-way
\* (after the kyma-system secret, or between a Create and its Update) or
\* were cut by a restart left in them: the Runtime Agent finds the fresh
\* token in whichever namespace it runs.
ConfiguredWithOwnToken ==
    pc = "done" => \A i \in NsIndex : secret[i] = token

=============================================================================
