------------------------------ MODULE Provision ------------------------------
(***************************************************************************)
(* ProvisionEndpoint.Provision (internal/broker/instance_create.go): the  *)
(* PUT /v2/service_instances/{id} handler.  The HTTP server runs every     *)
(* request in a goroutine of its own, so several calls interleave at each  *)
(* storage access: the trial check, the lookup of an existing provisioning *)
(* operation, the insertion of the new operation, the insertion of the    *)
(* instance and the Add to the provisioning queue.  A platform retries a   *)
(* request that failed with the same input, which is one more request.    *)
(***************************************************************************)
EXTENDS Naturals, FiniteSets

CONSTANTS
    Requests,        \* concurrent Provision calls (also their operation IDs)
    Instances,       \* instance IDs of the requests
    GAs,             \* global accounts
    Params,          \* provisioning parameters, as IsEqual tells them apart
    OnlySingleTrial, \* b.config.OnlySingleTrialPerGA
    Checks,          \* the outcomes of the input checks requests can have
    MaxFaults        \* bound on failing storage calls

\* What the checks of the request before any storage access find: all pass,
\* the region or the platform provider is missing from the context
\* (lines 113-122), or validateAndExtract finds the input invalid (service
\* and plan ID, ERS context, parameters, autoscaler, OIDC, JSON schema, EU
\* access, plan support, kubeconfig, trial region; lines 229-316).
AllChecks == {"ok", "noContext", "invalid"}

ASSUME ProvisionAssumption ==
    /\ OnlySingleTrial \in BOOLEAN
    /\ Checks \subseteq AllChecks
    /\ MaxFaults \in Nat

\* What one request carries: the instance, its global account, whether the
\* plan is a trial plan, the rest of its parameters, and what the input
\* checks make of it.
Inputs == [inst : Instances, ga : GAs, trial : BOOLEAN, params : Params,
           check : Checks]

NoOp == "none"

\* found[r] before request r read an existing operation.
NoRec == [id |-> NoOp, inst |-> NoOp, params |-> NoOp]

PCs == {"start", "lookup", "existing", "insertOp", "insertInst", "enqueue",
        "accepted", "conflict", "rejected", "error"}

\* The responses: 202 Accepted, 409 Conflict, 400 for a second trial, 500.
Responses == {"accepted", "conflict", "rejected", "error"}

VARIABLES
    input,    \* input[r]: the request's parameters
    pc,       \* pc[r]: where request r is in Provision
    found,    \* found[r]: the existing operation request r read
    opsDB,    \* provisioning operations in the store
    instDB,   \* instances in the store
    queue,    \* operation IDs added to the provisioning queue
    resp,     \* resp[r]: OperationData of an accepted request
    faults

vars == <<input, pc, found, opsDB, instDB, queue, resp, faults>>

\* Provisioning operation records as the store keeps them.
OpRecs == [id : Requests, inst : Instances, params : Params]

Operation(r) == [id |-> r, inst |-> input[r].inst, params |-> input[r].params]

Instance(r) == [inst |-> input[r].inst, ga |-> input[r].ga,
                trial |-> input[r].trial, params |-> input[r].params]

-----------------------------------------------------------------------------
Init ==
    /\ input \in [Requests -> Inputs]
    /\ pc = [r \in Requests |-> "start"]
    /\ found = [r \in Requests |-> NoRec]
    /\ opsDB = {}
    /\ instDB = {}
    /\ queue = {}
    /\ resp = [r \in Requests |-> NoOp]
    /\ faults = 0

\* Provision, lines 113-129, and validateAndExtract, lines 225-331: a
\* context without region or provider is a 500, an invalid input a 400.
\* Last, with OnlySingleTrialPerGA a trial request is rejected when its
\* global account has any instance (GetNumberOfInstancesForGlobalAccountID
\* counts every plan).  Nothing is written.
ValidateAndExtract(r) ==
    /\ pc[r] = "start"
    /\ pc' = [pc EXCEPT ![r] =
                CASE input[r].check = "noContext" -> "error"
                  [] input[r].check = "invalid" -> "rejected"
                  [] /\ input[r].trial /\ OnlySingleTrial
                     /\ \E x \in instDB : x.ga = input[r].ga -> "rejected"
                  [] OTHER -> "lookup"]
    /\ UNCHANGED <<input, found, opsDB, instDB, queue, resp, faults>>

\* Lines 144-152: GetProvisioningOperationByInstanceID.  When several
\* operations of the instance exist the store returns one of them.
GetExistingOperation(r) ==
    /\ pc[r] = "lookup"
    /\ LET existing == {op \in opsDB : op.inst = input[r].inst}
       IN \/ existing = {} /\ pc' = [pc EXCEPT ![r] = "insertOp"]
                           /\ UNCHANGED found
          \/ \E op \in existing :
                /\ found' = [found EXCEPT ![r] = op]
                /\ pc' = [pc EXCEPT ![r] = "existing"]
    /\ UNCHANGED <<input, opsDB, instDB, queue, resp, faults>>

\* Mutant: the IsEqual comparison of line 384 is dropped.
HandleExistingOperationNoCompare(r) ==
    /\ pc[r] = "existing"
    /\ IF \E x \in instDB : x.inst = found[r].inst
         THEN /\ pc' = [pc EXCEPT ![r] = "accepted"]
              /\ resp' = [resp EXCEPT ![r] = found[r].id]
         ELSE /\ pc' = [pc EXCEPT ![r] = "conflict"]
              /\ UNCHANGED resp
    /\ UNCHANGED <<input, found, opsDB, instDB, queue, faults>>

\* Mutant: the instance is not read (lines 390-395 dropped), so an operation
\* whose instance was never saved is answered as accepted.
HandleExistingOperationNoInstance(r) ==
    /\ pc[r] = "existing"
    /\ IF found[r].params = input[r].params
         THEN /\ pc' = [pc EXCEPT ![r] = "accepted"]
              /\ resp' = [resp EXCEPT ![r] = found[r].id]
         ELSE /\ pc' = [pc EXCEPT ![r] = "conflict"]
              /\ UNCHANGED resp
    /\ UNCHANGED <<input, found, opsDB, instDB, queue, faults>>

\* handleExistingOperation, lines 382-405: other parameters are a
\* conflict; equal ones answer with the existing operation if its instance
\* can be read, and with a conflict if not.
HandleExistingOperation(r) ==
    /\ pc[r] = "existing"
    /\ IF /\ found[r].params = input[r].params
          /\ \E x \in instDB : x.inst = found[r].inst
         THEN /\ pc' = [pc EXCEPT ![r] = "accepted"]
              /\ resp' = [resp EXCEPT ![r] = found[r].id]
         ELSE /\ pc' = [pc EXCEPT ![r] = "conflict"]
              /\ UNCHANGED resp
    /\ UNCHANGED <<input, found, opsDB, instDB, queue, faults>>

\* Lines 158-181: a new operation with a fresh ID is inserted.
InsertOperation(r) ==
    /\ pc[r] = "insertOp"
    /\ opsDB' = opsDB \cup {Operation(r)}
    /\ pc' = [pc EXCEPT ![r] = "insertInst"]
    /\ UNCHANGED <<input, found, instDB, queue, resp, faults>>

\* Lines 183-198: the instance is inserted; an instance with this ID that
\* already exists makes the insert fail and the call return 500, after its
\* operation was saved.
InsertInstance(r) ==
    /\ pc[r] = "insertInst"
    /\ IF \E x \in instDB : x.inst = input[r].inst
         THEN /\ pc' = [pc EXCEPT ![r] = "error"]
              /\ UNCHANGED instDB
         ELSE /\ instDB' = instDB \cup {Instance(r)}
              /\ pc' = [pc EXCEPT ![r] = "enqueue"]
    /\ UNCHANGED <<input, found, opsDB, queue, resp, faults>>

\* Lines 200-210: queue.Add and 202 Accepted with the operation ID.
AddToQueue(r) ==
    /\ pc[r] = "enqueue"
    /\ queue' = queue \cup {r}
    /\ resp' = [resp EXCEPT ![r] = r]
    /\ pc' = [pc EXCEPT ![r] = "accepted"]
    /\ UNCHANGED <<input, found, opsDB, instDB, faults>>

\* A storage call fails.  The response depends on where: the trial count
\* (lines 319-322) makes validateAndExtract fail, a 400 (lines 125-129); the
\* instance read of handleExistingOperation (lines 390-395) is a 409; the
\* operation lookup and the two inserts (lines 145-148, 177-181, 194-198)
\* are a 500.  Nothing more is written.
FailureResponse == [start |-> "rejected", lookup |-> "error",
                    existing |-> "conflict", insertOp |-> "error",
                    insertInst |-> "error"]

StorageFailure(r) ==
    /\ pc[r] \in DOMAIN FailureResponse
    /\ faults < MaxFaults
    /\ faults' = faults + 1
    /\ pc' = [pc EXCEPT ![r] = FailureResponse[pc[r]]]
    /\ UNCHANGED <<input, found, opsDB, instDB, queue, resp>>

\* cmd/broker/main.go, lines 389-391 and 508-519: the broker restarts.  The
\* calls in flight are lost (their clients see an error) and
\* processOperationsInProgressByType adds every provisioning operation that
\* is not finished (none is run in this model) to the queue again.
Restart ==
    /\ faults < MaxFaults
    /\ faults' = faults + 1
    /\ pc' = [r \in Requests |-> IF pc[r] \in Responses THEN pc[r] ELSE "error"]
    /\ queue' = queue \cup {op.id : op \in opsDB}
    /\ UNCHANGED <<input, found, opsDB, instDB, resp>>

Next ==
    \/ Restart
    \/ \E r \in Requests :
           \/ ValidateAndExtract(r) \/ GetExistingOperation(r)
           \/ HandleExistingOperation(r) \/ InsertOperation(r)
           \/ InsertInstance(r) \/ AddToQueue(r) \/ StorageFailure(r)

\* Every request goroutine runs to its response.
Spec == Init /\ [][Next]_vars /\ \A r \in Requests : WF_vars(
            ValidateAndExtract(r) \/ GetExistingOperation(r)
            \/ HandleExistingOperation(r) \/ InsertOperation(r)
            \/ InsertInstance(r) \/ AddToQueue(r))

-----------------------------------------------------------------------------
TypeOK ==
    /\ input \in [Requests -> Inputs]
    /\ pc \in [Requests -> PCs]
    /\ found \in [Requests -> OpRecs \cup {NoRec}]
    /\ opsDB \subseteq OpRecs
    /\ instDB \subseteq [inst : Instances, ga : GAs, trial : BOOLEAN,
                         params : Params]
    /\ queue \subseteq Requests
    /\ resp \in [Requests -> Requests \cup {NoOp}]
    /\ faults \in 0..MaxFaults

\* The operation an accepted request is answered with (OperationData,
\* lines 203-205 and 397-400) is a stored provisioning operation of the
\* request's instance with the request's parameters, whichever concurrent
\* request created it.
AcceptedMatchesRequest ==
    \A r \in Requests : pc[r] = "accepted" =>
        \E op \in opsDB : /\ op.id = resp[r]
                         /\ op.inst = input[r].inst
                         /\ op.params = input[r].params

\* Once every call has returned, the operation each accepted request was
\* answered with has been added to the provisioning queue (line 201), so the
\* platform polling it sees it progress: an idempotent retry must not be
\* answered with an operation no worker will ever run.
AllAnswered == \A r \in Requests : pc[r] \in Responses

AcceptedIsQueued ==
    AllAnswered =>
        \A r \in Requests : pc[r] = "accepted" => resp[r] \in queue

\* With OnlySingleTrialPerGA (lines 318-328) a global account has at most
\* one trial instance, however the trial requests of that account overlap.
OneTrialPerGA ==
    OnlySingleTrial =>
        \A x, y \in instDB : x.trial /\ y.trial /\ x.ga = y.ga => x = y

\* What the endpoint promises (ProvisionService), seen through the state of
\* the calls: a request is pending until its goroutine has returned, its
\* answer is the OperationData it returned, and the store holds the saved
\* operations and instances.
Service == INSTANCE ProvisionService WITH
    request <- [r \in Requests |->
                  [inst |-> input[r].inst, params |-> input[r].params]],
    status <- [r \in Requests |->
                  IF pc[r] \in Responses THEN pc[r] ELSE "pending"],
    answer <- resp,
    stored <- opsDB,
    instances <- {x.inst : x \in instDB}

\* Provision implements ProvisionService: however the calls interleave,
\* fail and restart, every call writes only its own operation and instance,
\* answers once and for good, accepts only with a saved operation of its
\* instance and parameters whose instance is saved too (lines 183-210 and
\* 382-404), and eventually answers.
ImplementsService == Service!Spec

=============================================================================
