--------------------------- MODULE ProvisionService ---------------------------
(***************************************************************************)
(* What the provisioning endpoint promises its callers, with the storage  *)
(* and the queue of ProvisionEndpoint.Provision                            *)
(* (internal/broker/instance_create.go) left out.  Each request is pending *)
(* until it is answered once and for good.  While pending it may save its  *)
(* own operation and its own instance.  It is accepted only with the ID of *)
(* a saved operation of its instance, with its parameters, once an        *)
(* instance with that ID is saved.  It may be refused at any time, and a   *)
(* broker restart refuses every pending request at once.                   *)
(***************************************************************************)
CONSTANTS Requests, Instances, Params

NoOp == "none"

Refusals == {"conflict", "rejected", "error"}

VARIABLES
    request,    \* request[r]: the instance and parameters request r asks for
    status,     \* status[r]: "pending", "accepted" or a refusal
    answer,     \* answer[r]: the operation ID an accepted request is given
    stored,     \* the saved operations
    instances   \* the IDs of the saved instances

avars == <<request, status, answer, stored, instances>>

Init ==
    /\ request \in [Requests -> [inst : Instances, params : Params]]
    /\ status = [r \in Requests |-> "pending"]
    /\ answer = [r \in Requests |-> NoOp]
    /\ stored = {}
    /\ instances = {}

\* A pending request saves the operation it is about to run.
SaveOperation(r) ==
    /\ status[r] = "pending"
    /\ stored' = stored \cup
         {[id |-> r, inst |-> request[r].inst, params |-> request[r].params]}
    /\ UNCHANGED <<request, status, answer, instances>>

\* A pending request saves its instance.
SaveInstance(r) ==
    /\ status[r] = "pending"
    /\ instances' = instances \cup {request[r].inst}
    /\ UNCHANGED <<request, status, answer, stored>>

\* A pending request is accepted with a saved operation that runs what it
\* asked for on an instance that is saved.
Accept(r) ==
    /\ status[r] = "pending"
    /\ request[r].inst \in instances
    /\ \E op \in stored :
          /\ op.inst = request[r].inst
          /\ op.params = request[r].params
          /\ answer' = [answer EXCEPT ![r] = op.id]
    /\ status' = [status EXCEPT ![r] = "accepted"]
    /\ UNCHANGED <<request, stored, instances>>

\* A pending request is refused.
Refuse(r) ==
    /\ status[r] = "pending"
    /\ \E why \in Refusals : status' = [status EXCEPT ![r] = why]
    /\ UNCHANGED <<request, answer, stored, instances>>

\* The broker stops: every pending request fails.
Interrupt ==
    /\ status' = [r \in Requests |->
                    IF status[r] = "pending" THEN "error" ELSE status[r]]
    /\ UNCHANGED <<request, answer, stored, instances>>

Next ==
    \/ Interrupt
    \/ \E r \in Requests :
          SaveOperation(r) \/ SaveInstance(r) \/ Accept(r) \/ Refuse(r)

SafetySpec == Init /\ [][Next]_avars

\* Every request is answered.
Spec == SafetySpec /\ \A r \in Requests : WF_avars(Accept(r) \/ Refuse(r))

=============================================================================
