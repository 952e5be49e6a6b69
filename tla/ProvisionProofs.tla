--------------------------- MODULE ProvisionProofs ---------------------------
(***************************************************************************)
(* Proofs about Provision for every set of requests, instances, accounts  *)
(* and parameters.                                                         *)
(***************************************************************************)
EXTENDS Provision, TLAPS

(***************************************************************************)
(* AcceptedMatchesRequest is not inductive by itself: a request accepted  *)
(* by AddToQueue or HandleExistingOperation relies on what it saw earlier. *)
(* Stored says a request past InsertOperation has its operation in the    *)
(* store; FoundOK says the operation a request read is a stored operation *)
(* of its instance.  Both hold because the store only grows.              *)
(***************************************************************************)
Stored ==
    \A r \in Requests : pc[r] \in {"insertInst", "enqueue"} =>
        Operation(r) \in opsDB

FoundOK ==
    \A r \in Requests : pc[r] = "existing" =>
        found[r] \in opsDB /\ found[r].inst = input[r].inst

\* TypeOK in three parts: SMT handles the first, Zenon the two that hold
\* BOOLEAN fields.
PTypeData ==
    /\ pc \in [Requests -> PCs]
    /\ found \in [Requests -> OpRecs \cup {NoRec}]
    /\ opsDB \subseteq OpRecs
    /\ queue \subseteq Requests
    /\ resp \in [Requests -> Requests \cup {NoOp}]
    /\ faults \in 0..MaxFaults

PTypeInput == input \in [Requests -> Inputs]

InstRecs == [inst : Instances, ga : GAs, trial : BOOLEAN, params : Params]

PTypeInst == instDB \subseteq InstRecs

\* Inserted says a request about to be queued has its instance in the store.
Inserted ==
    \A r \in Requests : pc[r] = "enqueue" =>
        \E x \in instDB : x.inst = input[r].inst

Safe == Stored /\ FoundOK /\ Inserted /\ AcceptedMatchesRequest

PInv == PTypeData /\ PTypeInput /\ PTypeInst /\ Safe

USE ProvisionAssumption

\* TypeOK is the conjunction of its three parts.
LEMMA TypeOKSplit == TypeOK <=> PTypeData /\ PTypeInput /\ PTypeInst
BY Zenon DEF TypeOK, PTypeData, PTypeInput, PTypeInst, InstRecs

\* The fields of a request's input.
LEMMA InputFields ==
    ASSUME PTypeInput, NEW r \in Requests
    PROVE  /\ input[r].inst \in Instances /\ input[r].params \in Params
           /\ input[r].ga \in GAs /\ input[r].trial \in BOOLEAN
BY Zenon DEF PTypeInput, Inputs

\* The operation a request inserts is an operation record.
LEMMA OperationType ==
    ASSUME PTypeInput, NEW r \in Requests
    PROVE  Operation(r) \in OpRecs
BY InputFields DEF Operation, OpRecs

\* The instance a request inserts is an instance record.
LEMMA InstanceType ==
    ASSUME PTypeInput, NEW r \in Requests
    PROVE  Instance(r) \in InstRecs
<1>1. /\ input[r].inst \in Instances /\ input[r].params \in Params
      /\ input[r].ga \in GAs /\ input[r].trial \in BOOLEAN
  BY InputFields
<1>2. QED
  BY <1>1, Zenon DEF Instance, InstRecs

\* The initial states of Provision satisfy the inductive invariant.
LEMMA InitPInv == Init => PInv
<1> SUFFICES ASSUME Init PROVE PInv
  OBVIOUS
<1>1. PTypeData
  BY DEF Init, PTypeData, PCs, NoRec, OpRecs
<1>2. PTypeInput
  BY Zenon DEF Init, PTypeInput
<1>3. PTypeInst
  BY DEF Init, PTypeInst
<1>4. Safe
  BY DEF Init, Safe, Stored, FoundOK, Inserted, AcceptedMatchesRequest
<1>5. QED
  BY <1>1, <1>2, <1>3, <1>4 DEF PInv

\* Every step of a Provision call preserves the inductive invariant.
LEMMA NextPInv == PInv /\ [Next]_vars => PInv'
<1> SUFFICES ASSUME PInv, [Next]_vars PROVE PInv'
  OBVIOUS
<1> USE DEF PInv
<1>1. ASSUME NEW r \in Requests, ValidateAndExtract(r) PROVE PInv'
  <2>1. PTypeData'
    BY <1>1, ProvisionAssumption DEF ValidateAndExtract, PTypeData, PCs
  <2>2. PTypeInput'
    BY <1>1 DEF ValidateAndExtract, PTypeInput
  <2>3. PTypeInst'
    BY <1>1 DEF ValidateAndExtract, PTypeInst
  <2>4. Safe'
    BY <1>1 DEF ValidateAndExtract, PTypeData, Safe, Stored, FoundOK, Inserted,
           AcceptedMatchesRequest, Operation
  <2>5. QED
    BY <2>1, <2>2, <2>3, <2>4
<1>2. ASSUME NEW r \in Requests, GetExistingOperation(r) PROVE PInv'
  <2>1. PTypeData'
    BY <1>2, ProvisionAssumption DEF GetExistingOperation, PTypeData, PCs, OpRecs
  <2>2. PTypeInput'
    BY <1>2 DEF GetExistingOperation, PTypeInput
  <2>3. PTypeInst'
    BY <1>2 DEF GetExistingOperation, PTypeInst
  <2>4. Safe'
    BY <1>2 DEF GetExistingOperation, PTypeData, Safe, Stored, FoundOK, Inserted,
           AcceptedMatchesRequest, Operation
  <2>5. QED
    BY <2>1, <2>2, <2>3, <2>4
<1>3. ASSUME NEW r \in Requests, HandleExistingOperation(r) PROVE PInv'
  <2>1. PTypeData'
    BY <1>3, ProvisionAssumption DEF HandleExistingOperation, PTypeData, PCs,
           OpRecs, Safe, FoundOK
  <2>2. PTypeInput'
    BY <1>3 DEF HandleExistingOperation, PTypeInput
  <2>3. PTypeInst'
    BY <1>3 DEF HandleExistingOperation, PTypeInst
  <2>4. Safe'
    BY <1>3 DEF HandleExistingOperation, PTypeData, Safe, Stored, FoundOK, Inserted,
           AcceptedMatchesRequest, Operation
  <2>5. QED
    BY <2>1, <2>2, <2>3, <2>4
<1>4. ASSUME NEW r \in Requests, InsertOperation(r) PROVE PInv'
  <2>1. PTypeData'
    BY <1>4, OperationType, ProvisionAssumption DEF InsertOperation, PTypeData, PCs, OpRecs
  <2>2. PTypeInput'
    BY <1>4 DEF InsertOperation, PTypeInput
  <2>3. PTypeInst'
    BY <1>4 DEF InsertOperation, PTypeInst
  <2>4. Safe'
    BY <1>4 DEF InsertOperation, PTypeData, Safe, Stored, FoundOK, Inserted,
           AcceptedMatchesRequest, Operation
  <2>5. QED
    BY <2>1, <2>2, <2>3, <2>4
<1>5. ASSUME NEW r \in Requests, InsertInstance(r) PROVE PInv'
  <2>1. PTypeData'
    BY <1>5, ProvisionAssumption DEF InsertInstance, PTypeData, PCs
  <2>2. PTypeInput'
    BY <1>5 DEF InsertInstance, PTypeInput
  <2>3. PTypeInst'
    BY <1>5, InstanceType DEF InsertInstance, PTypeInst
  <2>4. Safe'
    <3>1. CASE \E x \in instDB : x.inst = input[r].inst
      BY <1>5, <3>1 DEF InsertInstance, PTypeData, Safe, Stored, FoundOK,
             Inserted, AcceptedMatchesRequest, Operation
    <3>2. CASE ~\E x \in instDB : x.inst = input[r].inst
      <4>1. instDB' = instDB \cup {Instance(r)} /\ Instance(r).inst = input[r].inst
        BY <1>5, <3>2 DEF InsertInstance, Instance
      <4>2. pc' = [pc EXCEPT ![r] = "enqueue"]
        BY <1>5, <3>2 DEF InsertInstance
      <4>3. UNCHANGED <<input, found, opsDB, resp>>
        BY <1>5 DEF InsertInstance
      <4>4. pc[r] = "insertInst"
        BY <1>5 DEF InsertInstance
      <4>5. Stored'
        BY <4>2, <4>3, <4>4 DEF PTypeData, Safe, Stored, Operation
      <4>6. FoundOK'
        BY <4>2, <4>3, <4>4 DEF PTypeData, Safe, FoundOK
      <4>7. Inserted'
        BY <4>1, <4>2, <4>3, <4>4 DEF PTypeData, Safe, Inserted
      <4>8. AcceptedMatchesRequest'
        BY <4>2, <4>3, <4>4 DEF PTypeData, Safe, AcceptedMatchesRequest
      <4>9. QED
        BY <4>5, <4>6, <4>7, <4>8 DEF Safe
    <3>3. QED
      BY <3>1, <3>2
  <2>5. QED
    BY <2>1, <2>2, <2>3, <2>4
<1>6. ASSUME NEW r \in Requests, AddToQueue(r) PROVE PInv'
  <2>1. PTypeData'
    BY <1>6, ProvisionAssumption DEF AddToQueue, PTypeData, PCs
  <2>2. PTypeInput'
    BY <1>6 DEF AddToQueue, PTypeInput
  <2>3. PTypeInst'
    BY <1>6 DEF AddToQueue, PTypeInst
  <2>4. Safe'
    BY <1>6 DEF AddToQueue, PTypeData, Safe, Stored, FoundOK, Inserted,
           AcceptedMatchesRequest, Operation
  <2>5. QED
    BY <2>1, <2>2, <2>3, <2>4
<1>7. ASSUME NEW r \in Requests, StorageFailure(r) PROVE PInv'
  <2>1. PTypeData'
    BY <1>7, ProvisionAssumption DEF StorageFailure, PTypeData, PCs, FailureResponse
  <2>2. PTypeInput'
    BY <1>7 DEF StorageFailure, PTypeInput
  <2>3. PTypeInst'
    BY <1>7 DEF StorageFailure, PTypeInst
  <2>4. Safe'
    BY <1>7 DEF StorageFailure, PTypeData, Safe, Stored, FoundOK, Inserted,
           AcceptedMatchesRequest, Operation, FailureResponse
  <2>5. QED
    BY <2>1, <2>2, <2>3, <2>4
<1>8. CASE Restart
  <2>1. PTypeData'
    BY <1>8, ProvisionAssumption DEF Restart, PTypeData, PCs, Responses, OpRecs
  <2>2. PTypeInput'
    BY <1>8 DEF Restart, PTypeInput
  <2>3. PTypeInst'
    BY <1>8 DEF Restart, PTypeInst
  <2>4. Safe'
    BY <1>8 DEF Restart, PTypeData, Safe, Stored, FoundOK, Inserted,
           AcceptedMatchesRequest, Operation, Responses
  <2>5. QED
    BY <2>1, <2>2, <2>3, <2>4
<1>9. CASE UNCHANGED vars
  BY <1>9 DEF vars, PTypeData, PTypeInput, PTypeInst, Safe, Stored, FoundOK, Inserted,
             AcceptedMatchesRequest, Operation
<1>10. QED
  BY <1>1, <1>2, <1>3, <1>4, <1>5, <1>6, <1>7, <1>8, <1>9 DEF Next

\* Provision's variables keep their types whatever the requests do
\* concurrently.
THEOREM ProvisionTypeCorrect == Spec => []TypeOK
<1>1. PInv => TypeOK
  BY TypeOKSplit DEF PInv
<1>2. QED
  BY <1>1, InitPInv, NextPInv, PTL DEF Spec

\* However concurrent Provision calls for one instance interleave, each
\* accepted call is answered with a stored operation of its instance with
\* its own parameters (handleExistingOperation's IsEqual check, lines 382-389,
\* and the fresh operation of lines 158-205).
THEOREM AcceptedCorrect == Spec => []AcceptedMatchesRequest
<1>1. PInv => AcceptedMatchesRequest
  BY DEF PInv, Safe
<1>2. QED
  BY <1>1, InitPInv, NextPInv, PTL DEF Spec


-----------------------------------------------------------------------------
(***************************************************************************)
(* Provision implements the safety part of ProvisionService.  Each step of *)
(* a call is a step of the service or leaves the mapped state alone: the  *)
(* trial check, the operation lookup and the queue are invisible, the two  *)
(* inserts are SaveOperation and SaveInstance, the two ways to answer 202  *)
(* are Accept, every other answer is Refuse and a restart is Interrupt.   *)
(* Accept needs Stored, FoundOK and Inserted: what the call checked or     *)
(* wrote earlier is still in the store when it answers.                    *)
(***************************************************************************)

\* The initial states of Provision are initial states of the service.
LEMMA InitRefines == Init => Service!Init
<1> SUFFICES ASSUME Init PROVE Service!Init
  OBVIOUS
<1>1. [r \in Requests |-> [inst |-> input[r].inst, params |-> input[r].params]]
        \in [Requests -> [inst : Instances, params : Params]]
  BY InputFields DEF Init, PTypeInput
<1>2. QED
  BY <1>1 DEF Init, Service!Init, Responses, NoOp, Service!NoOp

\* Every step of Provision is a step of the service or a stutter of it.
LEMMA NextRefines == PInv /\ [Next]_vars => [Service!Next]_Service!avars
<1> SUFFICES ASSUME PInv, [Next]_vars PROVE [Service!Next]_Service!avars
  OBVIOUS
<1> USE DEF PInv
<1>1. ASSUME NEW r \in Requests, ValidateAndExtract(r) PROVE [Service!Next]_Service!avars
  <2>1. pc'[r] \in {"error", "rejected", "lookup"}
    BY <1>1 DEF ValidateAndExtract, PTypeData
  <2>2. CASE pc'[r] \in {"error", "rejected"}
    <3>1. Service!Refuse(r)
      BY <1>1, <2>2 DEF ValidateAndExtract, Service!Refuse, Service!Refusals, Responses, PTypeData
    <3>2. QED
      BY <3>1 DEF Service!Next
  <2>3. CASE pc'[r] = "lookup"
    BY <1>1, <2>3 DEF ValidateAndExtract, Service!avars, Responses, PTypeData
  <2>4. QED
    BY <2>1, <2>2, <2>3
<1>2. ASSUME NEW r \in Requests, GetExistingOperation(r) PROVE [Service!Next]_Service!avars
  BY <1>2 DEF GetExistingOperation, Service!avars, Responses, PTypeData
<1>3. ASSUME NEW r \in Requests, HandleExistingOperation(r) PROVE [Service!Next]_Service!avars
  <2>1. CASE pc'[r] = "accepted"
    <3>1. /\ found[r].params = input[r].params
          /\ \E x \in instDB : x.inst = found[r].inst
          /\ resp' = [resp EXCEPT ![r] = found[r].id]
      BY <1>3, <2>1 DEF HandleExistingOperation, PTypeData
    <3>2. found[r] \in opsDB /\ found[r].inst = input[r].inst
      BY <1>3 DEF HandleExistingOperation, Safe, FoundOK
    <3>3. Service!Accept(r)
      BY <1>3, <2>1, <3>1, <3>2 DEF HandleExistingOperation, Service!Accept, Responses, PTypeData
    <3>4. QED
      BY <3>3 DEF Service!Next
  <2>2. CASE pc'[r] # "accepted"
    <3>1. Service!Refuse(r)
      BY <1>3, <2>2 DEF HandleExistingOperation, Service!Refuse, Service!Refusals, Responses, PTypeData
    <3>2. QED
      BY <3>1 DEF Service!Next
  <2>3. QED
    BY <2>1, <2>2
<1>4. ASSUME NEW r \in Requests, InsertOperation(r) PROVE [Service!Next]_Service!avars
  <2>1. Service!SaveOperation(r)
    BY <1>4 DEF InsertOperation, Service!SaveOperation, Operation, Responses, PTypeData
  <2>2. QED
    BY <2>1 DEF Service!Next
<1>5. ASSUME NEW r \in Requests, InsertInstance(r) PROVE [Service!Next]_Service!avars
  <2>1. CASE \E x \in instDB : x.inst = input[r].inst
    <3>1. Service!Refuse(r)
      BY <1>5, <2>1 DEF InsertInstance, Service!Refuse, Service!Refusals, Responses, PTypeData
    <3>2. QED
      BY <3>1 DEF Service!Next
  <2>2. CASE ~\E x \in instDB : x.inst = input[r].inst
    <3>1. instDB' = instDB \cup {Instance(r)}
      BY <1>5, <2>2 DEF InsertInstance
    <3>2. {x.inst : x \in instDB'} = {x.inst : x \in instDB} \cup {input[r].inst}
      <4>1. Instance(r).inst = input[r].inst
        BY DEF Instance
      <4>2. QED
        BY <3>1, <4>1, Zenon
    <3>3. pc' = [pc EXCEPT ![r] = "enqueue"] /\ pc[r] = "insertInst"
      BY <1>5, <2>2 DEF InsertInstance
    <3>4. [q \in Requests |-> IF pc'[q] \in Responses THEN pc'[q] ELSE "pending"]
          = [q \in Requests |-> IF pc[q] \in Responses THEN pc[q] ELSE "pending"]
      BY <3>3 DEF Responses, PTypeData
    <3>5. UNCHANGED <<input, found, opsDB, resp>>
      BY <1>5 DEF InsertInstance
    <3>6. Service!SaveInstance(r)
      BY <3>2, <3>3, <3>4, <3>5 DEF Service!SaveInstance, Responses
    <3>7. QED
      BY <3>6 DEF Service!Next
  <2>3. QED
    BY <2>1, <2>2
<1>6. ASSUME NEW r \in Requests, AddToQueue(r) PROVE [Service!Next]_Service!avars
  <2>1. Operation(r) \in opsDB /\ \E x \in instDB : x.inst = input[r].inst
    BY <1>6 DEF AddToQueue, Safe, Stored, Inserted
  <2>2. Service!Accept(r)
    BY <1>6, <2>1 DEF AddToQueue, Service!Accept, Operation, Responses, PTypeData
  <2>3. QED
    BY <2>2 DEF Service!Next
<1>7. ASSUME NEW r \in Requests, StorageFailure(r) PROVE [Service!Next]_Service!avars
  <2>1. FailureResponse[pc[r]] \in Service!Refusals
    BY <1>7 DEF StorageFailure, FailureResponse, Service!Refusals
  <2>2. pc[r] \notin Responses /\ pc'[r] \in Service!Refusals
    BY <1>7, <2>1 DEF StorageFailure, FailureResponse, Responses, PTypeData
  <2>3. Service!Refuse(r)
    BY <1>7, <2>2 DEF StorageFailure, Service!Refuse, Service!Refusals, Responses, PTypeData
  <2>4. QED
    BY <2>3 DEF Service!Next
<1>8. CASE Restart
  <2>1. Service!Interrupt
    BY <1>8 DEF Restart, Service!Interrupt, Responses, PTypeData
  <2>2. QED
    BY <2>1 DEF Service!Next
<1>9. CASE UNCHANGED vars
  BY <1>9 DEF vars, Service!avars
<1>10. QED
  BY <1>1, <1>2, <1>3, <1>4, <1>5, <1>6, <1>7, <1>8, <1>9 DEF Next

\* Whatever the concurrent calls, failures and restarts, Provision behaves as
\* ProvisionService allows: each call writes only its own operation and
\* instance (lines 158-198), answers once, and answers 202 only with a saved
\* operation of its instance and parameters whose instance is saved
\* (lines 200-210 and 382-404).  This is the safety part of
\* ImplementsService; that every call is answered is checked by TLC.
THEOREM ProvisionRefinement == Spec => Service!SafetySpec
BY InitRefines, NextRefines, InitPInv, NextPInv, PTL DEF Spec, Service!SafetySpec

=============================================================================
