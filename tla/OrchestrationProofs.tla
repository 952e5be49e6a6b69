------------------------- MODULE OrchestrationProofs -------------------------
(***************************************************************************)
(* Machine-checked proofs about the Orchestration model: type correctness *)
(* for every fleet, every target set and every fault bound.               *)
(***************************************************************************)
EXTENDS Orchestration, FiniteSetTheorems, TLAPS

USE ConstantsAssumption

-----------------------------------------------------------------------------
(* Lemmas about the helpers the actions are built from.                    *)

\* The statistics the poll loop reads are natural numbers: they count a
\* subset of the finite fleet.
LEMMA CountLatestNat ==
    ASSUME NEW S
    PROVE  CountLatest(S) \in Nat
<1>1. {r \in Runtimes : Latest(r) \in S} \subseteq Runtimes
  OBVIOUS
<1>2. IsFiniteSet({r \in Runtimes : Latest(r) \in S})
  BY <1>1, FS_Subset
<1>. QED
  BY <1>2, FS_CardinalityType DEF CountLatest

\* Creating operations (factory.NewOperation) keeps the operation log typed
\* and names fresh operations <<r, i>> with i a positive index.
LEMMA CreateOpsType ==
    ASSUME NEW S, ops \in [Runtimes -> Seq(OpStates)]
    PROVE  /\ CreateOps(S) \in [Runtimes -> Seq(OpStates)]
           /\ S \subseteq Runtimes => NewOpIds(S) \subseteq OpIds
<1>1. CreateOps(S) \in [Runtimes -> Seq(OpStates)]
  BY DEF CreateOps, OpStates
<1>2. ASSUME S \subseteq Runtimes PROVE NewOpIds(S) \subseteq OpIds
  BY <1>2 DEF NewOpIds, OpIds
<1>. QED
  BY <1>1, <1>2

\* Every existing operation record has an identifier in OpIds; in
\* particular the ones ResumeOperations returns.
LEMMA AllOpsType ==
    ASSUME ops \in [Runtimes -> Seq(OpStates)]
    PROVE  /\ AllOps \subseteq OpIds
           /\ NotFinishedOps \subseteq OpIds
<1>1. AllOps \subseteq OpIds
  <2>. SUFFICES ASSUME NEW r \in Runtimes, NEW i \in DOMAIN ops[r]
                PROVE  <<r, i>> \in OpIds
    BY DEF AllOps
  <2>1. i \in 1..Len(ops[r])
    OBVIOUS
  <2>. QED
    BY <2>1 DEF OpIds
<1>. QED
  BY <1>1 DEF NotFinishedOps

\* CancelOperations and the change of one operation's state keep the
\* operation log typed.
LEMMA CancelPendingType ==
    ASSUME ops \in [Runtimes -> Seq(OpStates)]
    PROVE  CancelPending \in [Runtimes -> Seq(OpStates)]
<1>. SUFFICES ASSUME NEW r \in Runtimes
              PROVE  CancelPending[r] \in Seq(OpStates)
  BY DEF CancelPending
<1>1. CancelPending[r] = [i \in 1..Len(ops[r]) |->
                            IF ops[r][i] = "Pending" THEN "Canceled"
                            ELSE ops[r][i]]
  BY DEF CancelPending
<1>. QED
  BY <1>1 DEF OpStates

LEMMA SetOpType ==
    ASSUME ops \in [Runtimes -> Seq(OpStates)], NEW id \in exec,
           exec \subseteq OpIds, id \in AllOps, NEW v \in OpStates
    PROVE  [ops EXCEPT ![id[1]][id[2]] = v] \in [Runtimes -> Seq(OpStates)]
<1>0. PICK r \in Runtimes : \E i \in DOMAIN ops[r] : id = <<r, i>>
  BY DEF AllOps
<1>1. PICK i \in DOMAIN ops[r] : id = <<r, i>>
  BY <1>0
<1>2. [ops[r] EXCEPT ![i] = v] \in Seq(OpStates)
  BY <1>1
<1>. QED
  BY <1>1, <1>2

-----------------------------------------------------------------------------
(* Type correctness.  TypeOK is split into its Boolean flags, which Zenon  *)
(* handles, and the rest, which SMT handles.                               *)

TypeBool == queued \in BOOLEAN /\ canceled \in BOOLEAN

TypeData ==
    /\ orch \in Orchs /\ o \in Orchs
    /\ ops \in [Runtimes -> Seq(OpStates)]
    /\ exec \subseteq OpIds /\ operations \subseteq OpIds
    /\ pc \in PCs
    /\ stats \in [notFinished : Nat, inProgress : Nat, failed : Nat]
    /\ notes \in [create : Nat, cancel : Nat]
    /\ faults \in 0..MaxFaults
    /\ requests \in 0..MaxRequests

\* Every operation Execute resolved or handed to the strategy is a record
\* of the store: it was created before, and records are never removed.
Known == \A id \in exec \cup operations : id[2] <= Len(ops[id[1]])

IInv == TypeOK /\ Known

\* Creating operations appends one record to each runtime of S.
LEMMA CreateOpsLen ==
    ASSUME NEW S, ops \in [Runtimes -> Seq(OpStates)], NEW r \in Runtimes
    PROVE  /\ Len(CreateOps(S)[r]) >= Len(ops[r])
           /\ r \in S => Len(CreateOps(S)[r]) = Len(ops[r]) + 1
  BY DEF CreateOps, OpStates

\* Known is kept by a step whose operation log only grows and whose new
\* resolved or executed operations N exist after the step.
LEMMA KnownGrow ==
    ASSUME TypeData, Known, NEW N,
           ops' \in [Runtimes -> Seq(OpStates)],
           \A r \in Runtimes : Len(ops'[r]) >= Len(ops[r]),
           exec' \cup operations' \subseteq exec \cup operations \cup N,
           \A id \in N : id[2] <= Len(ops'[id[1]]),
           exec \cup operations \subseteq OpIds
    PROVE  Known'
<1>. SUFFICES ASSUME NEW id \in exec' \cup operations'
              PROVE  id[2] <= Len(ops'[id[1]])
  BY DEF Known
<1>1. CASE id \in N
  BY <1>1
<1>2. CASE id \in exec \cup operations
  <2>1. id[1] \in Runtimes /\ id[2] \in Nat
    BY <1>2 DEF OpIds
  <2>2. id[2] <= Len(ops[id[1]])
    BY <1>2 DEF Known
  <2>. QED
    BY <2>1, <2>2, <1>2
<1>. QED
  BY <1>1, <1>2

\* The same for a step that resolves or executes no new operation.
LEMMA KnownKeep ==
    ASSUME TypeData, Known,
           ops' \in [Runtimes -> Seq(OpStates)],
           \A r \in Runtimes : Len(ops'[r]) >= Len(ops[r]),
           exec' \cup operations' \subseteq exec \cup operations
    PROVE  Known'
<1>. SUFFICES ASSUME NEW id \in exec' \cup operations'
              PROVE  id[2] <= Len(ops'[id[1]])
  BY DEF Known
<1>1. id \in exec \cup operations
  OBVIOUS
<1>2. id[1] \in Runtimes /\ id[2] \in Nat
  BY <1>1 DEF OpIds, TypeData
<1>3. id[2] <= Len(ops[id[1]])
  BY <1>1 DEF Known
<1>. QED
  BY <1>2, <1>3

\* The inductive invariant: the types, and Known.
LEMMA InitIInv == Init => IInv
<1>. SUFFICES ASSUME Init PROVE TypeData /\ TypeBool /\ Known
  BY Zenon DEF IInv, TypeOK, TypeData, TypeBool
<1>1. orch \in Orchs /\ o \in Orchs
  BY DEF Init, Orchs, OrchStates, NotifStates
<1>2. pc \in PCs
  BY DEF Init, PCs
<1>3. TypeData
  BY <1>1, <1>2 DEF Init, TypeData
<1>4. TypeBool
  BY Zenon DEF Init, TypeBool
<1>5. Known
  BY DEF Init, Known
<1>. QED
  BY <1>3, <1>4, <1>5

LEMMA NextIInv == IInv /\ [Next]_vars => IInv'
<1>. SUFFICES ASSUME TypeData, TypeBool, Known, [Next]_vars
              PROVE  TypeData' /\ TypeBool' /\ Known'
  BY Zenon DEF IInv, TypeOK, TypeData, TypeBool
<1>0. exec \cup operations \subseteq OpIds
  BY DEF TypeData
<1>1. CASE ExecuteResolve
  <2>1. CASE orch.state \in {"Pending", "Retrying"}
    <3>. PICK res \in Resolutions :
           LET F == IF orch.state = "Pending" THEN res
                    ELSE orch.retry \cap res
           IN /\ ops' = CreateOps(F)
              /\ operations' = NewOpIds(F)
              /\ o' = [orch EXCEPT
                        !.state = IF F # {} THEN "InProgress"
                                            ELSE "Succeeded",
                        !.retry = IF orch.state = "Retrying" THEN {}
                                  ELSE @]
      BY <1>1, <2>1 DEF ExecuteResolve
    <3>. DEFINE F == IF orch.state = "Pending" THEN res
                     ELSE orch.retry \cap res
    <3>1. F \subseteq Runtimes
      BY DEF Resolutions, Orchs, TypeData
    <3>2. ops' \in [Runtimes -> Seq(OpStates)] /\ operations' \subseteq OpIds
      BY <3>1, CreateOpsType DEF TypeData
    <3>3. o' \in Orchs
      BY DEF Orchs, OrchStates, TypeData
    <3>0. pc' = "resolved" /\ UNCHANGED <<orch, exec, stats, notes, faults, requests>>
      BY <1>1 DEF ExecuteResolve
    <3>4. TypeData'
      BY <3>0, <3>2, <3>3 DEF PCs, TypeData
    <3>5. \A r \in Runtimes : Len(ops'[r]) >= Len(ops[r])
      BY CreateOpsLen DEF TypeData
    <3>6. \A id \in NewOpIds(F) : id[2] <= Len(ops'[id[1]])
      BY <3>1, CreateOpsLen DEF NewOpIds, TypeData
    <3>7. exec' \cup operations' \subseteq exec \cup operations \cup NewOpIds(F)
      BY <1>1 DEF ExecuteResolve
    <3>8. Known'
      BY <1>0, <3>2, <3>5, <3>6, <3>7, KnownGrow
    <3>9. TypeBool'
      BY <1>1, Zenon DEF ExecuteResolve, TypeBool
    <3>. QED
      BY <3>4, <3>8, <3>9
  <2>2. CASE orch.state \notin {"Pending", "Retrying"}
    <3>1. operations' = NotFinishedOps /\ ops' = ops /\ exec' = exec
      BY <1>1, <2>2 DEF ExecuteResolve
    <3>0. /\ pc' = "resolved" /\ o' = orch
          /\ UNCHANGED <<orch, stats, notes, faults, requests>>
      BY <1>1, <2>2 DEF ExecuteResolve
    <3>2. TypeData'
      BY <3>0, <3>1, AllOpsType DEF PCs, TypeData
    <3>3. Known'
      <4>. SUFFICES ASSUME NEW id \in exec' \cup operations'
                    PROVE  id[2] <= Len(ops'[id[1]])
        BY DEF Known
      <4>1. CASE id \in exec
        BY <3>1, <4>1 DEF Known
      <4>2. CASE id \in NotFinishedOps
        <5>. PICK r \in Runtimes : \E i \in DOMAIN ops[r] : id = <<r, i>>
          BY <4>2 DEF NotFinishedOps, AllOps
        <5>. PICK i \in DOMAIN ops[r] : id = <<r, i>>
          OBVIOUS
        <5>. QED
          BY <3>1 DEF TypeData
      <4>. QED
        BY <3>1, <4>1, <4>2
    <3>4. TypeBool'
      BY <1>1, Zenon DEF ExecuteResolve, TypeBool
    <3>. QED
      BY <3>2, <3>3, <3>4
  <2>. QED
    BY <2>1, <2>2
<1>2. CASE ExecuteResolveFail
  <2>1. PICK created \in SUBSET Targets : ops' = CreateOps(created)
    BY <1>2 DEF ExecuteResolveFail
  <2>2. ops' \in [Runtimes -> Seq(OpStates)]
    BY <2>1, CreateOpsType DEF TypeData
  <2>3. orch' \in Orchs
    BY <1>2 DEF ExecuteResolveFail, Orchs, OrchStates, TypeData
  <2>4. TypeData'
    BY <1>2, <2>2, <2>3 DEF ExecuteResolveFail, Fault, workerVars, TypeData
  <2>5. TypeBool'
    BY <1>2, Zenon DEF ExecuteResolveFail, workerVars, TypeBool
  <2>6. Known'
    <3>1. \A r \in Runtimes : Len(ops'[r]) >= Len(ops[r])
      BY <2>1, CreateOpsLen DEF TypeData
    <3>2. exec' \cup operations' \subseteq exec \cup operations
      BY <1>2 DEF ExecuteResolveFail, workerVars
    <3>. QED
      BY <2>2, <3>1, <3>2, KnownKeep
  <2>. QED
    BY <2>4, <2>5, <2>6
<1>3. CASE ExecutePersist
  <2>0. o' \in Orchs
    BY <1>3 DEF ExecutePersist, Orchs, NotifStates, TypeData
  <2>1. TypeData'
    BY <1>3, <2>0 DEF ExecutePersist, PCs, TypeData
  <2>2. TypeBool'
    BY <1>3, Zenon DEF ExecutePersist, TypeBool
  <2>3. Known'
    BY <1>3 DEF ExecutePersist, Known
  <2>. QED
    BY <2>1, <2>2, <2>3
<1>4. CASE ExecutePersistFail
  <2>1. TypeData'
    BY <1>4 DEF ExecutePersistFail, Fault, PCs, TypeData
  <2>2. TypeBool'
    BY <1>4, Zenon DEF ExecutePersistFail, TypeBool
  <2>3. Known'
    BY <1>4 DEF ExecutePersistFail, Known
  <2>. QED
    BY <2>1, <2>2, <2>3
<1>5. CASE ExecuteNotifyFail
  <2>1. TypeData'
    BY <1>5 DEF ExecuteNotifyFail, Fault, PCs, TypeData
  <2>2. TypeBool'
    BY <1>5, Zenon DEF ExecuteNotifyFail, TypeBool
  <2>3. Known'
    BY <1>5 DEF ExecuteNotifyFail, Known
  <2>. QED
    BY <2>1, <2>2, <2>3
<1>6. CASE PollTick
  <2>1. /\ CountLatest(Active) \in Nat
        /\ CountLatest({"InProgress"}) \in Nat
        /\ CountLatest({"Failed"}) \in Nat
    BY CountLatestNat
  <2>2. TypeData'
    BY <1>6, <2>1 DEF PollTick, PCs, TypeData
  <2>3. TypeBool'
    BY <1>6, Zenon DEF PollTick, TypeBool
  <2>4. Known'
    BY <1>6 DEF PollTick, Known
  <2>. QED
    BY <2>2, <2>3, <2>4
<1>7. CASE PollRetry
  <2>0. PICK res \in Resolutions :
         /\ ops' = CreateOps(o.retry \cap res)
         /\ exec' = exec \cup NewOpIds(o.retry \cap res)
    BY <1>7 DEF PollRetry
  <2>. DEFINE F == o.retry \cap res
  <2>1. F \subseteq Runtimes
    BY DEF Orchs, TypeData
  <2>2. /\ ops' \in [Runtimes -> Seq(OpStates)]
        /\ exec' \subseteq OpIds
    BY <2>0, <2>1, CreateOpsType DEF TypeData
  <2>6. o' \in Orchs /\ orch' \in Orchs
    BY <1>7 DEF PollRetry, Orchs, OrchStates, TypeData
  <2>3. TypeData'
    BY <1>7, <2>2, <2>6 DEF PollRetry, Orchs, OrchStates, PCs, TypeData
  <2>4. TypeBool'
    BY <1>7, Zenon DEF PollRetry, TypeBool
  <2>5. Known'
    <3>1. \A r \in Runtimes : Len(ops'[r]) >= Len(ops[r])
      BY <2>0, CreateOpsLen DEF TypeData
    <3>2. \A id \in NewOpIds(F) : id[2] <= Len(ops'[id[1]])
      <4>. SUFFICES ASSUME NEW r \in F PROVE Len(ops[r]) + 1 <= Len(ops'[r])
        BY DEF NewOpIds
      <4>1. r \in Runtimes
        BY <2>1
      <4>2. Len(CreateOps(F)[r]) = Len(ops[r]) + 1
        BY <4>1, CreateOpsLen DEF TypeData
      <4>. QED
        BY <2>0, <4>2
    <3>3. exec' \cup operations' \subseteq exec \cup operations \cup NewOpIds(F)
      BY <1>7, <2>0 DEF PollRetry
    <3>. QED
      BY <1>0, <2>2, <3>1, <3>2, <3>3, KnownGrow
  <2>. QED
    BY <2>3, <2>4, <2>5
<1>8. CASE PollRetryResolveFail
  <2>1. TypeData'
    BY <1>8 DEF PollRetryResolveFail, Fault, Orchs, PCs, TypeData
  <2>2. TypeBool'
    BY <1>8, Zenon DEF PollRetryResolveFail, TypeBool
  <2>3. Known'
    BY <1>8 DEF PollRetryResolveFail, Known
  <2>. QED
    BY <2>1, <2>2, <2>3
<1>9. CASE PollRetryUpdateFail
  <2>0. PICK res \in Resolutions :
         /\ ops' = CreateOps(o.retry \cap res)
         /\ exec' = exec \cup NewOpIds(o.retry \cap res)
    BY <1>9 DEF PollRetryUpdateFail
  <2>. DEFINE F == o.retry \cap res
  <2>1. F \subseteq Runtimes
    BY DEF Orchs, TypeData
  <2>2. /\ ops' \in [Runtimes -> Seq(OpStates)]
        /\ exec' \subseteq OpIds
    BY <2>0, <2>1, CreateOpsType DEF TypeData
  <2>6. /\ pc' = "poll" /\ faults' = faults + 1 /\ faults < MaxFaults
        /\ UNCHANGED <<orch, o, operations, stats, notes, requests>>
    BY <1>9 DEF PollRetryUpdateFail, Fault
  <2>3. TypeData'
    BY <2>2, <2>6 DEF PCs, TypeData
  <2>4. TypeBool'
    BY <1>9, Zenon DEF PollRetryUpdateFail, TypeBool
  <2>5. Known'
    <3>1. \A r \in Runtimes : Len(ops'[r]) >= Len(ops[r])
      BY <2>0, CreateOpsLen DEF TypeData
    <3>2. \A id \in NewOpIds(F) : id[2] <= Len(ops'[id[1]])
      <4>. SUFFICES ASSUME NEW r \in F PROVE Len(ops[r]) + 1 <= Len(ops'[r])
        BY DEF NewOpIds
      <4>1. r \in Runtimes
        BY <2>1
      <4>2. Len(CreateOps(F)[r]) = Len(ops[r]) + 1
        BY <4>1, CreateOpsLen DEF TypeData
      <4>. QED
        BY <2>0, <4>2
    <3>3. exec' \cup operations' \subseteq exec \cup operations \cup NewOpIds(F)
      BY <1>9, <2>0 DEF PollRetryUpdateFail
    <3>. QED
      BY <1>0, <2>2, <3>1, <3>2, <3>3, KnownGrow
  <2>. QED
    BY <2>3, <2>4, <2>5
<1>10. CASE ResolveCanceled
  <2>1. ops' \in [Runtimes -> Seq(OpStates)]
    BY <1>10, CancelPendingType DEF ResolveCanceled, TypeData
  <2>0. o' \in Orchs
    BY <1>10 DEF ResolveCanceled, Orchs, OrchStates, NotifStates, TypeData
  <2>2. TypeData'
    BY <1>10, <2>0, <2>1 DEF ResolveCanceled, Fault, PCs, TypeData
  <2>3. TypeBool'
    BY <1>10, Zenon DEF ResolveCanceled, TypeBool
  <2>4. Known'
    <3>1. \A r \in Runtimes : Len(ops'[r]) >= Len(ops[r])
      BY <1>10 DEF ResolveCanceled, CancelPending, TypeData
    <3>2. exec' \cup operations' \subseteq exec \cup operations
      BY <1>10 DEF ResolveCanceled
    <3>. QED
      BY <2>1, <3>1, <3>2, KnownKeep
  <2>. QED
    BY <2>2, <2>3, <2>4
<1>11. CASE ResolveCancelFail
  <2>1. TypeData'
    BY <1>11 DEF ResolveCancelFail, Fault, PCs, TypeData
  <2>2. TypeBool'
    BY <1>11, Zenon DEF ResolveCancelFail, TypeBool
  <2>3. Known'
    BY <1>11 DEF ResolveCancelFail, Known
  <2>. QED
    BY <2>1, <2>2, <2>3
<1>12. CASE ResolveCompleted
  <2>1. TypeData'
    BY <1>12 DEF ResolveCompleted, Orchs, OrchStates, PCs, TypeData
  <2>2. TypeBool'
    BY <1>12, Zenon DEF ResolveCompleted, TypeBool
  <2>3. Known'
    BY <1>12 DEF ResolveCompleted, Known
  <2>. QED
    BY <2>1, <2>2, <2>3
<1>13. CASE ExecuteFinish
  <2>1. TypeData'
    BY <1>13 DEF ExecuteFinish, Fault, PCs, TypeData
  <2>2. TypeBool'
    BY <1>13, Zenon DEF ExecuteFinish, TypeBool
  <2>3. Known'
    BY <1>13 DEF ExecuteFinish, Known
  <2>. QED
    BY <2>1, <2>2, <2>3
<1>14. CASE OpStep
  <2>. PICK id \in exec : OpStart(id) \/ OpEnd(id)
    BY <1>14 DEF OpStep
  <2>1. id \in AllOps
    <3>. PICK r \in Runtimes, i \in Nat \ {0} : id = <<r, i>>
      BY DEF OpIds, TypeData
    <3>1. i \in DOMAIN ops[r]
      BY DEF Known, TypeData
    <3>. QED
      BY <3>1 DEF AllOps
  <2>2. PICK v \in OpStates : ops' = [ops EXCEPT ![id[1]][id[2]] = v]
    BY DEF OpStart, OpEnd, OpStates
  <2>3. ops' \in [Runtimes -> Seq(OpStates)]
    BY <2>1, <2>2, SetOpType DEF TypeData
  <2>4. TypeData'
    BY <2>3 DEF OpStart, OpEnd, workerVars, TypeData
  <2>5. TypeBool'
    BY Zenon DEF OpStart, OpEnd, workerVars, TypeBool
  <2>6. Known'
    <3>1. \A r \in Runtimes : Len(ops'[r]) >= Len(ops[r])
      BY <2>2 DEF TypeData
    <3>2. exec' \cup operations' \subseteq exec \cup operations
      BY DEF OpStart, OpEnd, workerVars
    <3>. QED
      BY <2>3, <3>1, <3>2, KnownKeep
  <2>. QED
    BY <2>4, <2>5, <2>6
<1>15. CASE RequestCancel
  <2>0. orch' \in Orchs
    BY <1>15 DEF RequestCancel, Orchs, OrchStates, TypeData
  <2>1. TypeData'
    BY <1>15, <2>0 DEF RequestCancel, workerVars, TypeData
  <2>2. TypeBool'
    BY <1>15, Zenon DEF RequestCancel, workerVars, TypeBool
  <2>3. Known'
    BY <1>15 DEF RequestCancel, workerVars, Known
  <2>. QED
    BY <2>1, <2>2, <2>3
<1>16. CASE RequestRetry
  <2>0. orch' \in Orchs
    <3>. PICK S \in SUBSET {r \in Runtimes : Latest(r) = "Failed"} :
           orch' = [orch EXCEPT !.retry = @ \cup S,
                                !.state = IF @ = "Failed" THEN "Retrying"
                                          ELSE @]
      BY <1>16 DEF RequestRetry
    <3>. QED
      BY DEF Orchs, OrchStates, TypeData
  <2>1. TypeData'
    BY <1>16, <2>0 DEF RequestRetry, workerVars, TypeData
  <2>2. TypeBool'
    BY <1>16, Zenon DEF RequestRetry, workerVars, TypeBool
  <2>3. Known'
    BY <1>16 DEF RequestRetry, workerVars, Known
  <2>. QED
    BY <2>1, <2>2, <2>3
<1>17. CASE CrashRestart
  <2>1. TypeData'
    BY <1>17 DEF CrashRestart, Fault, PCs, TypeData
  <2>2. TypeBool'
    BY <1>17, Zenon DEF CrashRestart, Reprocessed, TypeBool
  <2>3. Known'
    BY <1>17 DEF CrashRestart, Reprocessed, Known
  <2>. QED
    BY <2>1, <2>2, <2>3
<1>18. CASE UNCHANGED vars
  <2>1. TypeData'
    BY <1>18 DEF vars, TypeData
  <2>2. TypeBool'
    BY <1>18, Zenon DEF vars, TypeBool
  <2>3. Known'
    BY <1>18 DEF vars, Known
  <2>. QED
    BY <2>1, <2>2, <2>3
<1>19. CASE PollRetryLookupFail
  <2>0. o' \in Orchs /\ orch' \in Orchs
    BY <1>19 DEF PollRetryLookupFail, Orchs, OrchStates, TypeData
  <2>1. TypeData'
    BY <1>19, <2>0 DEF PollRetryLookupFail, Fault, PCs, TypeData
  <2>2. TypeBool'
    BY <1>19, Zenon DEF PollRetryLookupFail, TypeBool
  <2>3. Known'
    BY <1>19 DEF PollRetryLookupFail, Known
  <2>. QED
    BY <2>1, <2>2, <2>3
<1>. QED
  BY <1>1, <1>2, <1>3, <1>4, <1>5, <1>6, <1>7, <1>8, <1>9, <1>10, <1>11,
     <1>12, <1>13, <1>14, <1>15, <1>16, <1>17, <1>18, <1>19 DEF Next, Worker

\* Every state Execute, the operations' workers, the API and a restart can
\* reach has the types TypeOK names: in particular the counters of faults
\* and requests stay within their bounds, and every operation handed to the
\* strategy names an operation slot <<runtime, positive index>>.
THEOREM TypeCorrect == Spec => []TypeOK
<1>1. IInv => TypeOK
  BY DEF IInv
<1>. QED
  BY <1>1, InitIInv, NextIInv, PTL DEF Spec

=============================================================================
