------------------------- MODULE OrchestrationSafety -------------------------
(***************************************************************************)
(* Proofs of the two safety invariants the orchestration run checks,      *)
(* AtMostOneActiveOp and CanceledMeansQuiescent, for every fleet and every *)
(* bound, when the environment's faults are temporary notification errors *)
(* and fleet changes.  Crashes, failed store writes and resolver errors    *)
(* break both (runs duplicate_ops and the README): Execute creates a       *)
(* runtime's operations before it persists the orchestration               *)
(* (manager.go lines 61-80), and whatever stops it in between makes the    *)
(* next call create them again.                                           *)
(*                                                                         *)
(* Then an action property that holds under every fault: a Canceled      *)
(* orchestration stays Canceled.                                           *)
(***************************************************************************)
EXTENDS OrchestrationProofs

USE ConstantsAssumption

\* The faults under which the theorems hold.
NoFailFaults == FaultKinds \subseteq {"notifError", "fleetChange"}

-----------------------------------------------------------------------------
(* The inductive invariant.                                                *)

\* Only the latest operation of a runtime may be Pending or InProgress:
\* a new operation is created only after the previous one finished.
OnlyLatestActive ==
    \A r \in Runtimes : \A i \in DOMAIN ops[r] :
        ops[r][i] \in Active => i = Len(ops[r])

\* Runtime r may be given a new operation: its latest one is finished.
Settled(r) == Latest(r) \notin Active

\* No operation runs; and none waits or runs.
NoInProgress ==
    \A r \in Runtimes : \A i \in DOMAIN ops[r] : ops[r][i] # "InProgress"
NoActive ==
    \A r \in Runtimes : \A i \in DOMAIN ops[r] : ops[r][i] \notin Active

\* A Pending orchestration was never resolved: while the worker is idle it
\* has no operation, and it has no runtime to retry.
PendingFresh ==
    /\ orch.state = "Pending" =>
          /\ orch.retry = {}
          /\ pc \in {"idle", "resolved"}
          /\ pc = "idle" => \A r \in Runtimes : Settled(r)
    /\ pc # "idle" => o.state # "Pending"

\* The runtimes to retry have finished operations, in the store (except
\* between the resolution of a Retrying orchestration, which created their
\* operations, and its Update) and in the worker's copy.
RetrySettled ==
    /\ (pc = "resolved" /\ orch.state = "Retrying")
          \/ \A r \in orch.retry : Settled(r)
    /\ pc # "idle" => \A r \in o.retry : Settled(r)

\* How a cancel travels from the store through the worker's copy: the copy
\* is Canceling only while the store is, and once the poll loop saw no
\* InProgress operation none is started again; the copy is Canceled only
\* after CancelOperations, and the store only after the copy.
CancelChain ==
    /\ orch.state = "Canceled" => NoActive /\ pc \in {"idle", "resolved"}
    /\ pc \in {"poll", "retry", "resolve"} => o.state # "Canceled"
    /\ (pc \in {"resolved", "final"} /\ o.state = "Canceled") => NoActive
    /\ (pc = "retry" /\ o.state = "Canceling") =>
          /\ orch.state = "Canceling"
          /\ canceled
          /\ stats.inProgress = 0 => NoInProgress
    /\ (pc = "resolve" /\ o.state = "Canceling") =>
          orch.state = "Canceling" /\ NoInProgress

OInv == IInv /\ OnlyLatestActive /\ PendingFresh /\ RetrySettled /\ CancelChain


-----------------------------------------------------------------------------
(* A Canceled orchestration stays Canceled, under every fault.             *)

\* The store shows Canceled only while the worker is idle or has just read
\* that Canceled record; inside the poll loop the worker's copy is never
\* Canceled.
CanceledHeld ==
    /\ orch.state = "Canceled" =>
          /\ pc \in {"idle", "resolved"}
          /\ pc = "resolved" => o.state = "Canceled"
    /\ pc \in {"poll", "retry", "resolve"} => o.state # "Canceled"

-----------------------------------------------------------------------------
(* Lemmas about the operation log.                                         *)

\* When the poll loop counts no runtime whose latest operation is in S, no
\* runtime's latest operation is in S.
LEMMA CountLatestZero ==
    ASSUME NEW S, CountLatest(S) = 0
    PROVE  \A r \in Runtimes : Latest(r) \notin S
<1>1. IsFiniteSet({r \in Runtimes : Latest(r) \in S})
  BY FS_Subset
<1>2. {r \in Runtimes : Latest(r) \in S} = {}
  BY <1>1, FS_EmptySet DEF CountLatest
<1>. QED
  BY <1>2

\* Statistics that count only latest operations see every running one,
\* since no other can run.
LEMMA LatestSeesAll ==
    ASSUME ops \in [Runtimes -> Seq(OpStates)], OnlyLatestActive,
           \A r \in Runtimes : Latest(r) # "InProgress"
    PROVE  NoInProgress
<1>. SUFFICES ASSUME NEW r \in Runtimes, NEW i \in DOMAIN ops[r],
                     ops[r][i] = "InProgress"
              PROVE  FALSE
  BY DEF NoInProgress
<1>1. i = Len(ops[r]) /\ ops[r] # <<>>
  BY DEF OnlyLatestActive, Active
<1>. QED
  BY <1>1 DEF Latest

\* OnlyLatestActive bounds the active operations of a runtime by one.
LEMMA OnlyLatestAtMostOne ==
    ASSUME ops \in [Runtimes -> Seq(OpStates)], OnlyLatestActive
    PROVE  AtMostOneActiveOp
<1>. SUFFICES ASSUME NEW r \in Runtimes
              PROVE  Cardinality({i \in DOMAIN ops[r] : ops[r][i] \in Active}) <= 1
  BY DEF AtMostOneActiveOp
<1>. DEFINE A == {i \in DOMAIN ops[r] : ops[r][i] \in Active}
<1>1. A \subseteq {Len(ops[r])}
  BY DEF OnlyLatestActive
<1>2. IsFiniteSet({Len(ops[r])}) /\ Cardinality({Len(ops[r])}) = 1
  BY FS_Singleton
<1>. QED
  BY <1>1, <1>2, FS_Subset

\* NoActive is the consequent of CanceledMeansQuiescent.
LEMMA NoActiveQuiescent ==
    ASSUME NoActive
    PROVE  \A id \in AllOps : OpState(id) \notin Active
  BY DEF NoActive, AllOps, OpState

\* Creating a Pending operation for runtimes whose latest one finished
\* keeps OnlyLatestActive and leaves the other runtimes as they were.
LEMMA CreateOpsSafe ==
    ASSUME ops \in [Runtimes -> Seq(OpStates)], OnlyLatestActive,
           NEW F \in SUBSET Runtimes, \A r \in F : Settled(r),
           ops' = CreateOps(F)
    PROVE  /\ OnlyLatestActive'
           /\ \A r \in Runtimes \ F : ops'[r] = ops[r]
<1>1. \A r \in Runtimes \ F : ops'[r] = ops[r]
  BY DEF CreateOps
<1>2. ASSUME NEW r \in F
      PROVE  \A i \in DOMAIN ops'[r] : ops'[r][i] \in Active => i = Len(ops'[r])
  <2>1. ops'[r] = Append(ops[r], "Pending")
    BY DEF CreateOps
  <2>2. \A i \in DOMAIN ops[r] : ops[r][i] \notin Active
    BY <1>2 DEF OnlyLatestActive, Settled, Latest
  <2>. QED
    BY <2>1, <2>2
<1>. QED
  BY <1>1, <1>2 DEF OnlyLatestActive

\* The step of an operation's worker changes an active operation, which
\* is its runtime's latest: OnlyLatestActive holds after it, and a
\* runtime's latest operation that finished stays finished.
LEMMA SetOpSafe ==
    ASSUME ops \in [Runtimes -> Seq(OpStates)], OnlyLatestActive,
           NEW r \in Runtimes, NEW i \in DOMAIN ops[r], ops[r][i] \in Active,
           NEW v \in OpStates, ops' = [ops EXCEPT ![r][i] = v]
    PROVE  /\ OnlyLatestActive'
           /\ \A q \in Runtimes : Settled(q) => Settled(q)'
           /\ v # "InProgress" => (NoInProgress => NoInProgress')
<1>1. i = Len(ops[r])
  BY DEF OnlyLatestActive
<1>2. ops'[r] = [ops[r] EXCEPT ![i] = v] /\ \A q \in Runtimes \ {r} : ops'[q] = ops[q]
  OBVIOUS
<1>3. OnlyLatestActive'
  BY <1>1, <1>2 DEF OnlyLatestActive
<1>4. \A q \in Runtimes : Settled(q) => Settled(q)'
  BY <1>1, <1>2 DEF Settled, Latest
<1>5. v # "InProgress" => (NoInProgress => NoInProgress')
  BY <1>2 DEF NoInProgress
<1>. QED
  BY <1>3, <1>4, <1>5

\* CancelOperations cancels the Pending operations: OnlyLatestActive and
\* finished latest operations are kept, and with nothing InProgress
\* nothing is left active.
LEMMA CancelPendingSafe ==
    ASSUME ops \in [Runtimes -> Seq(OpStates)], OnlyLatestActive,
           ops' = CancelPending
    PROVE  /\ OnlyLatestActive'
           /\ \A q \in Runtimes : Settled(q) => Settled(q)'
           /\ NoInProgress => NoActive'
<1>1. \A q \in Runtimes : /\ DOMAIN ops'[q] = DOMAIN ops[q]
                          /\ \A i \in DOMAIN ops[q] :
                               ops'[q][i] = IF ops[q][i] = "Pending"
                                            THEN "Canceled" ELSE ops[q][i]
  BY DEF CancelPending
<1>2. \A q \in Runtimes : Len(ops'[q]) = Len(ops[q])
  BY <1>1 DEF CancelPending
<1>3. OnlyLatestActive'
  BY <1>1, <1>2 DEF OnlyLatestActive, Active
<1>4. \A q \in Runtimes : Settled(q) => Settled(q)'
  BY <1>1, <1>2 DEF Settled, Latest, Active
<1>5. NoInProgress => NoActive'
  BY <1>1 DEF NoInProgress, NoActive, Active
<1>. QED
  BY <1>3, <1>4, <1>5

\* After the step, every runtime whose latest operation had finished still
\* has a finished latest operation.
SettledKept == \A q \in Runtimes : Settled(q) => Settled(q)'

LEMMA SettledSub ==
    ASSUME NEW R \in SUBSET Runtimes, \A r \in R : Settled(r), SettledKept
    PROVE  \A r \in R : Settled(r)'
  BY DEF SettledKept

\* A step that leaves the operation log alone keeps every fact about it.
LEMMA OpsSame ==
    ASSUME ops' = ops
    PROVE  /\ SettledKept
           /\ OnlyLatestActive' <=> OnlyLatestActive
           /\ NoActive' <=> NoActive
           /\ NoInProgress' <=> NoInProgress
  BY DEF SettledKept, Settled, Latest, OnlyLatestActive, NoActive, NoInProgress

-----------------------------------------------------------------------------
(* OInv is inductive.                                                      *)

LEMMA InitOInv == Init => OInv
<1>. SUFFICES ASSUME Init
              PROVE  OnlyLatestActive /\ PendingFresh /\ RetrySettled /\ CancelChain
  BY InitIInv DEF OInv
<1>1. \A r \in Runtimes : ops[r] = <<>>
  BY DEF Init
<1>2. OnlyLatestActive /\ \A r \in Runtimes : Settled(r)
  BY <1>1 DEF OnlyLatestActive, Settled, Latest, Active
<1>. QED
  BY <1>2 DEF Init, PendingFresh, RetrySettled, CancelChain

\* The worker's steps under the faults NoFailFaults allows: a crash, a
\* failed store write and a resolver error never happen.
LEMMA NoFault ==
    ASSUME NoFailFaults
    PROVE  ~Fault("crash") /\ ~Fault("storeError") /\ ~Fault("resolveError")
  BY DEF Fault, NoFailFaults

LEMMA NextOInv == NoFailFaults /\ OInv /\ [Next]_vars => OInv'
<1>. SUFFICES ASSUME NoFailFaults, IInv, OnlyLatestActive, PendingFresh,
                     RetrySettled, CancelChain, [Next]_vars
              PROVE  OnlyLatestActive' /\ PendingFresh' /\ RetrySettled'
                     /\ CancelChain'
  BY NextIInv DEF OInv
<1>0. TypeData
  BY DEF IInv, TypeOK, TypeData
<1>f. ~Fault("crash") /\ ~Fault("storeError") /\ ~Fault("resolveError")
  BY NoFault
<1>1. CASE ExecuteResolve
  <2>0. pc = "idle" /\ pc' = "resolved" /\ orch' = orch
    BY <1>1 DEF ExecuteResolve
  <2>1. CASE orch.state \in {"Pending", "Retrying"}
    <3>a. \E res \in Resolutions :
           LET F == IF orch.state = "Pending" THEN res
                    ELSE orch.retry \cap res
           IN /\ ops' = CreateOps(F)
              /\ o' = [orch EXCEPT
                        !.state = IF F # {} THEN "InProgress"
                                            ELSE "Succeeded",
                        !.retry = IF orch.state = "Retrying" THEN {}
                                  ELSE @]
      <4>1. ~(orch.state \notin {"Pending", "Retrying"})
        BY <2>1
      <4>. QED
        BY <1>1, <4>1 DEF ExecuteResolve
    <3>. PICK res \in Resolutions :
           LET F == IF orch.state = "Pending" THEN res
                    ELSE orch.retry \cap res
           IN /\ ops' = CreateOps(F)
              /\ o' = [orch EXCEPT
                        !.state = IF F # {} THEN "InProgress"
                                            ELSE "Succeeded",
                        !.retry = IF orch.state = "Retrying" THEN {}
                                  ELSE @]
      BY <3>a
    <3>. DEFINE F == IF orch.state = "Pending" THEN res
                     ELSE orch.retry \cap res
    <3>0. ops' = CreateOps(F)
      OBVIOUS
    <3>1. F \subseteq Runtimes
      BY <1>0 DEF Resolutions, Orchs, TypeData
    <3>2. \A r \in F : Settled(r)
      <4>1. CASE orch.state = "Pending"
        <5>1. \A r \in Runtimes : Settled(r)
          BY <2>0, <4>1 DEF PendingFresh
        <5>. QED
          BY <3>1, <4>1, <5>1
      <4>2. CASE orch.state # "Pending"
        <5>1. \A r \in orch.retry : Settled(r)
          BY <2>0 DEF RetrySettled
        <5>. QED
          BY <4>2, <5>1
      <4>. QED
        BY <4>1, <4>2
    <3>3. OnlyLatestActive'
      BY <1>0, <3>0, <3>1, <3>2, CreateOpsSafe DEF TypeData
    <3>4. orch.state = "Pending" => orch.retry = {}
      BY DEF PendingFresh
    <3>5. o'.state # "Pending" /\ o'.retry = {}
      <4>1. o' = [orch EXCEPT !.state = IF F # {} THEN "InProgress"
                                        ELSE "Succeeded",
                              !.retry = IF orch.state = "Retrying" THEN {}
                                        ELSE orch.retry]
        OBVIOUS
      <4>2. o'.state \in {"InProgress", "Succeeded"}
        BY <1>0, <4>1 DEF Orchs, TypeData
      <4>3. o'.retry = {}
        BY <1>0, <3>4, <4>1, <2>1 DEF Orchs, TypeData
      <4>. QED
        BY <4>2, <4>3
    <3>6. PendingFresh'
      BY <2>0, <3>4, <3>5 DEF PendingFresh
    <3>7. RetrySettled'
      BY <2>0, <2>1, <3>4, <3>5 DEF RetrySettled
    <3>8. CancelChain'
      BY <2>0, <2>1 DEF CancelChain
    <3>. QED
      BY <3>3, <3>6, <3>7, <3>8
  <2>2. CASE orch.state \notin {"Pending", "Retrying"}
    <3>1. ops' = ops /\ o' = orch
      BY <1>1, <2>2 DEF ExecuteResolve
    <3>2. \A r \in Runtimes : Settled(r)' <=> Settled(r)
      BY <3>1 DEF Settled, Latest
    <3>3. OnlyLatestActive' /\ (NoActive' <=> NoActive)
      BY <3>1 DEF OnlyLatestActive, NoActive
    <3>4. PendingFresh'
      BY <2>0, <2>2, <3>1 DEF PendingFresh
    <3>5. RetrySettled'
      <4>1. \A r \in orch.retry : Settled(r)
        BY <2>0 DEF RetrySettled
      <4>2. \A r \in orch.retry : Settled(r)'
        BY <1>0, <4>1, <3>2 DEF Orchs, TypeData
      <4>. QED
        BY <2>0, <3>1, <4>2 DEF RetrySettled
    <3>6. CancelChain'
      BY <2>0, <3>1, <3>3 DEF CancelChain
    <3>. QED
      BY <3>3, <3>4, <3>5, <3>6
  <2>. QED
    BY <2>1, <2>2
<1>2. CASE ExecuteResolveFail
  BY <1>2, <1>f DEF ExecuteResolveFail
<1>3. CASE ExecutePersist
  <2>0. /\ pc = "resolved" /\ orch' = o /\ ops' = ops
        /\ o'.state = o.state /\ o'.retry = o.retry
        /\ pc' = IF o.state \in Finished THEN "idle" ELSE "poll"
    <3>1. pc = "resolved" /\ orch' = o /\ ops' = ops
      BY <1>3 DEF ExecutePersist
    <3>2. CASE o.state \in Finished
      BY <1>3, <3>1, <3>2 DEF ExecutePersist
    <3>3. CASE o.state \notin Finished
      <4>1. o' = o \/ o' = [o EXCEPT !.notif = "created"]
        BY <1>3, <3>3 DEF ExecutePersist
      <4>2. pc' = "poll"
        BY <1>3, <3>3 DEF ExecutePersist
      <4>3. o'.state = o.state /\ o'.retry = o.retry
        <5>1. CASE o' = o
          BY <5>1
        <5>2. CASE o' = [o EXCEPT !.notif = "created"]
          BY <1>0, <5>2 DEF Orchs, TypeData
        <5>. QED
          BY <4>1, <5>1, <5>2
      <4>. QED
        BY <3>1, <3>3, <4>2, <4>3
    <3>. QED
      BY <3>2, <3>3
  <2>1. \A r \in Runtimes : Settled(r)' <=> Settled(r)
    BY <2>0 DEF Settled, Latest
  <2>2. OnlyLatestActive' /\ (NoActive' <=> NoActive)
    BY <2>0 DEF OnlyLatestActive, NoActive
  <2>3. PendingFresh'
    BY <2>0 DEF PendingFresh, Finished
  <2>4. RetrySettled'
    <3>1. \A r \in o.retry : Settled(r)
      BY <2>0 DEF RetrySettled
    <3>2. \A r \in o.retry : Settled(r)'
      BY <1>0, <3>1, <2>1 DEF Orchs, TypeData
    <3>3. pc' # "resolved"
      BY <2>0
    <3>. QED
      BY <2>0, <3>2, <3>3 DEF RetrySettled
  <2>5. CancelChain'
    BY <2>0, <2>2 DEF CancelChain, Finished
  <2>. QED
    BY <2>2, <2>3, <2>4, <2>5
<1>4. CASE ExecutePersistFail
  BY <1>4, <1>f DEF ExecutePersistFail
<1>5. CASE ExecuteNotifyFail
  <2>0. /\ pc = "resolved" /\ orch' = o /\ ops' = ops /\ o' = o
        /\ pc' = "idle" /\ o.state \notin Finished
    BY <1>5 DEF ExecuteNotifyFail
  <2>1. SettledKept /\ OnlyLatestActive'
    BY <2>0, OpsSame
  <2>2. PendingFresh'
    BY <2>0 DEF PendingFresh
  <2>3. RetrySettled'
    <3>1. o.retry \subseteq Runtimes /\ \A r \in o.retry : Settled(r)
      BY <1>0, <2>0 DEF RetrySettled, TypeData, Orchs
    <3>2. \A r \in o.retry : Settled(r)'
      BY <2>1, <3>1, SettledSub
    <3>. QED
      BY <2>0, <3>2 DEF RetrySettled
  <2>4. CancelChain'
    BY <2>0 DEF CancelChain, Finished
  <2>. QED
    BY <2>1, <2>2, <2>3, <2>4
<1>6. CASE PollTick
  <2>. DEFINE c == canceled \/ orch.state = "Canceling"
              s == [notFinished |-> CountLatest(Active),
                    inProgress  |-> CountLatest({"InProgress"}),
                    failed      |-> CountLatest({"Failed"})]
  <2>0. /\ pc = "poll" /\ orch' = orch /\ ops' = ops /\ o' = orch
        /\ canceled' = c /\ stats' = s
        /\ pc' = IF orch.retry # {} THEN "retry"
                 ELSE IF DoneFor(c, s) THEN "resolve" ELSE "poll"
    BY <1>6 DEF PollTick
  <2>1. \A r \in Runtimes : Settled(r)' <=> Settled(r)
    BY <2>0 DEF Settled, Latest
  <2>2. OnlyLatestActive' /\ (NoInProgress' <=> NoInProgress)
    BY <2>0 DEF OnlyLatestActive, NoInProgress
  <2>3. orch.state # "Pending" /\ orch.state # "Canceled"
    BY <2>0 DEF PendingFresh, CancelChain
  <2>4. PendingFresh'
    BY <2>0, <2>3 DEF PendingFresh
  <2>5. RetrySettled'
    <3>1. orch.retry \subseteq Runtimes /\ \A r \in orch.retry : Settled(r)
      BY <1>0, <2>0 DEF RetrySettled, TypeData, Orchs
    <3>2. \A r \in orch.retry : Settled(r)'
      BY <2>0, <3>1, OpsSame, SettledSub
    <3>. QED
      BY <2>0, <3>2 DEF RetrySettled
  <2>6. s.inProgress = 0 => NoInProgress
    BY <1>0, CountLatestZero, LatestSeesAll DEF TypeData
  <2>7. CancelChain'
    BY <2>0, <2>2, <2>3, <2>6 DEF CancelChain, DoneFor
  <2>. QED
    BY <2>2, <2>4, <2>5, <2>7
<1>7. CASE PollRetry
  <2>0. PICK res \in Resolutions :
         LET F == o.retry \cap res
             o2 == [o EXCEPT !.state = IF F # {} THEN "InProgress"
                                       ELSE "Succeeded",
                             !.retry = {}]
         IN /\ ops' = CreateOps(F) /\ o' = o2 /\ orch' = o2
    BY <1>7 DEF PollRetry
  <2>. DEFINE F == o.retry \cap res
  <2>1. pc = "retry" /\ pc' \in {"resolve", "poll"}
    BY <1>7 DEF PollRetry
  <2>2. F \subseteq Runtimes /\ \A r \in F : Settled(r)
    BY <1>0, <2>1 DEF Orchs, TypeData, RetrySettled
  <2>3. OnlyLatestActive'
    BY <1>0, <2>0, <2>2, CreateOpsSafe DEF TypeData
  <2>4. /\ o'.state \in {"InProgress", "Succeeded"} /\ o'.retry = {}
        /\ orch' = o'
    BY <1>0, <2>0 DEF Orchs, TypeData
  <2>5. PendingFresh' /\ RetrySettled' /\ CancelChain'
    BY <2>1, <2>4 DEF PendingFresh, RetrySettled, CancelChain
  <2>. QED
    BY <2>3, <2>5
<1>8. CASE PollRetryResolveFail
  BY <1>8, <1>f DEF PollRetryResolveFail
<1>9. CASE PollRetryUpdateFail
  BY <1>9, <1>f DEF PollRetryUpdateFail
<1>19. CASE PollRetryLookupFail
  BY <1>19, <1>f DEF PollRetryLookupFail
<1>10. CASE ResolveCanceled
  <2>0. /\ pc = "resolve" /\ o.state = "Canceling" /\ ops' = CancelPending
        /\ orch' = orch
    BY <1>10 DEF ResolveCanceled
  <2>1. /\ o'.retry = o.retry
        /\ \/ pc' = "final" /\ o'.state = "Canceled"
           \/ pc' = "idle"
    <3>1. CASE NotifEnabled /\ o.notif = "created"
      BY <1>0, <1>10, <3>1 DEF ResolveCanceled, TypeData, Orchs
    <3>2. CASE ~(NotifEnabled /\ o.notif = "created")
      BY <1>0, <1>10, <3>2 DEF ResolveCanceled, TypeData, Orchs
    <3>. QED
      BY <3>1, <3>2
  <2>2. orch.state = "Canceling" /\ NoInProgress
    BY <2>0 DEF CancelChain
  <2>3. /\ OnlyLatestActive'
        /\ SettledKept
        /\ NoActive'
    BY <1>0, <2>0, <2>2, CancelPendingSafe DEF TypeData, SettledKept
  <2>4. PendingFresh'
    BY <2>0, <2>1, <2>2 DEF PendingFresh
  <2>5. RetrySettled'
    <3>1. /\ orch.retry \subseteq Runtimes /\ \A r \in orch.retry : Settled(r)
          /\ o.retry \subseteq Runtimes /\ \A r \in o.retry : Settled(r)
      BY <1>0, <2>0 DEF RetrySettled, TypeData, Orchs
    <3>2. /\ \A r \in orch.retry : Settled(r)'
          /\ \A r \in o.retry : Settled(r)'
      BY <2>3, <3>1, SettledSub
    <3>. QED
      BY <2>0, <2>1, <3>2 DEF RetrySettled
  <2>6. CancelChain'
    BY <2>0, <2>1, <2>2, <2>3 DEF CancelChain
  <2>. QED
    BY <2>3, <2>4, <2>5, <2>6
<1>11. CASE ResolveCancelFail
  BY <1>11, <1>f DEF ResolveCancelFail
<1>12. CASE ResolveCompleted
  <2>0. /\ pc = "resolve" /\ pc' = "final" /\ orch' = orch /\ ops' = ops
        /\ o'.retry = o.retry /\ o'.state \in {"Failed", "Succeeded"}
    BY <1>0, <1>12 DEF ResolveCompleted, TypeData, Orchs
  <2>1. SettledKept /\ OnlyLatestActive'
    BY <2>0, OpsSame
  <2>2. PendingFresh'
    BY <2>0 DEF PendingFresh
  <2>3. RetrySettled'
    <3>1. /\ orch.retry \subseteq Runtimes /\ \A r \in orch.retry : Settled(r)
          /\ o.retry \subseteq Runtimes /\ \A r \in o.retry : Settled(r)
      BY <1>0, <2>0 DEF RetrySettled, TypeData, Orchs
    <3>2. /\ \A r \in orch.retry : Settled(r)'
          /\ \A r \in o.retry : Settled(r)'
      BY <2>1, <3>1, SettledSub
    <3>. QED
      BY <2>0, <3>2 DEF RetrySettled
  <2>4. CancelChain'
    <3>1. orch.state # "Canceled"
      BY <2>0 DEF CancelChain
    <3>. QED
      BY <2>0, <3>1 DEF CancelChain
  <2>. QED
    BY <2>1, <2>2, <2>3, <2>4
<1>13. CASE ExecuteFinish
  <2>0. /\ pc = "final" /\ pc' = "idle" /\ orch' = o /\ ops' = ops
    BY <1>13, <1>f DEF ExecuteFinish
  <2>1. SettledKept /\ OnlyLatestActive' /\ (NoActive' <=> NoActive)
    BY <2>0, OpsSame
  <2>2. PendingFresh'
    BY <2>0 DEF PendingFresh
  <2>3. RetrySettled'
    <3>1. o.retry \subseteq Runtimes /\ \A r \in o.retry : Settled(r)
      BY <1>0, <2>0 DEF RetrySettled, TypeData, Orchs
    <3>2. \A r \in o.retry : Settled(r)'
      BY <2>1, <3>1, SettledSub
    <3>. QED
      BY <2>0, <3>2 DEF RetrySettled
  <2>4. CancelChain'
    BY <2>0, <2>1 DEF CancelChain
  <2>. QED
    BY <2>1, <2>2, <2>3, <2>4
<1>14. CASE OpStep
  <2>1. PICK id \in exec : OpStart(id) \/ OpEnd(id)
    BY <1>14 DEF OpStep
  <2>2. PICK r \in Runtimes, i \in Nat \ {0} : id = <<r, i>>
    BY <1>0 DEF OpIds, TypeData
  <2>3. i \in DOMAIN ops[r]
    <3>1. i <= Len(ops[r])
      BY <2>2 DEF Known, IInv
    <3>. QED
      BY <1>0, <2>2, <3>1 DEF TypeData
  <2>4. ops[r][i] \in Active
    BY <2>1, <2>2 DEF OpStart, OpEnd, OpState, Active
  <2>5. UNCHANGED <<orch, pc, o, canceled, stats>>
    BY <2>1 DEF OpStart, OpEnd, workerVars
  <2>6. PICK v \in OpStates :
          /\ ops' = [ops EXCEPT ![r][i] = v]
          /\ orch.state = "Canceling" => v # "InProgress"
    <3>1. CASE OpStart(id)
      <4>. DEFINE w == IF orch.state \in {"Canceling", "Canceled"}
                       THEN "Canceled" ELSE "InProgress"
      <4>1. ops' = [ops EXCEPT ![r][i] = w]
        BY <2>2, <3>1 DEF OpStart
      <4>2. w \in OpStates /\ (orch.state = "Canceling" => w # "InProgress")
        BY DEF OpStates
      <4>. QED
        BY <4>1, <4>2
    <3>2. CASE OpEnd(id)
      <4>1. PICK w \in {"Succeeded", "Failed"} : ops' = [ops EXCEPT ![r][i] = w]
        BY <2>2, <3>2 DEF OpEnd
      <4>. QED
        BY <4>1 DEF OpStates
    <3>. QED
      BY <2>1, <3>1, <3>2
  <2>0. ops \in [Runtimes -> Seq(OpStates)]
    BY <1>0 DEF TypeData
  <2>7. /\ OnlyLatestActive'
        /\ SettledKept
        /\ v # "InProgress" => (NoInProgress => NoInProgress')
    BY <2>0, <2>3, <2>4, <2>6, SetOpSafe DEF SettledKept
  <2>8. ~NoActive
    BY <2>3, <2>4 DEF NoActive
  <2>9. orch.state = "Canceling" /\ NoInProgress => NoInProgress'
    BY <2>6, <2>7
  <2>10. PendingFresh'
    BY <2>5, <2>7 DEF PendingFresh, SettledKept
  <2>11. RetrySettled'
    <3>1. orch.retry \subseteq Runtimes /\ o.retry \subseteq Runtimes
      BY <1>0 DEF TypeData, Orchs
    <3>2. (pc = "resolved" /\ orch.state = "Retrying")
            \/ \A q \in orch.retry : Settled(q)'
      BY <2>7, <3>1, SettledSub DEF RetrySettled
    <3>3. pc # "idle" => \A q \in o.retry : Settled(q)'
      BY <2>7, <3>1, SettledSub DEF RetrySettled
    <3>. QED
      BY <2>5, <3>2, <3>3 DEF RetrySettled
  <2>12. CancelChain'
    BY <2>5, <2>8, <2>9 DEF CancelChain
  <2>. QED
    BY <2>7, <2>10, <2>11, <2>12
<1>15. CASE RequestCancel
  <2>0. /\ orch.state = "InProgress" /\ orch'.state = "Canceling"
        /\ orch'.retry = orch.retry
        /\ UNCHANGED <<ops, pc, o, canceled, stats>>
    BY <1>0, <1>15 DEF RequestCancel, workerVars, TypeData, Orchs
  <2>1. SettledKept /\ OnlyLatestActive' /\ (NoInProgress' <=> NoInProgress)
        /\ (NoActive' <=> NoActive)
    BY <2>0, OpsSame
  <2>2. PendingFresh'
    BY <2>0 DEF PendingFresh
  <2>3. RetrySettled'
    <3>1. /\ orch.retry \subseteq Runtimes /\ \A r \in orch.retry : Settled(r)
          /\ o.retry \subseteq Runtimes
      BY <1>0, <2>0 DEF RetrySettled, TypeData, Orchs
    <3>2. \A r \in orch.retry : Settled(r)'
      BY <2>1, <3>1, SettledSub
    <3>3. pc # "idle" => \A r \in o.retry : Settled(r)'
      BY <2>1, <3>1, SettledSub DEF RetrySettled
    <3>. QED
      BY <2>0, <3>2, <3>3 DEF RetrySettled
  <2>4. CancelChain'
    BY <2>0, <2>1 DEF CancelChain
  <2>. QED
    BY <2>1, <2>2, <2>3, <2>4
<1>16. CASE RequestRetry
  <2>0. PICK S \in SUBSET {r \in Runtimes : Latest(r) = "Failed"} :
          orch' = [orch EXCEPT !.retry = @ \cup S,
                               !.state = IF @ = "Failed" THEN "Retrying"
                                         ELSE @]
    BY <1>16 DEF RequestRetry
  <2>1. /\ orch.state \in {"InProgress", "Failed"}
        /\ UNCHANGED <<ops, pc, o, canceled, stats>>
    BY <1>16 DEF RequestRetry, workerVars
  <2>2. /\ orch'.retry = orch.retry \cup S
        /\ orch'.state \in {"InProgress", "Retrying"}
    BY <1>0, <2>0, <2>1 DEF Orchs, TypeData
  <2>3. SettledKept /\ OnlyLatestActive' /\ (NoInProgress' <=> NoInProgress)
        /\ (NoActive' <=> NoActive)
    BY <2>1, OpsSame
  <2>4. PendingFresh'
    BY <2>1, <2>2 DEF PendingFresh
  <2>5. RetrySettled'
    <3>1. /\ orch.retry \subseteq Runtimes /\ \A r \in orch.retry : Settled(r)
          /\ o.retry \subseteq Runtimes
      BY <1>0, <2>1 DEF RetrySettled, TypeData, Orchs
    <3>2. S \subseteq Runtimes /\ \A r \in S : Settled(r)
      BY DEF Settled, Active
    <3>3. \A r \in orch.retry \cup S : Settled(r)'
      BY <2>3, <3>1, <3>2, SettledSub
    <3>4. pc # "idle" => \A r \in o.retry : Settled(r)'
      BY <2>3, <3>1, SettledSub DEF RetrySettled
    <3>. QED
      BY <2>1, <2>2, <3>3, <3>4 DEF RetrySettled
  <2>6. CancelChain'
    BY <2>1, <2>2, <2>3 DEF CancelChain
  <2>. QED
    BY <2>3, <2>4, <2>5, <2>6
<1>17. CASE CrashRestart
  BY <1>17, <1>f DEF CrashRestart
<1>18. CASE UNCHANGED vars
  <2>1. UNCHANGED <<orch, ops, pc, o, canceled, stats>>
    BY <1>18 DEF vars
  <2>2. SettledKept /\ OnlyLatestActive' /\ (NoInProgress' <=> NoInProgress)
        /\ (NoActive' <=> NoActive)
    BY <2>1, OpsSame
  <2>3. /\ orch.retry \subseteq Runtimes /\ o.retry \subseteq Runtimes
    BY <1>0 DEF TypeData, Orchs
  <2>4. RetrySettled'
    <3>1. (pc = "resolved" /\ orch.state = "Retrying")
            \/ \A r \in orch.retry : Settled(r)'
      BY <2>2, <2>3, SettledSub DEF RetrySettled
    <3>2. pc # "idle" => \A r \in o.retry : Settled(r)'
      BY <2>2, <2>3, SettledSub DEF RetrySettled
    <3>. QED
      BY <2>1, <3>1, <3>2 DEF RetrySettled
  <2>. QED
    BY <2>1, <2>2, <2>4 DEF PendingFresh, CancelChain, SettledKept
<1>. QED
  BY <1>1, <1>2, <1>3, <1>4, <1>5, <1>6, <1>7, <1>8, <1>9, <1>10, <1>11,
     <1>12, <1>13, <1>14, <1>15, <1>16, <1>17, <1>18, <1>19 DEF Next, Worker

\* Without crashes, failed store writes and resolver errors, however retry
\* and cancel requests, notification failures and fleet changes interleave
\* with Execute and the operations' workers, no runtime ever has two
\* operations of the orchestration Pending or InProgress at once: Execute
\* creates a runtime's operation (resolveOperations, lines 187-257, and the
\* mid-flight retry, lines 330-361) only once its previous one finished.
THEOREM OneActiveOpPerRuntime == NoFailFaults => (Spec => []AtMostOneActiveOp)
<1>. SUFFICES ASSUME NoFailFaults PROVE Spec => []AtMostOneActiveOp
  OBVIOUS
<1>1. OInv => AtMostOneActiveOp
  BY OnlyLatestAtMostOne DEF OInv, IInv, TypeOK
<1>2. OInv /\ [Next]_vars => OInv'
  BY NextOInv
<1>. QED
  BY <1>1, <1>2, InitOInv, PTL DEF Spec

\* Under the same faults, an orchestration the store shows Canceled has no
\* operation left Pending or InProgress: the poll loop waited for the
\* InProgress ones and CancelOperations canceled the Pending ones
\* (lines 363-365 and 378-394) before the final Update wrote Canceled.
THEOREM CanceledQuiescent == NoFailFaults => (Spec => []CanceledMeansQuiescent)
<1>. SUFFICES ASSUME NoFailFaults PROVE Spec => []CanceledMeansQuiescent
  OBVIOUS
<1>1. OInv => CanceledMeansQuiescent
  BY NoActiveQuiescent DEF OInv, CancelChain, CanceledMeansQuiescent
<1>2. OInv /\ [Next]_vars => OInv'
  BY NextOInv
<1>. QED
  BY <1>1, <1>2, InitOInv, PTL DEF Spec

-----------------------------------------------------------------------------
(* CanceledHeld is inductive with the types, and gives the action         *)
(* property, whatever faults happen.                                       *)

\* A step that keeps a Canceled orchestration Canceled.
KeepsCanceled == orch.state = "Canceled" => orch'.state = "Canceled"

LEMMA InitCanceledHeld == Init => CanceledHeld
  BY DEF Init, CanceledHeld

LEMMA NextCanceledHeld ==
    IInv /\ CanceledHeld /\ [Next]_vars => CanceledHeld' /\ KeepsCanceled
<1>. SUFFICES ASSUME IInv, CanceledHeld, [Next]_vars
              PROVE  CanceledHeld' /\ KeepsCanceled
  OBVIOUS
<1>0. TypeData
  BY DEF IInv, TypeOK, TypeData
<1>1. CASE ExecuteResolve
  <2>1. pc' = "resolved" /\ orch' = orch
    BY <1>1 DEF ExecuteResolve
  <2>2. orch.state = "Canceled" => o' = orch
    BY <1>1 DEF ExecuteResolve
  <2>. QED
    BY <2>1, <2>2 DEF CanceledHeld, KeepsCanceled
<1>2. CASE ExecuteResolveFail
  <2>1. orch.state \in {"Pending", "Retrying"} /\ orch'.state \in {"Failed", orch.state}
    BY <1>0, <1>2 DEF ExecuteResolveFail, TypeData, Orchs
  <2>2. UNCHANGED <<pc, o>>
    BY <1>2 DEF ExecuteResolveFail, workerVars
  <2>. QED
    BY <2>1, <2>2 DEF CanceledHeld, KeepsCanceled
<1>3. CASE ExecutePersist
  <2>1. pc = "resolved" /\ orch' = o
    BY <1>3 DEF ExecutePersist
  <2>2. CASE o.state \in Finished
    BY <1>3, <2>1, <2>2 DEF ExecutePersist, CanceledHeld, KeepsCanceled
  <2>3. CASE o.state \notin Finished
    <3>1. pc' = "poll"
      BY <1>3, <2>3 DEF ExecutePersist
    <3>2. o'.state = o.state
      <4>1. o' = o \/ o' = [o EXCEPT !.notif = "created"]
        BY <1>3, <2>3 DEF ExecutePersist
      <4>. QED
        BY <1>0, <4>1 DEF TypeData, Orchs
    <3>. QED
      BY <2>1, <2>3, <3>1, <3>2 DEF CanceledHeld, KeepsCanceled, Finished
  <2>. QED
    BY <2>2, <2>3
<1>4. CASE ExecutePersistFail
  BY <1>4 DEF ExecutePersistFail, CanceledHeld, KeepsCanceled
<1>5. CASE ExecuteNotifyFail
  BY <1>5 DEF ExecuteNotifyFail, CanceledHeld, KeepsCanceled, Finished
<1>6. CASE PollTick
  <2>1. pc = "poll" /\ orch' = orch /\ o' = orch /\ pc' \in {"retry", "resolve", "poll"}
    BY <1>6 DEF PollTick
  <2>. QED
    BY <2>1 DEF CanceledHeld, KeepsCanceled
<1>7. CASE PollRetry
  <2>1. pc = "retry" /\ pc' \in {"resolve", "poll"} /\ orch' = o'
    BY <1>7 DEF PollRetry
  <2>2. o'.state \in {"InProgress", "Succeeded"}
    BY <1>0, <1>7 DEF PollRetry, TypeData, Orchs
  <2>. QED
    BY <2>1, <2>2 DEF CanceledHeld, KeepsCanceled
<1>8. CASE PollRetryResolveFail
  <2>1. pc = "retry" /\ pc' \in {"resolve", "poll"} /\ orch' = o'
    BY <1>8 DEF PollRetryResolveFail
  <2>2. o'.state = o.state
    BY <1>0, <1>8 DEF PollRetryResolveFail, TypeData, Orchs
  <2>. QED
    BY <2>1, <2>2 DEF CanceledHeld, KeepsCanceled
<1>19. CASE PollRetryLookupFail
  <2>1. pc = "retry" /\ pc' \in {"resolve", "poll"} /\ orch' = o'
    BY <1>19 DEF PollRetryLookupFail
  <2>2. o'.state = "Succeeded"
    BY <1>0, <1>19 DEF PollRetryLookupFail, TypeData, Orchs
  <2>. QED
    BY <2>1, <2>2 DEF CanceledHeld, KeepsCanceled
<1>9. CASE PollRetryUpdateFail
  BY <1>9 DEF PollRetryUpdateFail, CanceledHeld, KeepsCanceled
<1>10. CASE ResolveCanceled
  <2>1. pc = "resolve" /\ orch' = orch /\ pc' \in {"final", "idle"}
    BY <1>10 DEF ResolveCanceled
  <2>. QED
    BY <2>1 DEF CanceledHeld, KeepsCanceled
<1>11. CASE ResolveCancelFail
  BY <1>11 DEF ResolveCancelFail, CanceledHeld, KeepsCanceled
<1>12. CASE ResolveCompleted
  BY <1>12 DEF ResolveCompleted, CanceledHeld, KeepsCanceled
<1>13. CASE ExecuteFinish
  BY <1>13 DEF ExecuteFinish, CanceledHeld, KeepsCanceled
<1>14. CASE OpStep
  <2>1. UNCHANGED <<orch, pc, o>>
    BY <1>14 DEF OpStep, OpStart, OpEnd, workerVars
  <2>. QED
    BY <2>1 DEF CanceledHeld, KeepsCanceled
<1>15. CASE RequestCancel
  <2>1. orch.state = "InProgress" /\ orch'.state = "Canceling"
        /\ UNCHANGED <<pc, o>>
    BY <1>0, <1>15 DEF RequestCancel, workerVars, TypeData, Orchs
  <2>. QED
    BY <2>1 DEF CanceledHeld, KeepsCanceled
<1>16. CASE RequestRetry
  <2>1. /\ orch.state \in {"InProgress", "Failed"}
        /\ orch'.state \in {"InProgress", "Retrying"}
        /\ UNCHANGED <<pc, o>>
    <3>1. PICK S \in SUBSET {r \in Runtimes : Latest(r) = "Failed"} :
            orch' = [orch EXCEPT !.retry = @ \cup S,
                                 !.state = IF @ = "Failed" THEN "Retrying"
                                           ELSE @]
      BY <1>16 DEF RequestRetry
    <3>2. orch.state \in {"InProgress", "Failed"} /\ UNCHANGED <<pc, o>>
      BY <1>16 DEF RequestRetry, workerVars
    <3>. QED
      BY <1>0, <3>1, <3>2 DEF TypeData, Orchs
  <2>. QED
    BY <2>1 DEF CanceledHeld, KeepsCanceled
<1>17. CASE CrashRestart
  BY <1>17 DEF CrashRestart, CanceledHeld, KeepsCanceled
<1>18. CASE UNCHANGED vars
  BY <1>18 DEF vars, CanceledHeld, KeepsCanceled
<1>. QED
  BY <1>1, <1>2, <1>3, <1>4, <1>5, <1>6, <1>7, <1>8, <1>9, <1>10, <1>11,
     <1>12, <1>13, <1>14, <1>15, <1>16, <1>17, <1>18, <1>19 DEF Next, Worker

\* Whatever crashes, failed writes, notification and resolver errors happen,
\* and however the API's requests interleave with Execute's whole-record
\* Updates (manager.go lines 80, 355, 115), an orchestration the store shows
\* Canceled is never written back to another state.
THEOREM CanceledPersists == Spec => CanceledStaysCanceled
<1>1. Init => IInv /\ CanceledHeld
  BY InitIInv, InitCanceledHeld
<1>2. IInv /\ CanceledHeld /\ [Next]_vars => (IInv /\ CanceledHeld)'
  BY NextIInv, NextCanceledHeld
<1>3. IInv /\ CanceledHeld /\ [Next]_vars => [KeepsCanceled]_orch
  BY NextCanceledHeld
<1>. QED
  BY <1>1, <1>2, <1>3, PTL DEF Spec, CanceledStaysCanceled, KeepsCanceled
=============================================================================
