---------------------------- MODULE Orchestration ----------------------------
(***************************************************************************)
(* One fleet-wide orchestration driven by orchestrationManager.Execute     *)
(* (internal/orchestration/manager/manager.go), together with the store    *)
(* it reads and writes, the per-runtime upgrade operations it creates, the *)
(* execution strategy that runs them, the out-of-band cancel and retry     *)
(* requests of the API, and the restart reprocessing of cmd/broker/main.go.*)
(*                                                                         *)
(* Execute is one worker of the orchestration queue.  Its local copy of    *)
(* the orchestration record (o) is read from the store and later written   *)
(* back WHOLE by orchestrationStorage.Update, so each read and each write  *)
(* is a step of its own: the API may write the store in between.           *)
(***************************************************************************)
EXTENDS Naturals, Sequences, FiniteSets

CONSTANTS
    Runtimes,      \* runtimes of the fleet (model values)
    Targets,       \* runtimes the orchestration's target spec resolves to
    NotifEnabled,  \* !bundleBuilder.DisabledCheck()
    FaultKinds,    \* which environment faults may happen (see Faults)
    MaxFaults,     \* bound on the number of faults in a behaviour
    MaxRequests    \* bound on the cancel and retry requests of the API

\* The environment faults the code handles: a process crash and restart,
\* a failed store write, a temporary notification error, a failure of the
\* resolver or of the operation factory; and "fleetChange", runtimes of the
\* targets disappearing (deprovisioned) between two resolutions.
Faults == {"crash", "storeError", "notifError", "resolveError",
           "fleetChange"}

ASSUME ConstantsAssumption ==
    /\ IsFiniteSet(Runtimes)
    /\ Targets \subseteq Runtimes
    /\ NotifEnabled \in BOOLEAN
    /\ FaultKinds \subseteq Faults
    /\ MaxFaults \in Nat
    /\ MaxRequests \in Nat

\* Orchestration states (common/orchestration) and the finished ones
\* (internal.Orchestration.IsFinished).
OrchStates == {"Pending", "InProgress", "Retrying", "Canceling", "Canceled",
               "Succeeded", "Failed"}
Finished == {"Canceled", "Succeeded", "Failed"}

\* States of a per-runtime operation record; Active are the ones the poll
\* loop counts as not finished (Pending and InProgress; no modelled code
\* puts an operation in the Retrying state).
OpStates == {"Pending", "InProgress", "Succeeded", "Failed", "Canceled"}
Active == {"Pending", "InProgress"}

\* Parameters.NotificationState: "none" stands for "" (not initialised), then
\* pending, created, cancelled.
NotifStates == {"none", "pending", "created", "cancelled"}

\* Program counter of the orchestration worker inside Execute.
PCs == {"idle", "resolved", "poll", "retry", "resolve", "final"}

Orchs == [state : OrchStates, retry : SUBSET Runtimes, notif : NotifStates]

VARIABLES
    orch,      \* the orchestration record in the store
    ops,       \* ops[r]: the operation records of runtime r, oldest first
    exec,      \* operations handed to the strategy (in memory, <<r, i>>)
    queued,    \* the orchestration id is in the queue or its timer
    pc,        \* where the worker is in Execute
    o,         \* the worker's local copy of the orchestration record
    operations,\* the operations resolved by this Execute call
    canceled,  \* waitForCompletion's canceled flag
    stats,     \* the counts read at the last poll tick
    notes,     \* notification events sent to customers
    faults,    \* faults so far
    requests   \* API requests so far

vars == <<orch, ops, exec, queued, pc, o, operations, canceled, stats,
          notes, faults, requests>>
\* The variables local to the running Execute call.
workerVars == <<pc, o, operations, canceled, stats>>

-----------------------------------------------------------------------------
(* Helpers over the store.                                                 *)

OpIds == Runtimes \X (Nat \ {0})

\* The operation records that exist.
AllOps == UNION {{<<r, i>> : i \in DOMAIN ops[r]} : r \in Runtimes}

OpState(id) == ops[id[1]][id[2]]

\* The state of the latest operation of r, as the store's
\* GetOperationStatsForOrchestration counts it.
Latest(r) == IF ops[r] = <<>> THEN "None" ELSE ops[r][Len(ops[r])]

CountLatest(S) == Cardinality({r \in Runtimes : Latest(r) \in S})

\* factory.NewOperation(..., orchestration.Pending) for every runtime of S.
CreateOps(S) ==
    [r \in Runtimes |-> IF r \in S THEN Append(ops[r], "Pending") ELSE ops[r]]

\* Mutant: the new operation's index is off by one.
NewOpIdsOffByOne(S) == {<<r, Len(ops[r])>> : r \in S}

NewOpIds(S) == {<<r, Len(ops[r]) + 1>> : r \in S}

\* factory.ResumeOperations: the not-finished operations of the orchestration.
NotFinishedOps == {id \in AllOps : OpState(id) \in Active}

\* What resolver.Resolve(o.Parameters.Targets) may return.
Resolutions == IF "fleetChange" \in FaultKinds THEN SUBSET Targets ELSE {Targets}

Fault(k) == /\ k \in FaultKinds
            /\ faults < MaxFaults
            /\ faults' = faults + 1

-----------------------------------------------------------------------------
Init ==
    /\ orch = [state |-> "Pending", retry |-> {}, notif |-> "none"]
    /\ ops = [r \in Runtimes |-> <<>>]
    /\ exec = {}
    /\ queued = TRUE
    /\ pc = "idle"
    /\ o = orch
    /\ operations = {}
    /\ canceled = FALSE
    /\ stats = [notFinished |-> 0, inProgress |-> 0, failed |-> 0]
    /\ notes = [create |-> 0, cancel |-> 0]
    /\ faults = 0
    /\ requests = 0

-----------------------------------------------------------------------------
(* Execute, lines 61-78: load the orchestration and resolveOperations.    *)
(* Pending and Retrying create a fresh Pending operation for every        *)
(* resolved runtime (NewOperationForPendingRetrying; on Retrying only the *)
(* runtimes of RetryOperations, extractRuntimes); any other state resumes *)
(* the not-finished operations.  The resolver may return any subset of    *)
(* the targets (runtimes are deprovisioned over time).  An empty retry    *)
(* list (lines 239-242) cannot occur: every retry request names at least  *)
(* one runtime.                                                           *)
ExecuteResolve ==
    /\ pc = "idle" /\ queued
    /\ queued' = FALSE
    /\ canceled' = FALSE
    /\ \/ /\ orch.state \in {"Pending", "Retrying"}
          /\ orch.state = "Retrying" => orch.retry # {}
          /\ \E res \in Resolutions :
               LET F == IF orch.state = "Pending" THEN res
                        ELSE orch.retry \cap res
               IN /\ ops' = CreateOps(F)
                  /\ operations' = NewOpIds(F)
                  /\ o' = [orch EXCEPT
                            !.state = IF F # {} THEN "InProgress"
                                                ELSE "Succeeded",
                            !.retry = IF orch.state = "Retrying" THEN {}
                                      ELSE @]
       \/ /\ orch.state \notin {"Pending", "Retrying"}
          /\ ops' = ops
          /\ operations' = NotFinishedOps
          /\ o' = orch
    /\ pc' = "resolved"
    /\ UNCHANGED <<orch, exec, stats, notes, faults, requests>>

(* Lines 75-78 with failOrchestration: the resolver or the operation      *)
(* factory fails after creating the operations of some runtimes; the      *)
(* orchestration is written Failed, or, when that write fails too,        *)
(* updateOrchestration returns a minute and the id is queued again.       *)
ExecuteResolveFail ==
    /\ pc = "idle" /\ queued
    /\ orch.state \in {"Pending", "Retrying"}
    /\ Fault("resolveError")
    /\ \E created \in SUBSET Targets :
         /\ orch.state = "Retrying" => created \subseteq orch.retry
         /\ ops' = CreateOps(created)
    /\ \/ orch' = [orch EXCEPT !.state = "Failed"] /\ queued' = FALSE
       \/ UNCHANGED orch /\ queued' = TRUE
    /\ UNCHANGED <<exec, workerVars, notes, requests>>

(* Lines 80-105: Update of o; stop   if finished; send the "created"         *)
(* notification (sendNotificationCreate, whose NotificationState change   *)
(* is only in o); strategy.Execute hands the operations to the strategy.  *)
NeedsCreate(rec) == NotifEnabled /\ rec.state = "InProgress"
                    /\ rec.notif \in {"none", "pending"}

ExecutePersist ==
    /\ pc = "resolved"
    /\ orch' = o
    /\ IF o.state \in Finished
         THEN /\ pc' = "idle"
              /\ UNCHANGED <<exec, o, notes>>
         ELSE /\ IF NeedsCreate(o)
                   THEN /\ o' = [o EXCEPT !.notif = "created"]
                        /\ notes' = [notes EXCEPT !.create = @ + 1]
                   ELSE UNCHANGED <<o, notes>>
              /\ exec' = exec \cup operations
              /\ pc' = "poll"
    /\ UNCHANGED <<ops, queued, operations, canceled, stats, faults, requests>>

\* Lines 80-84: the Update fails; Execute returns the polling interval.
ExecutePersistFail ==
    /\ pc = "resolved"
    /\ Fault("storeError")
    /\ queued' = TRUE /\ pc' = "idle"
    /\ UNCHANGED <<orch, ops, exec, o, operations, canceled, stats, notes,
                   requests>>

\* Lines 94-99: the notification fails temporarily; Execute returns 5s.
\* Mutant: the notification error is returned as permanent, and the queue
\* drops the id.
ExecuteNotifyFailDropped ==
    /\ pc = "resolved"
    /\ o.state \notin Finished /\ NeedsCreate(o)
    /\ Fault("notifError")
    /\ orch' = o
    /\ queued' = FALSE /\ pc' = "idle"
    /\ UNCHANGED <<ops, exec, o, operations, canceled, stats, notes, requests>>

ExecuteNotifyFail ==
    /\ pc = "resolved"
    /\ o.state \notin Finished /\ NeedsCreate(o)
    /\ Fault("notifError")
    /\ orch' = o
    /\ queued' = TRUE /\ pc' = "idle"
    /\ UNCHANGED <<ops, exec, o, operations, canceled, stats, notes, requests>>

-----------------------------------------------------------------------------
(* One tick of waitForCompletion, lines 295-329 and 363-368: reload the   *)
(* orchestration, note a cancel, read the statistics; then either handle  *)
(* new RetryOperations or decide whether the loop is over.                *)
DoneFor(c, s) == IF c THEN s.inProgress = 0 ELSE s.notFinished = 0

PollTick ==
    /\ pc = "poll"
    /\ LET c == canceled \/ orch.state = "Canceling"
           s == [notFinished |-> CountLatest(Active),
                 inProgress  |-> CountLatest({"InProgress"}),
                 failed      |-> CountLatest({"Failed"})]
       IN /\ o' = orch
          /\ canceled' = c
          /\ stats' = s
          /\ pc' = IF orch.retry # {} THEN "retry"
                   ELSE IF DoneFor(c, s) THEN "resolve" ELSE "poll"
    /\ UNCHANGED <<orch, ops, exec, queued, operations, notes, faults,
                   requests>>

(* Lines 330-361: operations retried while the orchestration runs.  The   *)
(* retried runtimes get fresh Pending operations inserted in the running  *)
(* strategy, NewOperationForPendingRetrying sets o.State, RetryOperations *)
(* are cleared and o is written back.  The loop then ends or not by the   *)
(* statistics read before the retry (lines 363-368).                      *)
\* Mutant: the retried operations are not filtered by RetryOperations
\* (extractRuntimes skipped): every resolved runtime gets a new operation.
PollRetryUnfiltered ==
    /\ pc = "retry"
    /\ \E res \in Resolutions :
         LET o2 == [o EXCEPT !.state = IF res # {} THEN "InProgress"
                                       ELSE "Succeeded",
                             !.retry = {}]
         IN /\ ops' = CreateOps(res)
            /\ exec' = exec \cup NewOpIds(res)
            /\ o' = o2
            /\ orch' = o2
    /\ pc' = IF DoneFor(canceled, stats) THEN "resolve" ELSE "poll"
    /\ UNCHANGED <<queued, operations, canceled, stats, notes, faults,
                   requests>>

PollRetry ==
    /\ pc = "retry"
    /\ \E res \in Resolutions :
         LET F == o.retry \cap res
             o2 == [o EXCEPT !.state = IF F # {} THEN "InProgress"
                                       ELSE "Succeeded",
                             !.retry = {}]
         IN /\ ops' = CreateOps(F)
            /\ exec' = exec \cup NewOpIds(F)
            /\ o' = o2
            /\ orch' = o2
    /\ pc' = IF DoneFor(canceled, stats) THEN "resolve" ELSE "poll"
    /\ UNCHANGED <<queued, operations, canceled, stats, notes, faults,
                   requests>>

\* Lines 337-341: NewOperationForPendingRetrying fails before touching o;
\* the error is only logged, the retry list is cleared and o written back.
PollRetryResolveFail ==
    /\ pc = "retry"
    /\ Fault("resolveError")
    /\ o' = [o EXCEPT !.retry = {}]
    /\ orch' = o'
    /\ pc' = IF DoneFor(canceled, stats) THEN "resolve" ELSE "poll"
    /\ UNCHANGED <<ops, exec, queued, operations, canceled, stats, notes,
                   requests>>

\* Lines 331-335 then 218-222: factory.RetryOperations fails; the error is
\* only logged and NewOperationForPendingRetrying runs on an empty list, so
\* no runtime is retried and o.State becomes Succeeded, which line 355
\* writes to the store while the other operations still run.
PollRetryLookupFail ==
    /\ pc = "retry"
    /\ Fault("resolveError")
    /\ o' = [o EXCEPT !.state = "Succeeded", !.retry = {}]
    /\ orch' = o'
    /\ pc' = IF DoneFor(canceled, stats) THEN "resolve" ELSE "poll"
    /\ UNCHANGED <<ops, exec, queued, operations, canceled, stats, notes,
                   requests>>

\* Lines 355-359: the Update fails after the operations were created and
\* inserted; the tick returns false and the loop polls again.
PollRetryUpdateFail ==
    /\ pc = "retry"
    /\ Fault("storeError")
    /\ \E res \in Resolutions :
         LET F == o.retry \cap res
         IN /\ ops' = CreateOps(F)
            /\ exec' = exec \cup NewOpIds(F)
    /\ pc' = "poll"
    /\ UNCHANGED <<orch, queued, o, operations, canceled, stats, notes,
                   requests>>

-----------------------------------------------------------------------------
(* resolveOrchestration, lines 377-403, for a Canceling orchestration:    *)
(* factory.CancelOperations cancels the Pending operations (the           *)
(* strategy's Cancel then has nothing left to stop) and, if the customer  *)
(* was notified, sendNotificationCancel cancels the notification; a       *)
(* temporary error of it makes Execute return 5s after the operations     *)
(* were canceled.                                                         *)
CancelPending ==
    [r \in Runtimes |->
        [i \in DOMAIN ops[r] |->
            IF ops[r][i] = "Pending" THEN "Canceled" ELSE ops[r][i]]]

\* Mutant: factory.CancelOperations is not called.
ResolveCanceledKeepsPending ==
    /\ pc = "resolve"
    /\ o.state = "Canceling"
    /\ o' = [o EXCEPT !.state = "Canceled"]
    /\ pc' = "final"
    /\ UNCHANGED <<orch, ops, exec, queued, operations, canceled, stats,
                   notes, faults, requests>>

ResolveCanceled ==
    /\ pc = "resolve"
    /\ o.state = "Canceling"
    /\ ops' = CancelPending
    /\ IF NotifEnabled /\ o.notif = "created"
         THEN \/ /\ notes' = [notes EXCEPT !.cancel = @ + 1]
                 /\ o' = [o EXCEPT !.state = "Canceled", !.notif = "cancelled"]
                 /\ pc' = "final"
                 /\ UNCHANGED <<queued, faults>>
              \/ /\ Fault("notifError")
                 /\ queued' = TRUE /\ pc' = "idle"
                 /\ UNCHANGED <<o, notes>>
         ELSE /\ o' = [o EXCEPT !.state = "Canceled"]
              /\ pc' = "final"
              /\ UNCHANGED <<queued, notes, faults>>
    /\ UNCHANGED <<orch, exec, operations, canceled, stats, requests>>

\* Lines 379-382: CancelOperations fails; the error is not temporary, so
\* Execute returns it and the queue drops the id.
ResolveCancelFail ==
    /\ pc = "resolve"
    /\ o.state = "Canceling"
    /\ Fault("storeError")
    /\ queued' = FALSE /\ pc' = "idle"
    /\ UNCHANGED <<orch, ops, exec, o, operations, canceled, stats, notes,
                   requests>>

\* Lines 395-400: otherwise the final state follows the statistics of the
\* last tick: Failed if one operation failed, else Succeeded.
ResolveCompleted ==
    /\ pc = "resolve"
    /\ o.state # "Canceling"
    /\ o' = [o EXCEPT !.state = IF stats.failed > 0 THEN "Failed"
                                ELSE "Succeeded"]
    /\ pc' = "final"
    /\ UNCHANGED <<orch, ops, exec, queued, operations, canceled, stats,
                   notes, faults, requests>>

\* Lines 114-122: the final Update; when it fails Execute returns the
\* polling interval and the id is queued again.
ExecuteFinish ==
    /\ pc = "final"
    /\ \/ orch' = o /\ UNCHANGED <<queued, faults>>
       \/ Fault("storeError") /\ queued' = TRUE /\ UNCHANGED orch
    /\ pc' = "idle"
    /\ UNCHANGED <<ops, exec, o, operations, canceled, stats, notes, requests>>

-----------------------------------------------------------------------------
(* The process dies anywhere and restarts: in-memory executions and the   *)
(* queue are lost, and reprocessOrchestrations (cmd/broker/main.go)       *)
(* queues the id again if it is InProgress, Pending or Retrying, or       *)
(* Canceling with an InProgress operation.                                *)
Reprocessed ==
    \/ orch.state \in {"InProgress", "Pending", "Retrying"}
    \/ /\ orch.state = "Canceling"
       /\ \E id \in AllOps : OpState(id) = "InProgress"

CrashRestart ==
    /\ Fault("crash")
    /\ pc' = "idle"
    /\ exec' = {}
    /\ queued' = Reprocessed
    /\ canceled' = FALSE
    /\ UNCHANGED <<orch, ops, o, operations, stats, notes, requests>>

-----------------------------------------------------------------------------
(* The per-runtime upgrade operations the strategy runs (upgrade_kyma's   *)
(* staged manager): the initialisation step starts a Pending operation,   *)
(* or marks it Canceled when its orchestration is canceled; a started     *)
(* operation ends Succeeded or Failed.                                    *)
OpStart(id) ==
    /\ id \in exec /\ OpState(id) = "Pending"
    /\ ops' = [ops EXCEPT ![id[1]][id[2]] =
                 IF orch.state \in {"Canceling", "Canceled"} THEN "Canceled"
                 ELSE "InProgress"]
    /\ UNCHANGED <<orch, exec, queued, workerVars, notes, faults, requests>>

OpEnd(id) ==
    /\ id \in exec /\ OpState(id) = "InProgress"
    /\ \E res \in {"Succeeded", "Failed"} : ops' = [ops EXCEPT ![id[1]][id[2]] = res]
    /\ UNCHANGED <<orch, exec, queued, workerVars, notes, faults, requests>>

(* The API (outside src/): a cancel moves an InProgress orchestration to  *)
(* Canceling; a retry of failed operations adds their runtimes to         *)
(* RetryOperations, and a Failed orchestration becomes Retrying and is    *)
(* queued again.                                                          *)
\* Mutant: the cancel request does not check that the orchestration is
\* still running.
RequestCancelAnyState ==
    /\ requests < MaxRequests
    /\ orch' = [orch EXCEPT !.state = "Canceling"]
    /\ requests' = requests + 1
    /\ UNCHANGED <<ops, exec, queued, workerVars, notes, faults>>

RequestCancel ==
    /\ requests < MaxRequests
    /\ orch.state = "InProgress"
    /\ orch' = [orch EXCEPT !.state = "Canceling"]
    /\ requests' = requests + 1
    /\ UNCHANGED <<ops, exec, queued, workerVars, notes, faults>>

RequestRetry ==
    /\ requests < MaxRequests
    /\ orch.state \in {"InProgress", "Failed"}
    /\ \E S \in SUBSET {r \in Runtimes : Latest(r) = "Failed"} :
         /\ S # {}
         /\ orch' = [orch EXCEPT
                      !.retry = @ \cup S,
                      !.state = IF @ = "Failed" THEN "Retrying" ELSE @]
    /\ queued' = (queued \/ orch.state = "Failed")
    /\ requests' = requests + 1
    /\ UNCHANGED <<ops, exec, workerVars, notes, faults>>

-----------------------------------------------------------------------------
Worker ==
    \/ ExecuteResolve \/ ExecuteResolveFail
    \/ ExecutePersist \/ ExecutePersistFail \/ ExecuteNotifyFail
    \/ PollTick \/ PollRetry \/ PollRetryResolveFail \/ PollRetryLookupFail
    \/ PollRetryUpdateFail
    \/ ResolveCanceled \/ ResolveCancelFail \/ ResolveCompleted
    \/ ExecuteFinish

OpStep == \E id \in exec : OpStart(id) \/ OpEnd(id)

Next ==
    \/ Worker
    \/ OpStep
    \/ RequestCancel \/ RequestRetry
    \/ CrashRestart

\* The queue's workers and the operations' workers keep running; the API
\* and the faults are not obliged to act.
Fairness ==
    /\ WF_vars(ExecuteResolve) /\ WF_vars(ExecutePersist)
    /\ WF_vars(PollTick) /\ WF_vars(PollRetry)
    /\ WF_vars(ResolveCanceled) /\ WF_vars(ResolveCompleted)
    /\ WF_vars(ExecuteFinish)
    /\ WF_vars(OpStep)

Spec == Init /\ [][Next]_vars
FairSpec == Spec /\ Fairness

-----------------------------------------------------------------------------
TypeOK ==
    /\ orch \in Orchs
    /\ ops \in [Runtimes -> Seq(OpStates)]
    /\ exec \subseteq OpIds
    /\ queued \in BOOLEAN
    /\ pc \in PCs
    /\ o \in Orchs
    /\ operations \subseteq OpIds
    /\ canceled \in BOOLEAN
    /\ stats \in [notFinished : Nat, inProgress : Nat, failed : Nat]
    /\ notes \in [create : Nat, cancel : Nat]
    /\ faults \in 0..MaxFaults
    /\ requests \in 0..MaxRequests

-----------------------------------------------------------------------------
(* Safety properties.                                                      *)

\* A runtime never has two operations of the orchestration running or
\* waiting at once: Execute creates a runtime's operation again only after
\* the previous one finished (Pending/Retrying resolution, lines 226-257,
\* and the mid-flight retry, lines 330-361), even across store failures
\* and restarts.
AtMostOneActiveOp ==
    \A r \in Runtimes :
        Cardinality({i \in DOMAIN ops[r] : ops[r][i] \in Active}) <= 1

\* An orchestration the store shows Succeeded or Failed has no operation
\* left Pending or InProgress: the poll loop only ends when the statistics
\* show none (lines 363-368) and only then is the final state written.
QuiescentWhenDone ==
    orch.state \in {"Succeeded", "Failed"} =>
        \A r \in Runtimes : Latest(r) \notin Active

\* A Canceled orchestration leaves no operation Pending or InProgress:
\* the poll loop waits for the InProgress ones and CancelOperations
\* cancels the Pending ones (lines 363-365, 378-394).
CanceledMeansQuiescent ==
    orch.state = "Canceled" => \A id \in AllOps : OpState(id) \notin Active

\* A customer who was sent the "created" notification of an orchestration
\* that is then canceled is sent the "cancel" notification
\* (sendNotificationCancel, lines 567-587, guards on NotificationState
\* Created, which sendNotificationCreate sets at line 561).
CancelNotified ==
    (orch.state = "Canceled" /\ notes.create > 0) => notes.cancel > 0

\* Once the orchestration is Canceling it only ever becomes Canceled: no
\* write of Execute (whole-record Updates at lines 80, 355, 115) undoes a
\* cancel request.
CancelHonoured ==
    [][orch.state = "Canceling" => orch'.state \in {"Canceling", "Canceled"}]_orch

\* A Canceled orchestration stays Canceled through store failures, failed
\* notifications, crashes and restarts: the whole-record writes of a stale
\* local copy (lines 80, 355, 115) never resurrect it.
CanceledStaysCanceled ==
    [][orch.state = "Canceled" => orch'.state = "Canceled"]_orch

(* Liveness, under Fairness.                                               *)

\* Every orchestration eventually finishes for good.
EventuallyFinished == <>[](orch.state \in Finished)

=============================================================================
