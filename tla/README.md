# Formal models of the control plane's orchestration and provisioning

TLA+ models of three parts of `src/components/kyma-environment-broker` and
of the provisioner's runtime configurator, model-checked with TLC, with
TLAPS proofs of their main safety properties and of a refinement.

| Module | Models | Source |
|---|---|---|
| `Orchestration` | one fleet-wide orchestration driven by `orchestrationManager.Execute`, the store it writes, the per-runtime operations it creates, the API's cancel and retry, a broker restart | `internal/orchestration/manager/manager.go`, `cmd/broker/main.go` 389-403, 521-591 |
| `Provision` | concurrent `ProvisionEndpoint.Provision` calls, with their input checks, storage failures and a broker restart | `internal/broker/instance_create.go`, `cmd/broker/main.go` 508-519 |
| `ProvisionService` | what the provisioning endpoint promises its callers; `Provision` implements it | (abstract) |
| `MaintenanceWindow` | `resolveMaintenanceWindowTime` and the policy rule selection (pure functions) | `manager.go` 406-492 |
| `Configurator` | the provisioner's `ConfigureRuntime` for one runtime, run again after errors and restarts | `components/provisioner/internal/runtime/configurator.go` |
| `OrchestrationProofs`, `OrchestrationSafety`, `ProvisionProofs`, `ConfiguratorProofs`, `MaintenanceWindowProofs` | TLAPS proofs | |
| `MCOrchestration`, `MCProvision`, `MCMaintenanceWindow` | model values and input sets for TLC | |

`PROJECT.json` maps every definition to the lines it translates and lists
the runs, the mutants, the findings and the hazards.

## How the parts interact

An orchestration id sits in the orchestration queue (`process.Queue`, three
workers, `main.go` 983). A worker calls `Execute(id)`. Execute:

1. loads the record and resolves the operations;
2. writes the record (`Update`, line 80) and sends the "created" notification;
3. hands the operations to the strategy and polls (`waitForCompletion`);
4. writes the final state (line 115).

A delay it returns re-queues the id. The API writes `Canceling`, or adds
`RetryOperations`, to the same record at any time. On start the broker
re-queues unfinished orchestrations and provisioning operations. The
Provision endpoint creates the provisioning operation and instance records
and adds the operation to the provisioning queue. Further down the
provisioning, the provisioner's `ConfigureRuntime` hands the new cluster's
Runtime Agent a one-time Director token through a secret in each of two
namespaces. It shares no state with the broker's parts, so its module
stands alone.

## Orchestration

State:

- `orch` is the record in the store.
- `ops[r]` is the sequence of operation states of runtime `r`.
- `exec` holds the operations handed to the strategy.
- `queued` means the id is in the queue.
- `pc`, `o`, `operations`, `canceled` and `stats` are the worker's locals:
  the program counter, the local copy of the record, and the poll loop's
  variables.
- `notes` counts the notifications sent.
- `orch.notif` is the stored NotificationState. It is `none` in every
  reachable state: Execute sets Created on its local copy after its last
  write (line 561), and the poll loop reloads that copy (line 295). So no
  property is stated about the stored value moving forward (specification
  section 3), which would hold of a constant; run `cancel_notification`
  shows the consequence instead.
- `faults` and `requests` are the bounded fault and request counters.

Every read and every whole-record write of the store is a step of its own,
because Execute writes back its whole local copy and the API may write
between the read and the write.

| Action | Code |
|---|---|
| `ExecuteResolve` / `ExecuteResolveFail` | `resolveOperations`, `NewOperationForPendingRetrying`, `failOrchestration` (lines 61-78, 164-271) |
| `ExecutePersist` / `ExecutePersistFail` / `ExecuteNotifyFail` | lines 80-105 and `sendNotificationCreate` |
| `PollTick` | one tick of `waitForCompletion` (286-329) and the exit check (362-368) |
| `PollRetry`, `PollRetryResolveFail`, `PollRetryLookupFail`, `PollRetryUpdateFail` | the mid-flight retry (330-361) and its three error paths |
| `ResolveCanceled`, `ResolveCancelFail`, `ResolveCompleted` | `resolveOrchestration` (377-403), `sendNotificationCancel` |
| `ExecuteFinish` | the final Update (114-122) |
| `CrashRestart` | a crash anywhere; `reprocessOrchestrations` decides whether the id is queued again (`Reprocessed`) |
| `OpStart`, `OpEnd`, `RequestCancel`, `RequestRetry` | the staged upgrade operations and the API, which are not under `src/`; modelled from the specification |

Faults are a crash, a failed store write, a temporary notification error, a
resolver or factory error, and runtimes leaving the fleet. Each kind is
enabled per run and bounded by `MaxFaults`. `MaxRequests` bounds the API.

## Provision

Each request is a goroutine with its own `pc`. It first goes through the
checks that read no storage but the trial count (`ValidateAndExtract`:
lines 113-129 and `validateAndExtract`, 225-331). Their outcome is the
request's `check` field: all pass, no region or provider in the context
(500), or an invalid input (400). The trial count comes last. Then comes
the lookup of an existing operation (`GetExistingOperation`, 144-152), and
then one of two paths:

- `HandleExistingOperation` (382-405);
- `InsertOperation` (177-181), then `InsertInstance` (194-198), then
  `AddToQueue` (200-210).

The store is `opsDB` and `instDB`. Inserting a second instance with the same
id fails, as the primary key makes it fail. `StorageFailure` makes any
storage call fail with the response its call site returns (400, 409 or 500).
`Restart` ends the calls in flight and queues every stored operation again
(`processOperationsInProgressByType`). The model has no provisioning worker,
so every stored operation is unfinished.

`ProvisionService` says what the endpoint promises, with the storage and
the queue left out. A request is pending until it is answered once and for
good. While pending it may save its own operation and its own instance.
It is accepted only with the ID of a saved operation of its instance and
parameters, and only once that instance is saved. It may be refused at any
time, and a restart refuses every pending request. Every request is
answered (weak fairness). `Provision` defines the refinement mapping
`Service`:

- `status[r]` is `pc[r]` once it is a response and `"pending"` before;
- `answer` is `resp`;
- `stored` is `opsDB`;
- `instances` is the set of ids in `instDB`;
- `request` keeps only the instance and parameters of `input`.

`ImplementsService == Service!Spec` is checked as a PROPERTY of the
`provision` run.

## MaintenanceWindow

Time is a number of slots (`SlotsPerDay` slots a day) from a Sunday
midnight. A Match regular expression is the set of values it matches; one
that does not compile matches nothing. An unparsable `TimeBegin` is its own
value. `EffectiveRuntime` is the rule loop as a `FoldLeft` of `RuleStep`,
which keeps the loop's `continue` and `break`. `ResolveMaintenanceWindowTime`
follows lines 466-491. The state is one input tuple chosen by `Init` and
never changed: each state is one test case.

`FirstAvailableDayDiff` and `NextAvailableDayDiff` live in `common/`, which
is not under `src/`, so they are modelled from the specification.

## Configurator

`pc` follows one call of `ConfigureRuntime`:

1. the Director token, in `getConnectionToken`;
2. for `ns` = kyma-system and then compass-system: the client, the
   namespace, and the secret Create, or Update when the secret exists.

`token` is the token the call fetched. `issued` numbers the Director's
tokens. `secret[i]` is the token in namespace `i`'s secret. The two
`RetryOnError` loops count their attempts in `tries`, against
`TokenAttempts` (3) and `NamespaceAttempts` (2). Any other failing call
ends the call with an error (`ClusterCallFail`).

`Call` is the provisioning step running `ConfigureRuntime` again after an
error, or after a restart lost its result. That step is not under `src/`.
It is modelled from the specification's idempotent, retried steps, as is
`Restart`. `MaxCalls` and `MaxFaults` bound them. The token stands for the
whole configuration data, whose other fields are the same in every call.

## Runs

| Run | Checks | Result and meaning |
|---|---|---|
| `orchestration` | TypeOK, AtMostOneActiveOp, CanceledMeansQuiescent, EventuallyFinished | pass (≈20k states): retries, cancels, fleet changes and notification failures |
| `orchestration_faults` | CanceledStaysCanceled | pass (≈3.6M states): crashes, store, notification and resolver failures, two per behaviour; no stale whole-record write takes a Canceled orchestration elsewhere |
| `cancel_overwritten` | CancelHonoured | **violated**: a cancel is overwritten by Execute's whole-record Update |
| `stale_stats` | QuiescentWhenDone | **violated**: after a mid-flight retry of a failed runtime the loop exits on the statistics read before the retry, and Failed is written while the retried operation is Pending |
| `cancel_notification` | CancelNotified | **violated**: NotificationState Created is never persisted |
| `duplicate_ops` | AtMostOneActiveOp | **violated**: operations are created again after a failed Update |
| `canceling_stuck` | EventuallyFinished | **violated**: a Canceling orchestration with no InProgress operation is never resumed after a restart |
| `provision` | ImplementsService | pass (≈259k states): three requests, two parameter sets, every input-check outcome, a failure or a restart; the refinement of ProvisionService, its liveness part included |
| `provision_orphan` | AcceptedIsQueued | **violated**: a retry is answered with an orphan operation that is never queued |
| `provision_trial_race` | OneTrialPerGA | **violated**: two trials in one global account |
| `maintenance_window` | WindowIsEarliest, SettingsPerSpec | pass (26,704 input cases): every allowed-day set, begin, end and time of a week, with and without a later schedule time; every policy of up to two rules over two values |
| `configurator` | ConfiguredWithOwnToken | pass (742 states): three runs of ConfigureRuntime, three failing calls or restarts |

Each violation is a finding in `PROJECT.json`. Each property of a passing
run has a mutant in `PROJECT.json`, a plausible bug in the mapped
definition, and TLC finds the property violated under that mutant.

The bounds and why they are enough:

- **Orchestration.** Two runtimes distinguish "all", "some" and "none" of
  the targets, which are the cases of the fleet change and of the
  `RetryOperations` filter. Two API requests allow a cancel during a retry.
  One or two faults reach every error path. Every bug found needs at most
  one fault and two requests.
- **Provision.** Three requests give two concurrent duplicates and a later
  retry. The `provision` run has no symmetry reduction, because its
  refinement property includes fairness. The two violation runs take only
  inputs that pass the checks, since a failed check writes nothing.
- **Configurator.** One call can fail after the kyma-system secret. A
  second can use up the Director retries. A third then succeeds over the
  secrets the first left. This takes three runs and three faults.
- **MaintenanceWindow.** Four slots a day separate begin < end, begin = end
  and begin > end. Every time of a week with every day set covers each
  weekday shift.

The crash, the three failing poll-retry paths, the persist failure, the
resolve failure and the cancel failure fire only in `orchestration_faults`.
That run checks only CanceledStaysCanceled. With two faults,
AtMostOneActiveOp and CanceledMeansQuiescent fail by the cause that
`duplicate_ops` shows. A failed persist or a crash makes the next call
create the operations again. `ResumeOperations` then runs both copies, and
the statistics count only each runtime's latest operation, so a cancel can
end while the older copy is InProgress.

## Further observations

These were seen with TLC while modelling. No run is kept for them; they are
hazards in `PROJECT.json`.

- **A final state is overwritten.** A failed `RetryOperations` lookup during
  the poll loop (line 331) leads `NewOperationForPendingRetrying` to set
  Succeeded (line 221). Line 355 writes that to the store while operations
  run, and the final Update later writes Failed over it.
- **Identical retries get 409.** A retry of an identical Provision request
  is answered 409 Conflict in two cases: when it reads the operation before
  the instance is inserted, and for ever after a failed instance insert
  (lines 390-395).
- **A restart queues duplicates.** Two concurrent identical Provision
  requests both insert an operation. After a restart,
  `processOperationsInProgressByType` queues both.
- **Retry windows are the reverse of the specification.** For a Retrying
  orchestration, `NewOperationForPendingRetrying` (lines 173-184)
  recomputes an operation's window only when the retry is flagged
  Immediate, and zeroes it otherwise. Specification 4.3 step 3 says windows
  are recomputed only if the retry is not Immediate. The window is
  operation data, which the Orchestration model abstracts away.
- **A 422 becomes a 400.** `validateAndExtract` answers an invalid
  autoscaler or OIDC input with a 422 `FailureResponse` (lines 255-262).
  `Provision` wraps every validation error in a new 400 response
  (line 128). The model has only the outcome "invalid", so it does not
  tell the two apart.
- **A crash can leave a Canceled orchestration with a running operation.**
  `Execute` creates a runtime's operations (line 61) before it persists
  the orchestration (line 80). After a crash, or a failed store write, in
  between, the next call creates them again. The stats count only each
  runtime's latest operation, so a cancel can see zero in progress, end
  the orchestration Canceled, and leave the older duplicate InProgress.
  TLC finds this with crashes enabled (resolve, crash, resolve, persist,
  the older operation starts, cancel, poll, final write), violating
  `CanceledMeansQuiescent`. The same duplication is what `duplicate_ops`
  shows against `AtMostOneActiveOp`.
- **No allowed day still gives a window.** With no allowed maintenance day,
  `resolveMaintenanceWindowTime` returns a window starting today, not the
  zero window of specification 4.4.

## Fairness

- **Orchestration.** The queue's workers keep taking ids, and a queued id
  is processed. This gives weak fairness on the worker's non-failing steps
  and on the operations' steps. The API, faults and crashes get no
  fairness: the code does not oblige them to happen.
- **Provision.** Each request's goroutine runs until it returns. This gives
  weak fairness per request on its non-failing steps. This is what makes
  the fairness of `ProvisionService` (every request is answered) hold.
- **Configurator.** No fairness. Whether the provisioning step runs
  `ConfigureRuntime` again depends on how its error is classified, which
  is outside `src/`. Only safety is checked.

Deadlock checking is off (`CHECK_DEADLOCK FALSE`) in the Orchestration,
Provision and Configurator runs. A finished orchestration, a set of
answered requests, or a step that succeeded or used up its runs,
legitimately stops. The pure MaintenanceWindow runs stutter and need no
such setting.

## Proofs (TLAPS)

- **`OrchestrationProofs!TypeCorrect`: `Spec => []TypeOK` for every value of
  the constants.** `TypeOK` is not inductive. `NewOpIds` indexes
  `ops[r][Len(ops[r]) + 1]`, and `OpStart` and `OpEnd` write
  `ops[id[1]][id[2]]`, so a step needs every known operation id to exist
  in `ops`. The inductive invariant is `IInv == TypeOK /\ Known`, where
  `Known` says every id in `exec` and `operations` is within `Len(ops[r])`.
  `NextIInv` has one step per action. It rests on lemmas about the
  helpers: `CreateOps` and `CancelPending` keep the type and only grow
  `ops`, and `Known` survives growth (`KnownGrow`, `KnownKeep`).
- **`ProvisionProofs!ProvisionTypeCorrect` and
  `ProvisionProofs!AcceptedCorrect`: `Spec => []TypeOK` and
  `Spec => []AcceptedMatchesRequest` for every set of requests, instances
  and parameters.** (The `provision` run checks `AcceptedMatchesRequest`
  as part of the refinement `ImplementsService`, whose Accept step it is.) `AcceptedMatchesRequest` is not inductive: the accepting
  step relies on what the request read earlier. The strengthening is
  `PInv`. It is the type invariant in three parts (Zenon handles the
  `BOOLEAN` fields), plus:
  - `Stored`: a request past `InsertOperation` has its operation in the
    store;
  - `FoundOK`: the operation a request read is stored and belongs to its
    instance.

  - `Inserted`: a request about to be queued has its instance stored.

  These hold because records are never deleted. `NextPInv` has one step
  per action, `Restart` included. TLC checked `PInv` as an invariant before
  it was proved.
- **`ProvisionProofs!ProvisionRefinement`: `Spec => Service!SafetySpec`.**
  `InitRefines` maps the initial states. `NextRefines` shows, under `PInv`,
  that each step is a service step or a stutter:
  - the checks, the lookup and the queue Add are stutters;
  - `InsertOperation` is `SaveOperation`;
  - a successful `InsertInstance` is `SaveInstance`;
  - `AddToQueue` and an accepting `HandleExistingOperation` are `Accept`,
    which needs `Stored`, `Inserted` and `FoundOK`;
  - every other response is `Refuse`;
  - `Restart` is `Interrupt`.

  The last step combines them by PTL, as in the standard refinement
  proof. The fairness part of `ImplementsService` is only model-checked.
- **`ConfiguratorProofs!ConfiguredCorrect` and `ConfiguratorTypeCorrect`:
  `Spec => []ConfiguredWithOwnToken` and `Spec => []TypeOK` for all
  bounds.** The property is not inductive, because the step that ends a
  call writes only the compass-system secret. The strengthening
  `CInv` adds `KymaWritten` and `DoneLegacy`:
  - a call fetches its token before touching a namespace;
  - while it works on the legacy namespace, the kyma-system secret holds
    its token;
  - a finished call is past the legacy namespace.

  The cases that write a secret are split by namespace, and by whether
  the secret exists.
- **`OrchestrationSafety!OneActiveOpPerRuntime` and
  `OrchestrationSafety!CanceledQuiescent`: `Spec => []AtMostOneActiveOp`
  and `Spec => []CanceledMeansQuiescent`, for every fleet and every bound,
  under the hypothesis `NoFailFaults`.** The hypothesis says the
  environment's faults are notification errors and fleet changes only,
  which is the fault set of the `orchestration` run. It is needed: with
  crashes, store errors or resolver errors both properties fail (run
  `duplicate_ops`, and the crash observation above). Neither property is
  inductive. The strengthening is `OInv`, which adds to `IInv`:
  - `OnlyLatestActive`: only a runtime's latest operation can be Pending or
    InProgress. With it, one active operation per runtime follows, and
    the stats (which count latest operations) see every active one
    (`LatestSeesAll`).
  - `PendingFresh`: a Pending orchestration has no retries and is not in
    the middle of a call, and between calls every runtime is settled. So
    `CreateOps` only appends behind a settled latest operation.
  - `RetrySettled`: the runtimes named in a retry are settled, so a retry
    again appends behind an inactive operation.
  - `CancelChain`: follows a cancel through a call. A Canceled
    orchestration has no active operation; a call that read Canceling and
    saw no operation in progress has none left. This is why the final
    write of Canceled is safe.

  `NextOInv` has one step per action; the actions that only fire on a
  crash, a store error or a resolver error are excluded by `NoFailFaults`.
  The lemmas `CreateOpsSafe`, `SetOpSafe` and `CancelPendingSafe` say what
  the helpers do to `OnlyLatestActive` and to settled runtimes. TLC
  checked `OInv` as an invariant (three runtimes, three requests and
  faults) before it was proved.
- **`OrchestrationSafety!CanceledPersists`: `Spec => CanceledStaysCanceled`,
  under every fault.** The action property follows from the inductive
  invariant `CanceledHeld`: while the orchestration is Canceled, no call
  is between reading the orchestration and writing it back, or the one
  that is read Canceled. So no stale copy is written over it. TLC checked
  `CanceledHeld` with every fault kind before it was proved.
- **`MaintenanceWindowProofs!WindowComposition`: for every runtime with a
  non-empty set of allowed days and every time `n`, `ComposeWindow(e, n)`
  (lines 471-491) equals `EarliestWindow(e, n)`**, the earliest window on
  an allowed day that is not over at `n`. The lemmas `DayOf` and
  `ClockRange` place `n` in its day; `FirstDay` and `NextDay` show that
  the day shifts of `FirstAvailableDayDiff` and `NextAvailableDayDiff` are
  the least allowed ones (seven cases each); `ChooseMin` turns the least
  element into the `CHOOSE` of the specification. The proof splits on
  whether the window of the first allowed day is already over at `n`.
- **`MaintenanceWindowProofs!WindowEarliest`: `WindowIsEarliest`, for
  every slot count, policy and time, under the hypothesis that the
  runtime after the policy is a well-formed `Runtimes` value.** That
  hypothesis is the type of a `FoldLeft` result, which needs induction
  over the rule list (below); TLC checks it on every input case.
- **`MaintenanceWindowProofs!RuleLoopInvariant`: the loop invariant of the
  rule loop (lines 405-465).** `ScanAfter(r, rules, k)` states what the
  loop has done after `k` rules: nothing if none of them matched, else the
  settings of the first matching rule applied. It holds at the start, each
  `RuleStep` keeps it (`ScanStep`), and at the end of the list it is the
  first-match result of the specification (`ScanResult`). Gluing the steps
  into a statement about `FoldLeft` is the induction the provers lack.
- The assumptions are `ConstantsAssumption`, `ProvisionAssumption` and
  `ConfiguratorAssumption`: finite sets, Boolean flags, natural bounds.

Only model-checked:

- the liveness property `EventuallyFinished`, because TLAPS does not reason
  about fairness or ENABLED;
- `SettingsPerSpec` in full, and the typing of `EffectiveRuntime` that
  `WindowEarliest` assumes: both are about the whole `FoldLeft` over the
  rules, and induction over data is out of the provers' reach. Each step
  of the fold is proved (`RuleLoopInvariant`);
- `AtMostOneActiveOp` and `CanceledMeansQuiescent` with crashes, store or
  resolver errors, where they do not hold.

## Not modelled

- **Two Execute calls for one orchestration at once.** The queue has three
  workers, and a re-Add of an id in flight lets two run.
- **Several orchestrations in one store.** `processCancelingOrchestrations`
  re-queues only the first, line 587.
- **The strategy's internal scheduling and the per-runtime staged manager.**
  Operations simply start and end.
- **Timezones and day-name parsing** (`ConvertSliceOfDaysToMap`), the
  description strings, and logging.
- **What each Provision input check looks at** (JSON schema, kubeconfig,
  region, OIDC). Only the outcome of the checks is modelled.
- **Two concurrent runs of `ConfigureRuntime` for one runtime.** The
  provisioner's operation queue, which would decide whether that happens,
  is not under `src/`.
- **The provisioner's `dbsession/factory.go`.** It only constructs
  sessions over a database connection, and has no state of its own.
- **Specification 8's empty `RetryOperations` list (lines 239-242).** It is
  unreachable in the model, because every retry request names a runtime.

## Next steps

- Model two concurrent Execute calls per orchestration, with version-checked
  writes.
- Model several orchestrations, so that the restart reprocessing is covered
  in full.
- Add an abstract orchestration state machine (specification 4.3). Under
  the cancel overwrite (`cancel_overwritten`), the detailed model does not
  implement it.
- Model the staged manager of specification 4.1.
