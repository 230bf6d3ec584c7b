# A TLA+ verification of aero-arc-relay

aero-arc-relay accepts telemetry from drone Agents over gRPC, attributes it to
the flight an API has declared for the Agent, hands it to outputs (a normalized
telemetry writer and a set of sinks), tells a Registry where each Agent is
connected, and delivers control commands to Agents. The specifications here
model what makes that hard: sessions and streams that replace each other while
frames are routed and commands are unanswered, and a fence that must keep
telemetry back whenever the Relay does not know the Agent's context; commands that
must reach a vehicle at most once while their callers, their stream and their
session come and go; and queues of accepted records that shutdown must store or
report.

Paths are relative to the repository; `relay/` is `internal/relay/`.

## 1. Inventory

| Component | State | Operations | Interacts with | What makes it correct |
|---|---|---|---|---|
| Agent sessions and streams (`relay/gatewayserver.go`, `relay/streams.go`) | `grpcSessions`, and per session `stream`, `pendingStream`, `retired`, the locks `ownershipMu`, `controlStreamMu`, `publicationMu`, `sessionMu` | `Register`, `TelemetryStream`, `updateStream`, `registerActiveAgent`, `deleteStream` | Registry reporter, outputs, every command path | only the owning session routes or publishes; no handler removes a session that is not its own; cleanup always ends |
| Operation-context control (`relay/apiserver.go`, `relay/gatewayserver.go`) | per session: acknowledged context, `operationContextUnreconciled`, `emptyContextCommandID`, `operationCommands`, `pending`, `operationGate` | `SetOperationContext`, `ClearOperationContext`, ACK handling, abort on replacement, snapshot on retirement | streams (writes and ACKs), sessions, telemetry admission | telemetry is attributed to the context the Agent has, or held back |
| Reconnect cache (`relay/relay.go`) | `disconnectedOperationContexts`, five minutes, 1024 entries | retain, take | `deleteStream`, `Register` | never hands a stale or uncertain context over as known |
| Aircraft commands (`relay/apiserver.go`) | `aircraftCommands`: waiters, delivery context, outcome | `SendAircraftCommand`, its delivery task, result handling, abort | sessions, streams, command-ID retention | one delivery per command ID, on the binding it was admitted on; no waiter left behind |
| Mission deployment (`relay/mission_deployment.go`) | `missionDeployments`: outcome, flags, waiters, the admission object; the operation gate | deploy, attach, reserve, supersede, deliver, result, waiter cancellation | operation gate, streams, command-ID retention | delivered once per attempt, in its context and on its binding; the gate is returned exactly once |
| Registry reporter (`internal/registryreporter`) | `activeAgents`, `registeredAgents`, `agentAdmissions`, heartbeat workers | `RegisterAgent`, `StopAgent`, heartbeats, `Start`, `Close` | sessions, Registry service | the newest admission wins; no heartbeat after `StopAgent` |
| Telemetry writer (`internal/telemetrywriter`) | one bounded queue, worker batches, `closed`, `backendErr` | `WriteEnvelope`, worker flush and retry, `Close` | router, backend | `Close` without error means every admitted record was written |
| Output router and filters (`internal/outputs`) | consumers, filters | `Route`, `Close` | telemetry admission, writer, sinks | the ACK reflects what the required outputs did |
| File, S3, GCS and Kafka sinks (`internal/sinks`) | queue and worker of `BaseAsyncSink`; the current file, `f.mu`, `s.mu`, the ticker | enqueue (block or drop), write, rotate, upload, `Close` | router, object store, broker | nothing accepted is lost without a trace; `Close` ends |
| Batching sinks and Prometheus (`internal/sinks`) | queue of `BaseAsyncSink`, a batch | enqueue, flush, `Close` | router | as above; partly stubs in this commit |
| Relay start and shutdown (`relay/relay.go`, `cmd/`) | listener, servers, `closeOnce` | `Start`, `Close` | all | bounded shutdown in the right order |
| Authentication, configuration, normalization, envelope model | none while running | pure checks and conversions | | |

The hard behaviours are concurrency between gRPC handlers of one Agent
(re-registration, several streams of one session, several API callers), calls
that outlive what they were made for (a Registry call, a blocked stream write, a
deferred cleanup), lost and late acknowledgements with retries of durable command
IDs, a process restart against an Agent that keeps its context on disk, and a
shutdown that closes outputs to which handlers it could not stop may still write.
`PROJECT.json` lists every hazard at its line under "hazards".

## 2. Modules

    StreamLifecycle              sessions and streams of one Agent
      StreamLifecycleProofs      its theorems
    OperationContext             EXTENDS StreamLifecycle: control on top of it
      OperationContextProofs     its theorems, and that it implements StreamLifecycle
        CallOutcomeProofs        types, and what a call that reports success leaves
          AttributionProofs      the context of the session is the Agent's, and what
                                 an authoritative clear may end
      MCOperationContext         small request sets and symmetry for TLC
    CommandSession               what the commands of one session share
      AircraftCommand            ARM and DISARM
      MissionDeployment          DeployMission and its reservations
      SessionCommands            EXTENDS both: the composition with the binding's swap
        SessionCommandsProofs    its theorems
    AsyncSink                    the bounded channel of a sink and its worker
      FileSink                   EXTENDS AsyncSink: the current file and its rotation
        UploadSink               EXTENDS FileSink: S3 and GCS over a file sink
          OutputPipeline         EXTENDS UploadSink: Route, Kafka, shutdown
            OutputPipelineProofs its theorems
            MCOutputPipeline     scenarios for TLC
    RecordLedger                 what the telemetry writer promises (abstract)
    TelemetryWriter              the writer, with RecordLedger instantiated
      TelemetryWriterProofs      its theorems, and that it implements RecordLedger
    RegistryReporter             admissions and heartbeats of one Agent
      RegistryReporterProofs     its theorems

### StreamLifecycle

One Agent: Agents share only `sessionsMu`, which no operation holds across a
wait. Every member of `Session` is a Register call and the session it creates,
every member of `Stream` a TelemetryStream call and its binding, so identity
stands for session ID, pointer and generation comparisons.

| Code | Model |
|---|---|
| `grpcSessions[agentID]`, `session.retired` | `grpcSession`, `retired` |
| `session.stream`, `session.pendingStream`, `binding.closed` | `stream`, `pendingStream`, `closed` |
| Register: loop, lock of the previous session, cancellation, installation | `StartRegister`, `RetryRegister`, `CancelRegister`, `InstallSession` |
| `updateStream`: the look-up, then the validated binding | `OpenStream`, `BindStream` |
| `registerActiveAgent`: checks, Registry call, active-binding swap | `PublishBegin`, `PublishOk` or `PublishFail`, `ActivateStream` |
| receive loop: admission of a frame, routing, end of the stream | `BeginFrame`, `EndFrame`, `StreamEnds` |
| `deleteStream` | `DeleteStream` |
| the reporter's heartbeats for this Agent | `agentActive` |
| process restart | `Restart` |

Locks that are taken and released inside one action need no variable. The read
side of `ownershipMu` is held across actions; its holders are derived from the
program counters (`LeaseHolders`), and Go's rule that a waiting writer stops new
readers is `LeaseAvailable`. `publicationMu` is `PublicationFree`.

### OperationContext

Every action is an action of `StreamLifecycle` with the control state it also
changes, or leaves the lifecycle variables alone (theorem `ImplementsLifecycle`).
An operation context is a member of `Flight`, `None` the empty one; a request is
a command ID with its payload, and doubles as its fingerprint.

| Code | Model |
|---|---|
| session's context, fence, empty-clear reservation | `context`, `unreconciled`, `emptyCommand` |
| `operationCommandState`, `pending` | `command[s][c]`: phase, request, expected context, delivered, binding |
| `acquireOperationCommandSlot`, `reserveEmptyContextReconciliation` | `Call`, `GiveUp`, `AcquireGate`, `MayReserve` |
| `beginOperationCommand`: expiry, conflict, attach, own | `Admit`: `RefuseAdmission`, `AttachToKnown`, `OwnAttempt` |
| stream write and what follows it | `FailUnsent`, `WriteCommand`, `WriteReturns` |
| `awaitOperationCommand` | `Return`, `Deadline` |
| ACK handling | `ReceiveAck`, `CorrelateAck`, `FenceAfter` |
| `abortPendingCommandsForStreamReplacement`, `snapshotContextAndAbortPending` | `AbortForReplacement`, `SnapshotOf`, `AbortPending` |
| frame admission and attribution | `AdmitFrame`, `DeclineFrame`, `RouteFrame` |
| reconnect cache: retain, take, expiry or eviction | `CleanUp`, `Register`, `ForgetSnapshot` |

Time is abstract: a deadline passes, a retained outcome (`Retained`) or a cached
snapshot expires whenever the code looks at it. A frame may be declined whatever
its contents, since validation is not modelled. The aircraft and mission
commands that the same abort functions complete are in `SessionCommands`.

The Agent is external and modelled from what the Relay relies on: it takes
commands in order from the stream it opened last, applies each command ID once
(durable journal) and answers repetitions with ALREADY_APPLIED, and reports its
active context with every ACK. A command or an ACK may be lost with its stream.

`Api` says how callers use command IDs: "serial" (a request is repeated at will,
but not after the next ID was used), "once" (calls overlap, none is repeated),
"free" (both). `context_retry` and `context_live` use "serial",
`context_reconnect` uses "once", the theorems that need a discipline cover both, and
"free" is what the two violation runs need.

The token of `operationGate` is not a variable here: a session's holder is the call
whose program counter is between `AcquireGate` and its return, so that a call which
returns a token it does not hold cannot be expressed. `SessionCommands` has the token
as state, handed on between calls and tasks, with Set and Clear as one holder among
them (`GateIsHeld`).

### SessionCommands

One session and one command ID. A command state is named by the call that
allocated it, so that the members of `MissionCall` and `AircraftCall` stand for
RPCs and for the pointers the code compares. The write sides of `controlStreamMu`
and `ownershipMu` take two steps (`StartSwap`, `FinishSwap` and `StartRetire`,
`FinishRetire`), because a waiting writer stops new readers; their read sides are
derived from the program counters (`Delivering`, `ArmDelivering`, `Checked`).

| Code | Model |
|---|---|
| `session.stream`, `missionDeployments[id]`, `aircraftCommands[id]` | `stream`, `missionEntry`, `aircraftEntry` |
| `SendAircraftCommand`: refused, attached, admitted; its end | `SendRefused`, `SendAttaches`, `SendBegins`; `SendReturns`, `SendGivesUp` |
| the aircraft delivery task | `ArmDropped`, `ArmChecked`, `ArmSends`, `ArmSent` |
| aircraft results, retention | `ArmResult`, `ForgetArm` |
| `attachMissionDeployment` | `AttachRunning`, `JoinReservation`, `ReserveRetry`, `Supersede`, `AttachFails`, `QueueForGate` |
| `DeployMission` past it: gate, context, `beginMissionDeployment`, wait | `TakeGate`, `AbandonGate`, `ContextPasses`, `ContextFails`, `Begin`, `BeginRefused`, `TakeResult`, `GiveUp` |
| `missionAdmission`: callers that leave, the end of its context | `LeaveAdmission`, `cancelled` |
| the reservation task | `TaskTakesGate` … `TaskEnds` |
| the mission delivery task | `DeliveryDropped`, `Commit`, `SendEnds` |
| result admission and `validateMissionDeploymentResult` | `AgentResult`, `ValidResult`, `ResultOutcome` |
| `abortPendingCommandsForStreamReplacement`, `abortPendingCommandsLocked` | `AbortPending`: `AbortArms`, `LoseMissions` |
| expiry and room in the table | `ForgetMission`, `ForgetArm` |
| a Set or Clear in between | `OperationTakesGate`, `OperationEnds` |

All mission calls carry one payload: another payload under the same ID, or one
that is not canonical, is refused before any state changes. The operation context
is one bit, reconciled and the mission's, which whoever holds the gate as an
operation-context command sets as it likes; `OperationContext` says how.
`Earlier` is a call that returned before the behaviour begins, after it wrote the
mission on the first binding, and left an uncertain, retryable outcome whose result may
still come. The other kinds of retained outcome (final, or never delivered) arise in
the course of the behaviours.

### OutputPipeline

A record stands for an envelope. Records are numbered in the order in which they
are routed; each comes from a stream of its own. S3 and GCS differ in the client
only and are one "upload" sink, which owns the "file" sink it embeds; a scenario
with both as outputs is excluded by `ScenarioAssumption`.

| Code | Model |
|---|---|
| `BaseAsyncSink`: channel, worker, error counter | `queue`, `closed`, `hand`, `counted` |
| `EnqueueContext` | `Enqueue` in `Accepted`; `Refused`, `Panics` |
| `FileSink`: the file, the descriptor, `f.mu` | `content`, `current`, `fileOpen`, `fileMu` |
| its `handleMessage` and `rotateFileLocked` | `WriteRecord`, `RotateAndWrite`; `Rotated`, `RotationFails` |
| upload sink: `s.mu`, ticker, objects | `uploadMu`, `ticker`, `bucket` |
| its `handleMessage`; `RotateAndUpload`; `uploadAndMaybeRotateLocked` | `PassOn`, `PassedOn`; `TickStarts`, `TickLocks`, `TickEnds`; `Uploadable`, `Put` |
| its `Close` | `StopTicker`, `CloseUploadQueue`, `UploadQueueDrained`, `LastUpload`, `LastUploadEnds`, `UploadClosed` |
| `Router.Route` | `Route`, `RouteReturns` |
| Kafka: delivery report or five seconds, `Close` | `Produce`, `CloseKafkaQueue`, `KafkaClosed` |
| shutdown: `GracefulStop`, ten seconds, `Stop`, `Router.Close` | `Shutdown`, `Stopped`, `StopForced`, `MayClose`, `Closed` |

`grpcServer.Stop` does not wait for handlers, so after a forced stop a handler may
still be in `Route`, or enter it with a frame it had read. The two mutexes of the
upload sink are held over network calls and over the wait for room in the file
queue, and are variables. The clock is open: any record may find a rotation due.
A rotation in the second of the last one generates the same file name again.

### TelemetryWriter and RecordLedger

A `Record` is one WriteEnvelope call and the record it normalizes; `place` says
where it is. Order inside the queue and inside a batch is left out, since nothing
depends on it. The read side of `stateMu` is held exactly while a record is
"offered"; a Close that waits for the write side stops new readers.

| Code | Model |
|---|---|
| `queue`, the workers' batches, what became of a record | `place` |
| `closed`, `workerCtx`, `backendErr` | `closed`, `cancelled`, `backendErr` |
| `WriteEnvelope`: not supported or not normalized, lock, send, timeout | `Skip`, `Offer`, `Enqueue`, `Withdraw` |
| `runWorker`: receive, ticker, closed queue, cancelled context | `Take`, `Tick`, `QueueEnds`, `SeeCancelled`, each with the `Flush` it makes |
| `writeBatch`: attempt, backoff, end of the write context | `WriteOk`, `WriteFails`, `Retry`, `GiveUp` |
| `Close`: lock, close the queue, deadline, drained, backend | `BeginClose`, `CloseQueue`, `DrainDeadline`, `Drained`, `CloseBackend` |

The backend is external: a write or its Close succeeds or fails. A write that was
reported as failed counts as lost, even if the backend kept it. `Close` is called
once, because the Relay's own Close runs under `closeOnce`; a second caller of
`Writer.Close` would not learn from its result that the first one's deadline left
records in the queue.

`RecordLedger` is the promise in four actions: a record is admitted or declined,
admitted records are settled together as stored or lost, and Close returns success
only if no admitted record is outstanding or lost. `KeepsLedger` maps the queue and
the batches to "admitted".

### RegistryReporter

An `Admission` is one RegisterAgent call with the admission and the generation it
creates. The Registry is external: a call is answered, refused or times out.

| Code | Model |
|---|---|
| `agentAdmissions`, `activeAgents`, `registeredAgents`, `agentLastReported` | `admission`, `active`, `registered`, `lastReported` |
| `admission.cancel`, `generation.cancel`, `workerCtx` | `overtaken`, `cancelled`, `stopped` |
| `RegisterAgent`: first section, failure, installation or supersession, worker start | `BeginAdmission`, `AdmissionFails`, `InstallGeneration` or `Superseded`, `AdmissionReturns` |
| `StopAgent` | `StopAgent` |
| `reportAgent`: throttle and reservation, the calls, the second section | `Report`, `NotFound`, `ReportOk`, `ReportFails` |
| a worker's end | `WorkerEnds` |
| `Start`, `start`, the Relay's heartbeat | `BeginStart`, `StartFails`, `MarkStarted`, `Spawn`, `RelayStep`, `RelayWorkerEnds` |
| `Close` | `BeginClose`, `CloseReturns`, `CloseTimesOut` |

A cancellation right after `r.mu` is released is part of the section's action: it
only lets a call fail, which it may do anyway. The code therefore has a short window,
from the unlock to the cancellation, in which the previous generation is replaced and
not cancelled yet; `OneLiveHeartbeat` and its theorem do not show it. It is
harmless because `reportAgent` looks at `activeAgents` again. The end of a Registry call and the
section after it are one action for the same reason. Calls before Start and after
Close are allowed; the second happen, since `grpcServer.Stop` does not wait for
handlers. `StreamLifecycle` sees of all this `agentActive`: a generation is active.

## 3. Runs

| Run | Instance | Checks |
|---|---|---|
| `lifecycle` | 2 registrations, 3 streams, Registry, fairness | `LeaseImpliesOwnership`, `LiveBindings`, `PlacementFollowsOwnership`, `ServedSessionKept`, `RegisterEnds`, `CleanupEnds` |
| `context_reconnect` | 2 sessions, 1 stream, 2 callers, set / clear / authoritative clear, "once" | `ControlTypeOK`, `AttributionMatchesAgent`, `AuthoritativeClearOnlyReconciles` |
| `context_retry` | 1 session, 2 streams, Registry, 2 callers, set / clear, retries | `AttributionMatchesAgent`, `PendingOnLiveBinding`, `DeliveredSuccessReconciles` |
| `context_live` | 2 sessions, 1 stream, no authentication, 2 frames, fairness | `AttributionMatchesAgent`, `RegisterEnds`, `WaiterReleased`, `FrameKeepsContext` |
| `context_late_ack` | 1 stream, two commands, "free" | violates `LateAckNeverReopens` |
| `context_replay` | 1 stream, two commands, "free" | violates `AppliedReconciles` |
| `commands` | 3 mission and 2 aircraft calls, 2 bindings | `DeploymentIsAwaited`, `UndeliveredWasNeverSent`, `MissionStaysOnItsBinding`, `GateIsHeld`, `OneKindPerId`, `ArmIsAwaited`, `ArmStaysOnItsBinding`, `OutcomeIsFinal`, `AdmittedInContext` |
| `mission_redelivery` | 3 mission calls, 2 bindings | violates `RedeliveredOnOriginalBinding` |
| `telemetry_writer` | 3 records, 2 workers, queue 2, batch 2, 1 retry, fairness | `NoSendOnClosedQueue`, `KeepsLedger`, `AdmittedIsSettled`, `CloseEnds` |
| `registry_reporter` | 2 admissions, fairness | `OvertakenStaysOut`, `OneLiveHeartbeat`, `MapsAgree`, `ActiveIsReported`, `StaleWorkerEnds`, `CloseEnds` |
| `outputs` | 3 scenarios, queues of 1, 2 files, both policies, fairness | `CloseDrains`, `PanicOnlyAfterForcedStop`, `ObjectsOnlyGrow`, `ShutdownEnds`, `RouteEnds` |
| `outputs_close` | 1 record, upload sink | violates `CloseUploads` |

The type invariants are proved and, but for `ControlTypeOK`, not run again.

What they show:

- `LeaseImpliesOwnership`: routing and Registry publication linearize before or
  after a re-registration or a cleanup, never across one.
- `LiveBindings`, `ServedSessionKept`: the deferred cleanup of an older stream, a
  failed candidate or a replaced session never removes or mutilates the live one.
- `PlacementFollowsOwnership`: `StopAgent` and `RegisterAgent` of two generations
  cannot be applied in the wrong order, and no placement outlives its handler.
- `AttributionMatchesAgent`: whenever the live session would route telemetry and
  no command is pending, it stamps the context the Agent really has. Every path
  that gives up on a delivered command (deadline, failed write, stream
  replacement, retirement, restart) has to fence.
- `FrameKeepsContext`: reading the context after the reconciliation check does not
  misattribute a frame, because ACKs and frames share one ordered stream.
- `AuthoritativeClearOnlyReconciles`: an authoritative clear is admitted on the
  fence, or on a reservation, that it finds under the gate, and takes effect on the
  Agent steps later. It takes effect for the first time only while no session routes
  telemetry, so that it never ends the flight a Set has started in between, in
  whatever session: what it found is still so, or its reservation was for a
  command that is applied already.
- `PendingOnLiveBinding`, `WaiterReleased`: no waiter is left on a dead binding.
- `DeliveredSuccessReconciles`: APPLIED from one's own delivery means reconciled.
- `KeepsLedger`: a lost batch or a drain that was cut short always reaches the
  result of Close, whichever worker met it and whatever succeeded later.
- `NoSendOnClosedQueue`, `AdmittedIsSettled`, `CloseEnds`: waiting callers and Close
  exclude each other, a batch that does not fill is written, and Close returns
  with a failing backend and a full queue.
- `OvertakenStaysOut`, `OneLiveHeartbeat`, `MapsAgree`: the newest successful
  admission heartbeats, alone, until it is replaced or stopped, and a late answer of
  an older call or report changes nothing.
- `ActiveIsReported`, `StaleWorkerEnds`: neither the race of Start and RegisterAgent
  nor the throttle silences an active Agent, and stale workers end, also after Close.

- `DeploymentIsAwaited`, `ArmIsAwaited`: through attach, reservation, supersession and
  cancellation in any order, a running command has exactly the waiters it counts
  and at least one; the last one that leaves ends it.
- `UndeliveredWasNeverSent`, `OutcomeIsFinal`: what a caller is told of a mission is
  final, and "not delivered" is never said of one that may be flying.
- `MissionStaysOnItsBinding`, `ArmStaysOnItsBinding`: no command admitted on one stream
  is written to its replacement.
- `GateIsHeld`, `AdmittedInContext`: the token of the gate is neither lost nor
  duplicated among callers and reservation tasks, and keeps the operation context
  still between its check and the delivery.
- `OneKindPerId`: the ID check of a mission is repeated where its state is stored.
- `CloseDrains`: a sink that closes without an error leaves no accepted record
  in a queue, not in the second queue of the upload sink either.
- `PanicOnlyAfterForcedStop`: the order of shutdown protects the closed channels, and
  only a forced stop gives that up.
- `ObjectsOnlyGrow`: repeated uploads of one file and rotations that meet a name again
  do not damage an object.
- `ShutdownEnds`, `RouteEnds`: ticker, worker, Close and handlers never wait for
  each other in a circle, and a sink with the block policy lets `Route`, and
  with it the ownership lease, go.

Bounds. Two sessions are the previous and the next one; two streams of a session
are the accepted and the replacing one, three add a superseded candidate; one
flight and the empty context are told apart, two flights where commands could be
confused; two callers contend for the gate. `Window` bounds messages in flight
per direction (2 where a late ACK must meet a newer one), `FrameWindow` the frames
among them. Three records fill a queue or a batch of two and leave one waiting; two
workers hold batches at the same time. Two admissions are the active generation
and its replacement; the safety of more of them is proved. The three
workloads of `commands` are two retries of a retained mission, and one retry or one
new mission against two aircraft calls: two callers attach, join, supersede or
abandon one state, and a third state (`Earlier`) is what they replace; one swap
separates two bindings. In `outputs` a queue of one is full with one record in
the worker's hand and one waiting; two records reach every pair of places of the
two queues in a row, and two files are a file and its rotation. Safety was also
checked for the lifecycle with 3 sessions and 3 streams, and for
`context_reconnect` with one "serial" caller, once with 2 streams and two commands
(4.2 million states), once with an authoritative clear that reuses the Clear's ID,
and for `context_retry` with an authoritative clear that reuses the Set's (3.2 million
states, over three minutes): no standing run of `OperationContext` reuses an ID for
another payload, the second alternative of `RefuseAdmission`; the theorems cover it. Symmetry
is used in safety runs only. Deadlock checking is off because the system may rest:
finite sets of calls and records are used up, and nothing obliges an Agent to connect.

Fairness. Goroutines that can run do; a Registry call has a request timeout;
publicationMu is a fair mutex (strong fairness of `PublishBegin`); a stream Send
returns because the peer reads or the transport fails; routing returns while the
outputs drain: the writer has an enqueue timeout, and `RouteEnds` shows it of the
sinks, also under the block policy.
The writer's workers and Close run on; a backend write ends by the write timeout
and a wait at the queue by the enqueue timeout. Every Registry call of the reporter
has the request timeout, time passes, and a worker's select does not prefer its
ticker for ever to its finished context (strong fairness of `WorkerEnds`).
In `OutputPipeline` workers and closers run, network calls end and the ten seconds
of the shutdown pass (weak fairness); a worker that needs `s.mu` or `f.mu`, which
the ticker takes again and again, gets it, since `sync.Mutex` is starvation-free
(strong fairness of `PassOn`, `HandleMessage`), and the ticker's select does not
prefer its timer for ever to `closeChan` (`TickerExits`).
Agents and callers owe nothing: no fairness for registering, opening or closing
streams, frames, deadlines or cancellation.

## 4. Findings

1. `context_late_ack` (code): ACKs are correlated by command ID only. If a command
   times out, another one is sent and times out, and the first is retried before
   its first ACK is read, that ACK completes the retry and reopens telemetry under
   a context the Agent has already left. The comment in
   `handleOperationContextCommandAck` excludes exactly this.
2. `context_replay` (comment against code): replaying a command whose APPLIED
   outcome is retained returns success without delivering it, so it does not end
   a fence that came up later.

3. `mission_redelivery` (comment against code): a retryable outcome may be delivered
   again "on the original stream binding" only. `attachMissionDeployment` compares
   the binding, unless the retained state failed its admission; a reservation that
   a stream replacement aborts is such a state and hides the original one, so the
   next exact retry is delivered on the replacement.
4. `outputs_close` (code): Close of S3 and GCS uploads the current file before the
   queue of the embedded file sink is drained. What was in that queue ends in a local
   file that is never uploaded, and Close reports success.

Two statements of `docs/agent-telemetry-stream-lifecycle.md` are stronger than the
code and are not stated as properties: line 366 (a session is removed only by its
active generation; `streams.go:156` also removes a session without any stream,
for instance after a failed publication) and lines 33-34 (an empty-flight Clear is
accepted only for the initial reconciliation; `gatewayserver.go:663` accepts it in
any fenced session). `Reporter.Close` "waits for workers" (`reporter.go:471`), but a
RegisterAgent that was answered just before the cancellation starts its worker
without looking at `workerCtx`, possibly when `wg.Wait` has returned; the worker ends
at once (`StaleWorkerEnds`). In `reportAgent` the branch for an Agent that is active
but not registered cannot be reached (`MapsAgree`).
Seen while modelling the outputs, and within what the model allows: an open that
fails in `rotateFileLocked` (`file.go:253`) leaves the sink without a file for good,
and every later record is counted as an error; a file that the size or time of
the file sink rotates, or whose upload failed before such a rotation, stays on
disk without being uploaded; uploads use `context.Background()`, so that Close may
exceed the shutdown's deadline.

## 5. Proofs

For every value of the constants (any number of registrations, streams, calls,
commands and flights), from the named assumptions of the modules: `None` is none
of the other values, a request included, the flags are Booleans, requests are
well-formed records, and a Registry requires authentication, which `relay.New`
enforces. The theorems of `AttributionProofs` also assume callers that keep to
command IDs, see below.

`StreamLifecycleProofs`. `TypeCorrect`, `LeaseSafety`, `BindingSafety`,
`PlacementSafety` and `ServedSessionSafety` follow from the inductive invariant
`Inductive`. The properties alone are not inductive: that a frame's lease protects
its session needs that a session in the map was installed by a finished call and
is not retired, and that a session not installed yet has no streams
(`Registrations`); that a handler with work has a session, and that only ended
handlers have closed bindings (`Handlers`); and that the Agent is heartbeated
between a successful publication and the swap (`Activating`). One lemma per conjunct shows that every action preserves
it.

`OperationContextProofs`. `ImplementsLifecycle` shows `Spec => LifecycleSpec`, so
that every lifecycle theorem holds of the composed system (`ControlledLease` is
the instance for the lease). `PendingSafety` follows from `ControlInductive`, which adds to `Inductive` that calls in progress carry a session
and a request and that an owner is past admission (`Calls`), that a pending command
is filed under the ID of its request (`Commands`), that stored contexts are contexts
(`Contexts`), and that the gate has one holder (`GateExcludes`). A pending command
always has its owner among the holders, so there is at most one; and it is aborted
in the very step that replaces its binding or retires its session.

`CallOutcomeProofs`. `ControlTypesCorrect`, and `DeliveredSuccess` for any use of
command IDs, "free" included. `OutcomeInductive` adds to `ControlInductive` the remaining
types and that a handler that routes still has its frame at the head of its stream
(`FrameHeld`); that a call in progress uses an issued ID and a session that was
installed, that a call which writes holds the live session, and that a pending
command behind a call that wrote it has a binding, and a delivery once the call only
waits (`CallStates`); and that for a call that owns its attempt the expected context
satisfies the request while the command is pending, and the session's reconciled
context does once it is applied (`Delivered`). The step that matters is an ACK or a
timeout between the completion of a command and the return of its call: the gate
keeps other commands out, and what fences a session fences it for a pending command
only (`FenceStep`).

`AttributionProofs`. `Attribution` and `FrameContext`, from `AttributionInductive`, and
`AuthoritativeClear`, from `ReservationInductive`. A live session that is not fenced is in one of four situations (`Standing`), for at
most one command, whose outcome it awaits:

- `Resting`: whatever is still on its way to the Agent, it has seen before; the
  contexts agree; no ACK in the inbox could complete a live command the Agent has not
  applied;
- `Flying`: the command is the last on its way, as its call has asked for it, and the
  only one the Agent has not seen;
- `Refused`: the Agent did not apply it, and the one ACK that says so is in the inbox;
- `Applied`: nothing else is on its way, and if the Agent still uses the accepted
  stream, the ACK is ahead of every frame that shows the new context.

Every step leads from one to another or fences the session. What
earlier attempts, sessions or processes left in the channels is harmless for one of
two reasons, and that is what the rest of the invariant is for. Its ID is dead: no
call in progress can match an ACK to it, and none ever will (`Live`, `LiveShrinks`,
`CommandIds`); at most one live ID is known to the Agent or to a channel (`OneLive`). Or it
is live and journalled: then the Agent only answers, whatever was written after it
is a repetition of it, and every ACK that reports it applied, with the frames behind
it, reports the context the Agent has now (`Fifo`). `Streams` says that a stream which
was not accepted yet carries no ACK and no frame with an old context, `Answered` that
a call overtaken by an ACK between admission and write sends what the Agent has
seen, `Cached` the same as `Resting` of the reconnect cache, and `Routing` that a frame
being routed carries the session's context.

`ReservationInductive` adds what an authoritative clear may find. A reservation in a
session that is not fenced, or in a reconciled snapshot, is spent: the Agent has
applied its command, or no call can have it written any more (`Reserved`,
`ReservedInCache`, `Spent`). And a call past the gate that still carries an authoritative
clear in a session that is not fenced carries what the Agent has applied
(`Reconciled`): it found its own reservation there, or its own ACK has lifted the fence,
since the gate keeps every other command of the session unanswered (`FenceLifts`). With
calls that overlap, the invariant also says that a reservation belongs to the call
past the gate or to one that has ended, through re-registration and the
cache. The step that matters is the Agent's: a command it sees for the first time
while a session routes telemetry is that session's `Flying` one, hence not an
authoritative clear.

The three theorems assume `Api # "free"`: a caller may repeat a request, or calls may overlap, but no ID
is taken up again after a later one was used. The code does not enforce this, and the
assumption cannot be dropped: with "free" callers an ACK may reopen the session
under a context the Agent has left, which is finding 1. Nothing else is assumed:
deadlines, lost messages, replaced streams and sessions, reconnects through the cache,
failed writes and restarts happen at any time, with or without a Registry and
authentication.

`TelemetryWriterProofs`. For any records, workers, queue capacity, batch size and
retry limit: `SendSafety`, and `WriterKeepsLedger`, the refinement of `RecordLedger`.
Its inductive invariant `WriterInductive` consists of the types; that a worker in
its backoff has an attempt left (`BackoffBounded`); `NoSendOnClosedQueue`; how far Close
has come with `closed`, `cancelled` and `closeErr` (`Closing`); that a worker that has
returned holds nothing and, unless the drain was cut short, left the closed queue
empty (`Returned`); and that a lost record is remembered in
`backendErr` (`LossRemembered`). The step that matters is `CloseBackend`: without an
error nothing was lost and the drain was complete, so every admitted record is stored.

`RegistryReporterProofs`. For any number of RegisterAgent calls: `OvertakenSafety`,
`HeartbeatSafety` and `MapsSafety`. The invariant `ReporterInductive` adds to the types
and `MapsAgree` what the progress of a call says of its admission, its generation and
its worker (`Progress`): the current admission is one in progress and not overtaken,
and a call that installed its generation has the active one or a cancelled one.

`SessionCommandsProofs`. For any number of calls and bindings. Its invariant `Inv`
consists of the types; what the flags of a mission state say together
(`StatesInv`); that a reservation has a task and no delivery, and its admission context
has ended when it completed (`ReservationInv`); that what was sent, or is about to be, is on its binding,
and that a state reported as undelivered was not (`DeliveryInv`); the gate (`GateInv`); the aircraft commands
(`ArmInv`); `OneKindPerId`, whose proof needs that a call past the gate still finds
the ID unused; and that a binding which waits to be swapped in exists (`SwapInv`). The
theorems are the safety properties of the run. `DeploymentAwaited` and `ArmAwaited` need
two more invariants, `AwaitInv` and `ArmAwaitInv`: the callers that wait for a running state
are a finite set, although there may be infinitely many calls, its cardinality is the
counter of that state, and it is not empty. Whoever waits, waits for a state
that was made, so that a new state starts with its maker as the only waiter; a step moves at
most one caller, so that each action adds one member, removes one, or keeps
the set (`AwaitJoined`, `AwaitLeft`, `AwaitKept`).

`OutputPipelineProofs`. For any number of records and files, any capacity and both
policies, and any set of configured sinks: `PanicSafety`, `DrainSafety` and
`ObjectSafety`. The invariant `Inv` adds to the types that consumers are closed only
once the server has stopped, and that without a forced stop no handler is left
then (`ServerInv`); that Close has passed a queue only when it was closed and
empty, and it stays so (`DrainInv`); that every accepted record is in a queue, in
a worker's hand, at its destination or counted (`FlowInv`); and that an object holds
the beginning of its file (`BucketInv`). `CloseDrains` joins the middle two: an empty
queue and an empty hand leave only the destination and the counter.

With TLC only: the liveness properties (`RegisterEnds`, `CleanupEnds`, `WaiterReleased`,
`AdmittedIsSettled`, both `CloseEnds`, `ActiveIsReported`, `StaleWorkerEnds`, `ShutdownEnds`,
`RouteEnds`), since fairness and ENABLED are outside the prover's reach, and the four
violations. Every invariant and every action property that a passing run checks is
also a theorem.

## 6. Plan

1. `ReconnectCache` over several Agents: its cap, the order of eviction, expiry.
2. Start-up of the Relay: listener, servers and the failures between them.

Not modelled, and not planned:

- Batching sinks (Elasticsearch, Timestream, BigQuery, InfluxDB) and Prometheus:
  unfinished in this commit (converters and the Prometheus flush are stubs), and
  `README.md:154` lists S3, GCS, Kafka and local files as the supported sinks. Their
  queue is `AsyncSink`; their Close cancels the context before the final flush.
- Authentication, configuration, telemetry normalization, the envelope model, the
  canonical form of mission plans and the name matching of filters: pure checks and
  conversions without state. The models start from calls that passed them, or
  allow both answers.
- The InfluxDB backend of the writer: one client call per batch, whose success or
  failure `TelemetryWriter` sees.
- Mocks, examples and test support.
