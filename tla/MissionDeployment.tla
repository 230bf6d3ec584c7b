-------------------------- MODULE MissionDeployment --------------------------
(***************************************************************************)
(* DeployMission (internal/relay/mission_deployment.go): delivery of one   *)
(* immutable mission to the Agent session that is active at admission.     *)
(*                                                                         *)
(* The first call with a command ID passes the gate that serializes it     *)
(* with the operation-context commands, checks the operation context and   *)
(* starts a delivery task.  Exact retries attach to the running or         *)
(* retained state.  A retry of a retryable outcome first installs a        *)
(* RESERVED state, whose own task takes the gate on behalf of every caller *)
(* that attached to it; its admission context ends when the last of them   *)
(* has gone.                                                               *)
(*                                                                         *)
(* The payload of the calls is one and the same: a call that reuses the ID *)
(* for another payload is refused before it changes anything.  The clock   *)
(* and the size of the table are left open: whatever depends on them may   *)
(* refuse a command at any time.                                           *)
(***************************************************************************)
EXTENDS CommandSession

CONSTANT
    Earlier         \* a call that returned earlier, or None

ASSUME EarlierAssumption == Earlier \in MissionCall \cup {None}

VARIABLES
    call,           \* program counter of each DeployMission
    ctxDone,        \* calls whose waitCtx has ended
    attached,       \* the state the call waits on
    gate,           \* who took the token of operationGate
    contextOK,      \* the operation context is reconciled and the mission's
    outcome,        \* how the state completed, "open" until then
    reserved,       \* states with the reserved flag
    resultOpen,     \* states with resultAdmissionOpen
    delivered,      \* states with the delivered flag
    waiters,        \* state.waiters
    deliveryStream, \* state.deliveryStream
    admitted,       \* callers that keep the admission of the state open
    cancelled,      \* states whose admission context has ended
    task,           \* program counter of the reservation task of the state
    delivery,       \* program counter of the delivery task of the state
    sentOn,         \* the binding Send was invoked on, 0 before
    carrier         \* history: the binding of the last Send of the retained ID

callers == <<call, ctxDone, attached>>

flags == <<reserved, resultOpen, delivered>>

tasks == <<admitted, cancelled, task>>

sends == <<deliveryStream, sentOn, carrier>>

\* Everything that belongs to a command state.
stateVars == <<outcome, waiters, flags, tasks, delivery, sends>>

missionVars == <<callers, gate, contextOK, stateVars>>

----------------------------------------------------------------------------
(* Outcomes.                                                               *)

\* An Agent result: its status, whether command ID and binding are the
\* command's, whether it proves the onboard digest, and the number of items it
\* says were uploaded.
Result ==
    [status : {"applied", "already", "refused", "temporary", "unknown",
               "bogus"},
     bound  : BOOLEAN,
     proven : BOOLEAN,
     items  : {"none", "all", "some"}]

\* validateMissionDeploymentResult
ValidResult(r) ==
    /\ r.bound
    /\ r.status # "bogus"
    /\ r.status \in {"applied", "already"} => r.proven
    /\ r.status = "applied" => r.items = "all"
    /\ r.status = "already" => r.items = "none"

\* What a result makes of a state: the error of an invalid one and a terminal
\* status are final.
ResultOutcome(r) ==
    IF ValidResult(r) /\ r.status \in {"temporary", "unknown"} THEN "retryable"
    ELSE "final"

\* "failed" is an error with admissionFailed set, "aborted" one without it.
Outcome == {"unmade", "open", "failed", "aborted", "final", "retryable"}

Open(g) == outcome[g] = "open"

Made(g) == outcome[g] # "unmade"

Completed(g) == Made(g) /\ ~Open(g)

\* retryableMissionDeployment
Retryable(g) == outcome[g] \in {"failed", "retryable"}

\* A retry may start a new delivery: nothing was admitted, or the outcome is
\* retryable on the binding that carried the command.
MayRedeliver(g) ==
    Retryable(g) /\ (outcome[g] = "failed" \/ deliveryStream[g] = stream)

----------------------------------------------------------------------------
CallPc == {"idle", "gate", "holding", "begin", "waiting", "ended"}

TaskPc == {"none", "gate", "holding", "begin", "begun", "ended"}

DeliveryPc == {"none", "pending", "sending", "ended"}

Nobody == <<"free", None>>

Operation == <<"operation", None>>

Holders == {Nobody, Operation} \cup ({"call", "task"} \X MissionCall)

\* What every variable ranges over.
MissionTypeOK ==
    /\ call \in [MissionCall -> CallPc]
    /\ ctxDone \in SUBSET MissionCall
    /\ attached \in [MissionCall -> MissionCall \cup {None}]
    /\ gate \in Holders
    /\ contextOK \in BOOLEAN
    /\ outcome \in [MissionCall -> Outcome]
    /\ reserved \in SUBSET MissionCall
    /\ resultOpen \in SUBSET MissionCall
    /\ delivered \in SUBSET MissionCall
    /\ waiters \in [MissionCall -> Nat]
    /\ deliveryStream \in [MissionCall -> 0 .. MaxStream]
    /\ admitted \in [MissionCall -> SUBSET MissionCall]
    /\ cancelled \in SUBSET MissionCall
    /\ task \in [MissionCall -> TaskPc]
    /\ delivery \in [MissionCall -> DeliveryPc]
    /\ sentOn \in [MissionCall -> 0 .. MaxStream]
    /\ carrier \in 0 .. MaxStream

\* The calls in issued are about to be made.  Earlier is a call that has
\* returned: its mission was sent on the first binding, and its retryable
\* outcome is retained.
MissionInit(issued) ==
    /\ call = [c \in MissionCall |->
                  IF c \in issued \ {Earlier} THEN "idle" ELSE "ended"]
    /\ ctxDone = MissionCall \ (issued \ {Earlier})
    /\ attached = [c \in MissionCall |-> None]
    /\ gate = Nobody
    /\ contextOK \in BOOLEAN
    /\ missionEntry = Earlier
    /\ outcome = [c \in MissionCall |->
                     IF c = Earlier THEN "retryable" ELSE "unmade"]
    /\ reserved = {}
    /\ resultOpen = MissionCall \cap {Earlier}
    /\ delivered = MissionCall \cap {Earlier}
    /\ waiters = [c \in MissionCall |-> 0]
    /\ deliveryStream = [c \in MissionCall |-> IF c = Earlier THEN 1 ELSE 0]
    /\ admitted = [c \in MissionCall |-> {}]
    /\ cancelled = {}
    /\ task = [c \in MissionCall |-> "none"]
    /\ delivery = [c \in MissionCall |->
                      IF c = Earlier THEN "ended" ELSE "none"]
    /\ sentOn = [c \in MissionCall |-> IF c = Earlier THEN 1 ELSE 0]
    /\ carrier = IF Earlier = None THEN 0 ELSE 1

\* Delivery tasks, which hold both read leases.
Delivering == {g \in MissionCall : delivery[g] \notin {"none", "ended"}}

\* Calls and reservation tasks between the check of the operation context and
\* beginMissionDeployment hold the ownership lease.
Checked == {g \in MissionCall : call[g] = "begin" \/ task[g] = "begin"}

----------------------------------------------------------------------------
(* Attaching to the retained state.                                        *)

\* The caller's two-minute window, or its own deadline, ends.
CtxEnds(c) ==
    /\ call[c] \notin {"idle", "ended"}
    /\ ctxDone' = ctxDone \cup {c}
    /\ UNCHANGED <<call, attached, gate, contextOK, stateVars, sessionVars>>

\* The call returns; its deferred functions give the gate back and end waitCtx.
EndCall(c) ==
    /\ call' = [call EXCEPT ![c] = "ended"]
    /\ ctxDone' = ctxDone \cup {c}
    /\ attached' = [attached EXCEPT ![c] = None]
    /\ gate' = IF gate = <<"call", c>> THEN Nobody ELSE gate

\* lockCurrentMissionSession and the fences of attachMissionDeployment, which
\* runs once before the call queues for the gate and once when it holds it.
MayAttach(c) ==
    /\ call[c] \in {"idle", "holding"}
    /\ OwnershipReadable /\ CurrentSession /\ ControlReadable
    /\ MissionIdFree

\* The retained state is a reservation whose task has not activated it.
Reservation(g) == g \in reserved /\ Open(g)

\* The caller waits on state g, and gives the gate back if it had it.
WaitOn(c, g) ==
    /\ call' = [call EXCEPT ![c] = "waiting"]
    /\ attached' = [attached EXCEPT ![c] = g]
    /\ gate' = IF gate = <<"call", c>> THEN Nobody ELSE gate
    /\ UNCHANGED <<ctxDone, contextOK>>

\* Attach to a running delivery, or to an outcome that is not redelivered.
AttachRunning(c) ==
    /\ MayAttach(c)
    /\ missionEntry # None
    /\ ~MayRedeliver(missionEntry) /\ ~Reservation(missionEntry)
    /\ WaitOn(c, missionEntry)
    /\ waiters' = [waiters EXCEPT ![missionEntry] = @ + 1]
    /\ UNCHANGED <<outcome, flags, sends, tasks, delivery, sessionVars>>

\* missionAdmission.add can still succeed.
AdmissionLive(g) == g \notin cancelled

\* Attach to a reservation and keep its admission open.
JoinReservation(c) ==
    /\ MayAttach(c)
    /\ missionEntry # None
    /\ Reservation(missionEntry)
    /\ AdmissionLive(missionEntry)
    /\ c \notin ctxDone
    /\ WaitOn(c, missionEntry)
    /\ waiters' = [waiters EXCEPT ![missionEntry] = @ + 1]
    /\ admitted' = [admitted EXCEPT ![missionEntry] = @ \cup {c}]
    /\ UNCHANGED <<outcome, flags, sends, cancelled, task, delivery,
                   sessionVars>>

\* A new reserved state of caller c, and startMissionDeploymentReservation.
InstallReservation(c) ==
    /\ c \notin ctxDone
    /\ WaitOn(c, c)
    /\ missionEntry' = c
    /\ reserved' = reserved \cup {c}
    /\ waiters' = [waiters EXCEPT ![c] = 1]
    /\ deliveryStream' = [deliveryStream EXCEPT ![c] = stream]
    /\ admitted' = [admitted EXCEPT ![c] = {c}]
    /\ task' = [task EXCEPT ![c] = "gate"]
    /\ UNCHANGED <<resultOpen, delivered, delivery, sentOn, carrier,
                   bindingVars, aircraftEntry>>

\* The first exact retry of a retryable outcome reserves the next delivery.
ReserveRetry(c) ==
    /\ MayAttach(c)
    /\ missionEntry # None
    /\ MayRedeliver(missionEntry)
    /\ InstallReservation(c)
    /\ outcome' = [outcome EXCEPT ![c] = "open"]
    /\ UNCHANGED cancelled

\* The last caller of a reservation has gone but has not completed it yet: the
\* doomed state is completed here and replaced.
Supersede(c) ==
    /\ MayAttach(c)
    /\ missionEntry # None
    /\ Reservation(missionEntry)
    /\ ~AdmissionLive(missionEntry)
    /\ InstallReservation(c)
    /\ outcome' = [outcome EXCEPT ![c] = "open", ![missionEntry] = "failed"]
    /\ cancelled' = cancelled \cup {missionEntry}

\* The session has gone, the ID belongs to an aircraft command, or a context
\* that has ended cannot keep an admission open.
AttachFails(c) ==
    /\ call[c] \in {"idle", "holding"}
    /\ OwnershipReadable
    /\ \/ ~CurrentSession
       \/ ControlReadable /\ ~MissionIdFree
       \/ /\ ControlReadable
          /\ missionEntry # None
          /\ MayRedeliver(missionEntry) \/ Reservation(missionEntry)
          /\ c \in ctxDone
    /\ EndCall(c)
    /\ UNCHANGED <<contextOK, stateVars, sessionVars>>

----------------------------------------------------------------------------
(* The first delivery of a command.                                        *)

\* Nothing is retained: the call waits for the gate without any lease.
QueueForGate(c) ==
    /\ call[c] = "idle"
    /\ MayAttach(c)
    /\ missionEntry = None
    /\ call' = [call EXCEPT ![c] = "gate"]
    /\ UNCHANGED <<ctxDone, attached, gate, contextOK, stateVars,
                   sessionVars>>

\* The token is in the channel of acquireOperationCommandSlot.
GateFree == gate = Nobody

\* acquireOperationCommandSlot
TakeGate(c) ==
    /\ call[c] = "gate"
    /\ GateFree
    /\ gate' = <<"call", c>>
    /\ call' = [call EXCEPT ![c] = "holding"]
    /\ UNCHANGED <<ctxDone, attached, contextOK, stateVars, sessionVars>>

AbandonGate(c) ==
    /\ call[c] = "gate"
    /\ c \in ctxDone
    /\ EndCall(c)
    /\ UNCHANGED <<contextOK, stateVars, sessionVars>>

\* The call holds the gate, found nothing retained and keeps the lease.
ContextPasses(c) ==
    /\ call[c] = "holding"
    /\ MayAttach(c)
    /\ missionEntry = None
    /\ contextOK
    /\ call' = [call EXCEPT ![c] = "begin"]
    /\ UNCHANGED <<ctxDone, attached, gate, contextOK, stateVars,
                   sessionVars>>

ContextFails(c) ==
    /\ call[c] = "holding"
    /\ MayAttach(c)
    /\ missionEntry = None
    /\ ~contextOK
    /\ EndCall(c)
    /\ UNCHANGED <<contextOK, stateVars, sessionVars>>

\* beginMissionDeployment without a reservation: the call keeps the gate while
\* it waits, the delivery task takes over the leases.
Begin(c) ==
    /\ call[c] = "begin"
    /\ ControlReadable
    /\ MissionIdFree
    /\ missionEntry = None
    /\ c \notin ctxDone
    /\ missionEntry' = c
    /\ call' = [call EXCEPT ![c] = "waiting"]
    /\ attached' = [attached EXCEPT ![c] = c]
    /\ outcome' = [outcome EXCEPT ![c] = "open"]
    /\ waiters' = [waiters EXCEPT ![c] = 1]
    /\ deliveryStream' = [deliveryStream EXCEPT ![c] = stream]
    /\ delivery' = [delivery EXCEPT ![c] = "pending"]
    /\ UNCHANGED <<ctxDone, gate, contextOK, flags, tasks, sentOn, carrier,
                   bindingVars, aircraftEntry>>

\* The ID was taken meanwhile, the context ended, the clock refuses the
\* command's window, or the table is full.
BeginRefused(c) ==
    /\ call[c] = "begin"
    /\ ControlReadable
    /\ EndCall(c)
    /\ UNCHANGED <<contextOK, stateVars, sessionVars>>

----------------------------------------------------------------------------
(* Leaving.                                                                *)

OneLess(n) == IF n > 0 THEN n - 1 ELSE 0

\* takeMissionDeploymentResult: state.done is closed.
TakeResult(c) ==
    /\ call[c] = "waiting"
    /\ ~Open(attached[c])
    /\ waiters' = [waiters EXCEPT ![attached[c]] = OneLess(@)]
    /\ EndCall(c)
    /\ UNCHANGED <<contextOK, outcome, flags, sends, tasks, delivery,
                   sessionVars>>

\* Mutant of LastWaiter: the count is read before the caller is taken off.
NobodyLeft(g) == waiters[g] = 0

LastWaiter(g) == OneLess(waiters[g]) = 0

\* cancelMissionDeploymentWaiter: the last caller to leave completes the state,
\* an admitted one with an uncertain outcome.
GiveUp(c) ==
    /\ call[c] = "waiting"
    /\ c \in ctxDone
    /\ LET g == attached[c]
           retained == missionEntry = g
           last == retained /\ LastWaiter(g) /\ Open(g)
       IN /\ waiters' = [waiters EXCEPT
                ![g] = IF retained THEN OneLess(@) ELSE @]
          /\ outcome' = [outcome EXCEPT
                ![g] = IF ~last THEN @
                       ELSE IF g \in reserved THEN "failed" ELSE "retryable"]
          /\ cancelled' = IF last /\ g \in reserved THEN cancelled \cup {g}
                          ELSE cancelled
    /\ EndCall(c)
    /\ UNCHANGED <<contextOK, flags, sends, admitted, task, delivery,
                   sessionVars>>

\* missionAdmission.remove, run by the watcher of a caller whose context ended.
LeaveAdmission(g, c) ==
    /\ g \notin cancelled
    /\ c \in admitted[g]
    /\ c \in ctxDone
    /\ admitted' = [admitted EXCEPT ![g] = @ \ {c}]
    /\ cancelled' = IF admitted[g] = {c} THEN cancelled \cup {g} ELSE cancelled
    /\ UNCHANGED <<callers, gate, contextOK, outcome, flags, waiters, sends,
                   task, delivery, sessionVars>>

----------------------------------------------------------------------------
(* The task of a reservation.                                              *)

\* Mutant of EndTask: the gate stays taken.
EndTaskKeepingGate(g) ==
    /\ task' = [task EXCEPT ![g] = "ended"]
    /\ cancelled' = cancelled \cup {g}
    /\ UNCHANGED gate

\* The task returns: it gives the gate back and ends the admission context.
EndTask(g) ==
    /\ task' = [task EXCEPT ![g] = "ended"]
    /\ gate' = IF gate = <<"task", g>> THEN Nobody ELSE gate
    /\ cancelled' = cancelled \cup {g}

\* failMissionDeploymentReservation
FailReservation(g) ==
    outcome' = [outcome EXCEPT
        ![g] = IF missionEntry = g /\ Reservation(g) THEN "failed" ELSE @]

TaskTakesGate(g) ==
    /\ task[g] = "gate"
    /\ GateFree
    /\ gate' = <<"task", g>>
    /\ task' = [task EXCEPT ![g] = "holding"]
    /\ UNCHANGED <<callers, contextOK, outcome, flags, waiters, sends,
                   admitted, cancelled, delivery, sessionVars>>

\* Every caller has gone before the gate was free.
TaskAbandonsGate(g) ==
    /\ task[g] = "gate"
    /\ ~AdmissionLive(g)
    /\ FailReservation(g)
    /\ EndTask(g)
    /\ UNCHANGED <<callers, contextOK, flags, waiters, sends, admitted,
                   delivery, sessionVars>>

\* The session is current, the reservation open and the context the binding's.
TaskPasses(g) ==
    /\ task[g] = "holding"
    /\ OwnershipReadable /\ CurrentSession
    /\ ~Completed(g)
    /\ contextOK
    /\ task' = [task EXCEPT ![g] = "begin"]
    /\ UNCHANGED <<callers, gate, contextOK, outcome, flags, waiters, sends,
                   admitted, cancelled, delivery, sessionVars>>

TaskStops(g) ==
    /\ task[g] = "holding"
    /\ OwnershipReadable
    /\ ~CurrentSession \/ Completed(g) \/ ~contextOK
    /\ FailReservation(g)
    /\ EndTask(g)
    /\ UNCHANGED <<callers, contextOK, flags, waiters, sends, admitted,
                   delivery, sessionVars>>

\* The reservation completed on a binding that is no longer active.
CompletedElsewhere(g) ==
    missionEntry = g /\ Completed(g) /\ deliveryStream[g] # stream

\* Mutant of MayActivate: the admission context is not tested again.
MayActivateLate(g) ==
    /\ MissionIdFree
    /\ missionEntry \in {g, None}
    /\ ~CompletedElsewhere(g)

\* The tests of beginMissionDeployment for a reservation: no other state has
\* taken its place, and its admission context has not ended.
MayActivate(g) ==
    /\ MissionIdFree
    /\ missionEntry \in {g, None}
    /\ ~CompletedElsewhere(g)
    /\ AdmissionLive(g)

\* The reserved state becomes the running delivery.
TaskActivates(g) ==
    /\ task[g] = "begin"
    /\ ControlReadable
    /\ MayActivate(g)
    /\ missionEntry' = g
    /\ reserved' = reserved \ {g}
    /\ outcome' = [outcome EXCEPT ![g] = IF @ = "failed" THEN "aborted" ELSE @]
    /\ deliveryStream' = [deliveryStream EXCEPT ![g] = stream]
    /\ delivery' = [delivery EXCEPT ![g] = "pending"]
    /\ task' = [task EXCEPT ![g] = "begun"]
    /\ UNCHANGED <<callers, gate, contextOK, resultOpen, delivered, waiters,
                   admitted, cancelled, sentOn, carrier, bindingVars,
                   aircraftEntry>>

\* beginMissionDeployment counts the task as a waiter of the completed state.
TaskAttaches(g) ==
    /\ task[g] = "begin"
    /\ ControlReadable
    /\ CompletedElsewhere(g)
    /\ waiters' = [waiters EXCEPT ![g] = @ + 1]
    /\ EndTask(g)
    /\ UNCHANGED <<callers, contextOK, outcome, flags, sends, admitted,
                   delivery, sessionVars>>

\* The reservation was superseded, its callers have gone, the ID was taken or
\* the clock refuses the command's window.
TaskRefused(g) ==
    /\ task[g] = "begin"
    /\ ControlReadable
    /\ ~CompletedElsewhere(g)
    /\ FailReservation(g)
    /\ EndTask(g)
    /\ UNCHANGED <<callers, contextOK, flags, waiters, sends, admitted,
                   delivery, sessionVars>>

\* The task keeps the gate until the delivery completes or its callers go.
TaskEnds(g) ==
    /\ task[g] = "begun"
    /\ Completed(g) \/ ~AdmissionLive(g)
    /\ EndTask(g)
    /\ UNCHANGED <<callers, contextOK, outcome, flags, waiters, sends,
                   admitted, delivery, sessionVars>>

----------------------------------------------------------------------------
(* The delivery task, and the evidence of the Agent.                       *)

\* The state is still the retained one and has not completed.
Running(g) == missionEntry = g /\ Open(g)

\* The delivery context ended, or the commit before Send is refused.
DeliveryDropped(g) ==
    /\ delivery[g] = "pending"
    /\ ~Running(g)
    /\ delivery' = [delivery EXCEPT ![g] = "ended"]
    /\ UNCHANGED <<callers, gate, contextOK, outcome, flags, waiters, sends,
                   tasks, sessionVars>>

\* The commit under pendingMu, after which Send is invoked whatever happens.
Commit(g) ==
    /\ delivery[g] = "pending"
    /\ Running(g)
    /\ resultOpen' = resultOpen \cup {g}
    /\ sentOn' = [sentOn EXCEPT ![g] = stream]
    /\ carrier' = stream
    /\ delivery' = [delivery EXCEPT ![g] = "sending"]
    /\ UNCHANGED <<callers, gate, contextOK, outcome, reserved, delivered,
                   waiters, deliveryStream, tasks, sessionVars>>

\* Send returns.  An invoked Send counts as delivered even when it failed, and a
\* failed one completes the state with an uncertain outcome.  The task sets the
\* flag and the outcome under pendingMu one after the other; only the loss of the
\* binding reads the flag, and that waits for the task's leases.
SendEnds(g) ==
    /\ delivery[g] = "sending"
    /\ delivery' = [delivery EXCEPT ![g] = "ended"]
    /\ delivered' = IF Running(g) THEN delivered \cup {g} ELSE delivered
    /\ \/ UNCHANGED outcome
       \/ /\ Running(g)
          /\ outcome' = [outcome EXCEPT ![g] = "retryable"]
    /\ UNCHANGED <<callers, gate, contextOK, reserved, resultOpen, waiters,
                   sends, tasks, sessionVars>>

\* A result is evidence for the retained state once its Send was committed.
ResultAccepted(g) == Running(g) /\ g \in resultOpen

\* handleMissionDeploymentResultFrom on the active binding, for a mission the
\* Agent received there, in this or in an earlier delivery.
AgentResult ==
    /\ ControlReadable
    /\ \E g \in MissionCall : sentOn[g] = stream
    /\ missionEntry # None
    /\ ResultAccepted(missionEntry)
    /\ \E o \in {ResultOutcome(r) : r \in Result} :
          outcome' = [outcome EXCEPT ![missionEntry] = o]
    /\ UNCHANGED <<callers, gate, contextOK, flags, waiters, sends, tasks,
                   delivery, sessionVars>>

----------------------------------------------------------------------------
(* Loss of the binding or of the session, expiry, other operations.        *)

\* Mutant of LostOutcome: a mission that was delivered counts as undelivered.
LostAsUndelivered(g) == IF g \in reserved THEN "failed" ELSE "aborted"

\* completeMissionDeploymentForLostSessionLocked
LostOutcome(g) ==
    IF g \in reserved THEN "failed"
    ELSE IF g \in delivered THEN "retryable"
    ELSE "aborted"

\* Mutant of LoseMissions: the waits outlive the binding.
LoseNothing == UNCHANGED <<outcome, cancelled>>

\* Completes the retained state, and ends its admission context if it has one.
LoseMissions ==
    /\ outcome' = [g \in MissionCall |->
                      IF Running(g) THEN LostOutcome(g) ELSE outcome[g]]
    /\ cancelled' = cancelled \cup
                       {g \in MissionCall : Running(g) /\ task[g] # "none"}

\* expireMissionDeploymentsLocked and makeMissionDeploymentRoomLocked, run by
\* the admission of any command, drop a completed state.
ForgetMission ==
    /\ missionEntry # None
    /\ Completed(missionEntry)
    /\ CurrentSession /\ ControlReadable
    /\ missionEntry' = None
    /\ carrier' = 0
    /\ UNCHANGED <<bindingVars, aircraftEntry, callers, gate, contextOK,
                   outcome, flags, waiters, deliveryStream, tasks, delivery,
                   sentOn>>

\* An operation-context command takes the same gate ...
OperationTakesGate ==
    /\ GateFree
    /\ gate' = Operation
    /\ UNCHANGED <<callers, contextOK, stateVars, sessionVars>>

\* Mutant of OperationEnds: the command did not wait for its turn.
OperationUngated ==
    /\ gate' = gate
    /\ contextOK' \in BOOLEAN
    /\ UNCHANGED <<callers, stateVars, sessionVars>>

\* ... and may change the operation context, or leave it unreconciled, before
\* it gives the gate back.
OperationEnds ==
    /\ gate = Operation
    /\ gate' = Nobody
    /\ contextOK' \in BOOLEAN
    /\ UNCHANGED <<callers, stateVars, sessionVars>>

CallStep(c) ==
    \/ AttachRunning(c) \/ JoinReservation(c) \/ ReserveRetry(c)
    \/ Supersede(c) \/ AttachFails(c) \/ QueueForGate(c) \/ TakeGate(c)
    \/ AbandonGate(c) \/ ContextPasses(c) \/ ContextFails(c) \/ Begin(c)
    \/ BeginRefused(c) \/ TakeResult(c) \/ GiveUp(c)

TaskStep(g) ==
    \/ TaskTakesGate(g) \/ TaskAbandonsGate(g) \/ TaskPasses(g) \/ TaskStops(g)
    \/ TaskActivates(g) \/ TaskAttaches(g) \/ TaskRefused(g) \/ TaskEnds(g)

DeliveryStep(g) ==
    \/ DeliveryDropped(g) \/ Commit(g) \/ SendEnds(g)

MissionStep(c) ==
    \/ CtxEnds(c) \/ CallStep(c) \/ TaskStep(c) \/ DeliveryStep(c)
    \/ \E d \in MissionCall : LeaveAdmission(c, d)

----------------------------------------------------------------------------
(* Properties.                                                             *)

\* A running deployment is the retained one, has exactly the callers that wait
\* for it and at least one: callers come and go through attach, supersede and
\* cancelMissionDeploymentWaiter, and none of them leaves an orphan behind.
DeploymentIsAwaited ==
    \A g \in MissionCall : Open(g) =>
        /\ missionEntry = g
        /\ waiters[g] = Cardinality({c \in MissionCall :
                                        call[c] = "waiting" /\ attached[c] = g})
        /\ waiters[g] > 0

\* A state that ends with an error that says the mission was not delivered was
\* never written to a stream: a retry cannot duplicate it, and no caller is told
\* "before confirmed delivery" of a mission the Agent may fly.
UndeliveredWasNeverSent ==
    \A g \in MissionCall :
        outcome[g] \in {"unmade", "failed", "aborted"} => sentOn[g] = 0

\* A mission goes out on the binding that was active when it was admitted, and a
\* running one waits for evidence of the active binding: the swap waits for the
\* delivery tasks and completes what the old binding carried.
MissionStaysOnItsBinding ==
    \A g \in MissionCall :
        /\ sentOn[g] # 0 => sentOn[g] = deliveryStream[g]
        /\ Open(g) => deliveryStream[g] = stream

\* The token of the gate is with a call or a task that is still running, and
\* with it whenever it needs it: no path through DeployMission and its
\* reservation tasks loses the token, returns it twice or goes on without it.  A
\* call that found the ID unused under the gate still finds it unused in
\* beginMissionDeployment.
GateIsHeld ==
    /\ \A c \in MissionCall :
          /\ gate = <<"call", c>> => call[c] \in {"holding", "begin", "waiting"}
          /\ call[c] \in {"holding", "begin"} => gate = <<"call", c>>
          /\ call[c] = "begin" => missionEntry = None
    /\ \A g \in MissionCall :
          gate = <<"task", g>> <=> task[g] \in {"holding", "begin", "begun"}

\* The result of a state is final: its done channel is closed once, a cancelled
\* or superseded reservation is never activated, and evidence that comes late
\* changes nothing.
OutcomeIsFinal ==
    [][\A g \in MissionCall : Completed(g) => outcome'[g] = outcome[g]
      ]_<<missionVars, sessionVars>>

\* A delivery starts only while the session's operation context is reconciled
\* and is the one of the mission, although the context is tested in an earlier
\* step than beginMissionDeployment: the gate keeps the context still.
AdmittedInContext ==
    [][\A g \in MissionCall :
          delivery[g] = "none" /\ delivery'[g] = "pending" => contextOK
      ]_<<missionVars, sessionVars>>

\* What DeployMission's comment says of a retryable outcome: it may start one
\* new delivery on the original stream binding.  The binding that carried a
\* retained command last is the only one that may carry it again.
RedeliveredOnOriginalBinding ==
    [][carrier # 0 /\ carrier' # carrier => carrier' = 0
      ]_<<missionVars, sessionVars>>
=============================================================================
