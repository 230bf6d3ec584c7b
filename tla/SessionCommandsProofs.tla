----------------------- MODULE SessionCommandsProofs -----------------------
(***************************************************************************)
(* Proofs about the commands of a session, for any number of calls and any *)
(* number of bindings.                                                     *)
(***************************************************************************)
EXTENDS SessionCommands, FiniteSetTheorems, TLAPS

\* Callers that have not begun own no state; a running state is the retained
\* one, admitted on the active binding.
StatesInv ==
    /\ \A c \in MissionCall :
          call[c] \in {"idle", "gate", "holding", "begin"} => outcome[c] = "unmade"
    /\ \A g \in MissionCall : ~Made(g) =>
          /\ missionEntry # g /\ g \notin reserved /\ g \notin resultOpen
          /\ task[g] = "none" /\ delivery[g] = "none"
    /\ \A g \in MissionCall : Open(g) =>
          missionEntry = g /\ deliveryStream[g] = stream
    /\ \A c \in MissionCall : call[c] = "waiting" => attached[c] \in MissionCall

\* A binding that waits for the control fence is within the bound.
SwapInv == swapping => stream < MaxStream

\* A reservation has not been delivered, and ends with its admission context.
ReservationInv ==
    \A g \in MissionCall :
        /\ g \in reserved => delivery[g] = "none" /\ g \notin resultOpen
        /\ g \in reserved /\ ~Open(g) => g \in cancelled
        /\ task[g] \in {"gate", "holding", "begin"} => g \in reserved
        /\ g \in reserved => task[g] # "none"

\* What was sent, and where.
DeliveryInv ==
    \A g \in MissionCall :
        /\ delivery[g] \in {"none", "pending"} => sentOn[g] = 0
        /\ delivery[g] \in {"pending", "sending"} => deliveryStream[g] = stream
        /\ sentOn[g] # 0 => sentOn[g] = deliveryStream[g]
        /\ Open(g) /\ delivery[g] = "ended" => g \in delivered
        /\ outcome[g] \in {"unmade", "failed", "aborted"} => sentOn[g] = 0

\* The gate, and the context that was tested under it.
GateInv ==
    /\ GateIsHeld
    /\ \A g \in MissionCall :
          call[g] = "begin" \/ task[g] = "begin" => contextOK

\* The aircraft commands.
ArmInv ==
    \A g \in AircraftCall :
        /\ armCall[g] = "idle" => armOutcome[g] = "unmade"
        /\ armOutcome[g] = "unmade" =>
              armDelivery[g] = "none" /\ armSentOn[g] = 0 /\ aircraftEntry # g
        /\ ArmOpen(g) => aircraftEntry = g /\ armStream[g] = stream
        /\ g \in ArmDelivering => armStream[g] = stream
        /\ armSentOn[g] # 0 => armSentOn[g] = armStream[g]
        /\ armCall[g] = "waiting" => armState[g] \in AircraftCall

\* The inductive invariant.
Inv ==
    /\ TypeOK
    /\ StatesInv
    /\ ReservationInv
    /\ DeliveryInv
    /\ GateInv
    /\ ArmInv
    /\ OneKindPerId
    /\ SwapInv

----------------------------------------------------------------------------
USE CallAssumption, StreamAssumption, EarlierAssumption, WorkloadAssumption

\* Every lemma of this section is about the invariant and its parts.
USE DEF  Inv, TypeOK, SessionTypeOK, MissionTypeOK, AircraftTypeOK, StatesInv,
         ReservationInv, DeliveryInv, GateInv, GateIsHeld, ArmInv,
         OneKindPerId, SwapInv, sessionVars, bindingVars, aircraftVars,
         missionVars, callers, flags, tasks, sends, stateVars, Open, Made,
         ArmOpen, ArmDelivering, CallPc, TaskPc, DeliveryPc, Outcome,
         ArmOutcome, Holders, Nobody, Operation

\* The initial states satisfy the invariant.
LEMMA InitInv ==
    ASSUME Init
    PROVE  Inv
<1> USE DEF Init, SessionInit, AircraftInit, MissionInit
<1>1. swapping \in BOOLEAN /\ missionEntry \in MissionCall \cup {None}
  BY Zenon
<1>2. stream \in 1 .. MaxStream
  OBVIOUS
<1>3. SessionTypeOK
  BY <1>1, <1>2
<1>4. AircraftTypeOK
  OBVIOUS
<1>5. MissionTypeOK
  OBVIOUS
<1>6. StatesInv /\ ReservationInv /\ DeliveryInv
  OBVIOUS
<1>7. GateInv
  OBVIOUS
<1>8. ArmInv /\ OneKindPerId /\ SwapInv
  OBVIOUS
<1> QED
  BY <1>3, <1>4, <1>5, <1>6, <1>7, <1>8

\* A step of a DeployMission call preserves the invariant.
LEMMA CallPreservesInv ==
    ASSUME Inv, NEW c \in MissionCall, UNCHANGED aircraftVars, CallStep(c)
    PROVE  Inv'
<1>1. CASE AttachRunning(c)
  BY <1>1 DEF AttachRunning, WaitOn, MayAttach, MayRedeliver, Retryable, Reservation, MissionIdFree
<1>2. CASE JoinReservation(c)
  BY <1>2 DEF JoinReservation, WaitOn, MayAttach, MayRedeliver, Retryable, Reservation, MissionIdFree
<1>3. CASE ReserveRetry(c)
  BY <1>3 DEF ReserveRetry, InstallReservation, WaitOn, MayAttach, MayRedeliver, Retryable, Reservation, MissionIdFree
<1>4. CASE Supersede(c)
  <2> USE DEF Supersede, InstallReservation, WaitOn, MayAttach, MissionIdFree
  <2>1. /\ missionEntry \in MissionCall /\ missionEntry # c
        /\ outcome' = [outcome EXCEPT ![c] = "open", ![missionEntry] = "failed"]
        /\ missionEntry \in reserved /\ outcome[missionEntry] = "open"
    BY <1>4 DEF Reservation
  <2>2. TypeOK'
    BY <1>4, <2>1
  <2>3. StatesInv' /\ ReservationInv'
    BY <1>4, <2>1
  <2>4. DeliveryInv'
    BY <1>4, <2>1
  <2>5. GateInv'
    BY <1>4, <2>1
  <2>6. ArmInv' /\ OneKindPerId' /\ SwapInv'
    BY <1>4, <2>1
  <2> QED
    BY <2>2, <2>3, <2>4, <2>5, <2>6
<1>5. CASE AttachFails(c)
  BY <1>5 DEF AttachFails, EndCall
<1>6. CASE QueueForGate(c)
  BY <1>6 DEF QueueForGate, MayAttach
<1>7. CASE TakeGate(c)
  BY <1>7 DEF TakeGate, GateFree
<1>8. CASE AbandonGate(c)
  BY <1>8 DEF AbandonGate, EndCall
<1>9. CASE ContextPasses(c)
  BY <1>9 DEF ContextPasses, MayAttach
<1>10. CASE ContextFails(c)
  BY <1>10 DEF ContextFails, EndCall
<1>11. CASE Begin(c)
  BY <1>11 DEF Begin, MissionIdFree
<1>12. CASE BeginRefused(c)
  BY <1>12 DEF BeginRefused, EndCall
<1>13. CASE TakeResult(c)
  BY <1>13 DEF TakeResult, EndCall, OneLess
<1>14. CASE GiveUp(c)
  BY <1>14 DEF GiveUp, EndCall, OneLess, LastWaiter
<1> QED
  BY <1>1, <1>2, <1>3, <1>4, <1>5, <1>6, <1>7, <1>8, <1>9, <1>10, <1>11, <1>12, <1>13, <1>14 DEF CallStep

\* A step of a reservation task, or of its admission, preserves it.
LEMMA TaskPreservesInv ==
    ASSUME Inv, NEW g \in MissionCall, UNCHANGED aircraftVars,
           TaskStep(g) \/ \E d \in MissionCall : LeaveAdmission(g, d)
    PROVE  Inv'
<1>1. CASE TaskTakesGate(g)
  BY <1>1 DEF TaskTakesGate, GateFree
<1>2. CASE TaskAbandonsGate(g)
  BY <1>2 DEF TaskAbandonsGate, EndTask, FailReservation, Reservation
<1>3. CASE TaskPasses(g)
  BY <1>3 DEF TaskPasses, Completed
<1>4. CASE TaskStops(g)
  BY <1>4 DEF TaskStops, EndTask, FailReservation, Reservation
<1>5. CASE TaskActivates(g)
  BY <1>5 DEF TaskActivates, MayActivate, AdmissionLive, MissionIdFree
<1>6. CASE TaskAttaches(g)
  BY <1>6 DEF TaskAttaches, EndTask, CompletedElsewhere, Completed
<1>7. CASE TaskRefused(g)
  BY <1>7 DEF TaskRefused, EndTask, FailReservation, Reservation
<1>8. CASE TaskEnds(g)
  BY <1>8 DEF TaskEnds, EndTask
<1>9. CASE \E d \in MissionCall : LeaveAdmission(g, d)
  BY <1>9 DEF LeaveAdmission
<1> QED
  BY <1>1, <1>2, <1>3, <1>4, <1>5, <1>6, <1>7, <1>8, <1>9 DEF TaskStep

\* A step of a delivery task preserves the invariant.
LEMMA DeliveryPreservesInv ==
    ASSUME Inv, NEW g \in MissionCall, UNCHANGED aircraftVars, DeliveryStep(g)
    PROVE  Inv'
<1>1. CASE DeliveryDropped(g)
  BY <1>1 DEF DeliveryDropped, Running
<1>2. CASE Commit(g)
  BY <1>2 DEF Commit, Running
<1>3. CASE SendEnds(g)
  BY <1>3 DEF SendEnds, Running
<1> QED
  BY <1>1, <1>2, <1>3 DEF DeliveryStep

\* A step of an aircraft command preserves the invariant.
LEMMA AircraftPreservesInv ==
    ASSUME Inv, NEW c \in AircraftCall, UNCHANGED missionVars, AircraftStep(c)
    PROVE  Inv'
<1>1. CASE SendRefused(c)
  BY <1>1 DEF SendRefused
<1>2. CASE SendAttaches(c)
  BY <1>2 DEF SendAttaches, MayBegin
<1>3. CASE SendBegins(c)
  BY <1>3 DEF SendBegins, MayBegin, AircraftIdFree
<1>4. CASE SendReturns(c)
  BY <1>4 DEF SendReturns
<1>5. CASE SendGivesUp(c)
  BY <1>5 DEF SendGivesUp
<1>6. CASE ArmDropped(c)
  BY <1>6 DEF ArmDropped, FinishArm
<1>7. CASE ArmChecked(c)
  BY <1>7 DEF ArmChecked
<1>8. CASE ArmSends(c)
  BY <1>8 DEF ArmSends
<1>9. CASE ArmSent(c)
  BY <1>9 DEF ArmSent, FinishArm
<1> QED
  BY <1>1, <1>2, <1>3, <1>4, <1>5, <1>6, <1>7, <1>8, <1>9 DEF AircraftStep

\* An Agent result completes a state one way or the other.
LEMMA ResultOutcomes ==
    {ResultOutcome(r) : r \in Result} \subseteq {"final", "retryable"}
BY Zenon DEF ResultOutcome

\* Every step preserves the invariant.
LEMMA NextInv ==
    ASSUME Inv, [Next]_vars
    PROVE  Inv'
<1>1. CASE UNCHANGED aircraftVars /\ \E c \in MissionCall : MissionStep(c)
  <2>1. PICK c \in MissionCall : MissionStep(c)
    BY <1>1
  <2>2. CASE CtxEnds(c)
    BY <1>1, <2>2 DEF CtxEnds
  <2> QED
    BY <1>1, <2>1, <2>2, CallPreservesInv, TaskPreservesInv, DeliveryPreservesInv
    DEF MissionStep
<1>2. CASE UNCHANGED missionVars /\ \E c \in AircraftCall : AircraftStep(c)
  BY <1>2, AircraftPreservesInv
<1>3. CASE UNCHANGED aircraftVars /\ AgentResult
  <2>1. PICK o \in {ResultOutcome(r) : r \in Result} :
            outcome' = [outcome EXCEPT ![missionEntry] = o]
    BY <1>3 DEF AgentResult
  <2>2. o \in {"final", "retryable"}
    BY <2>1, ResultOutcomes
  <2>3. /\ missionEntry \in MissionCall /\ outcome[missionEntry] = "open"
        /\ UNCHANGED <<callers, gate, contextOK, flags, waiters, sends, tasks,
                       delivery, sessionVars, aircraftVars>>
    BY <1>3 DEF AgentResult, ResultAccepted, Running
  <2>4. TypeOK'
    BY <2>1, <2>2, <2>3
  <2>5. StatesInv'
    BY <2>1, <2>2, <2>3
  <2>6. missionEntry \notin reserved
    BY <1>3, <2>3 DEF AgentResult, ResultAccepted
  <2>7. ReservationInv'
    BY <2>1, <2>2, <2>3, <2>6
  <2>8. DeliveryInv'
    BY <2>1, <2>2, <2>3
  <2>9. GateInv' /\ ArmInv' /\ OneKindPerId' /\ SwapInv'
    BY <2>1, <2>2, <2>3
  <2> QED
    BY <2>4, <2>5, <2>7, <2>8, <2>9
<1>4. CASE UNCHANGED aircraftVars /\ ForgetMission
  BY <1>4 DEF ForgetMission, Completed
<1>5. CASE UNCHANGED aircraftVars /\ (OperationTakesGate \/ OperationEnds)
  BY <1>5 DEF OperationTakesGate, OperationEnds, GateFree
<1>6. CASE UNCHANGED missionVars /\ (ArmResult \/ ForgetArm)
  BY <1>6 DEF ArmResult, ForgetArm
<1>7. CASE (StartSwap \/ StartRetire) /\ UNCHANGED <<aircraftVars, missionVars>>
  <2>1. CASE StartSwap
    BY <1>7, <2>1 DEF StartSwap
  <2>2. CASE StartRetire
    BY <1>7, <2>2 DEF StartRetire
  <2> QED
    BY <1>7, <2>1, <2>2
<1>8. CASE FinishSwap
  <2> USE DEF FinishSwap, SwapBinding, AbortPending, AbortArms, LoseMissions,
              LostOutcome, Running, ControlFree, Delivering
  <2>1. stream' \in 1 .. MaxStream
    BY <1>8
  <2>2. swapping' \in BOOLEAN
    BY <1>8
  <2>3. AircraftTypeOK'
    BY <1>8
  <2>4. MissionTypeOK'
    BY <1>8
  <2>5. TypeOK'
    BY <1>8, <2>1, <2>2, <2>3, <2>4
  <2>6. StatesInv' /\ ReservationInv'
    BY <1>8
  <2>7. DeliveryInv'
    BY <1>8
  <2>8. GateInv'
    BY <1>8
  <2>9. ArmInv'
    BY <1>8
  <2>10. OneKindPerId' /\ SwapInv'
    BY <1>8
  <2> QED
    BY <2>5, <2>6, <2>7, <2>8, <2>9, <2>10
<1>9. CASE FinishRetire
  BY <1>9 DEF FinishRetire, RetireSession, AbortPending, AbortArms, LoseMissions,
              LostOutcome, Running, OwnershipFree, ControlFree, Delivering
<1>10. CASE UNCHANGED vars
  BY <1>10 DEF vars
<1> QED
  BY <1>1, <1>2, <1>3, <1>4, <1>5, <1>6, <1>7, <1>8, <1>9, <1>10
  DEF Next, SessionStep

HIDE DEF Inv, TypeOK, SessionTypeOK, MissionTypeOK, AircraftTypeOK, StatesInv,
         ReservationInv, DeliveryInv, GateInv, GateIsHeld, ArmInv,
         OneKindPerId, SwapInv, sessionVars, bindingVars, aircraftVars,
         missionVars, callers, flags, tasks, sends, stateVars, Open, Made,
         ArmOpen, ArmDelivering, CallPc, TaskPc, DeliveryPc, Outcome,
         ArmOutcome, Holders, Nobody, Operation

----------------------------------------------------------------------------
\* No step changes the outcome of a completed state.
LEMMA KeepsOutcome ==
    ASSUME Inv, [Next]_vars
    PROVE  \A g \in MissionCall : Completed(g) => outcome'[g] = outcome[g]
<1> SUFFICES ASSUME NEW g \in MissionCall, Completed(g)
             PROVE  outcome'[g] = outcome[g]
  OBVIOUS
<1> USE DEF Inv, TypeOK, MissionTypeOK, SessionTypeOK, StatesInv, ReservationInv,
            Completed, Open, Made, stateVars, missionVars, sessionVars
<1>1. CASE \E c \in MissionCall : CallStep(c)
  BY <1>1 DEF CallStep, AttachRunning, JoinReservation, ReserveRetry, Supersede,
              InstallReservation, MayAttach, Reservation, AttachFails,
              QueueForGate, TakeGate, AbandonGate, ContextPasses, ContextFails,
              Begin, BeginRefused, TakeResult, GiveUp
<1>2. CASE \E c \in MissionCall : TaskStep(c) \/ DeliveryStep(c)
  BY <1>2 DEF TaskStep, DeliveryStep, TaskTakesGate, TaskAbandonsGate,
              TaskPasses, TaskStops, TaskActivates, TaskAttaches, TaskRefused,
              TaskEnds, FailReservation, Reservation, MayActivate, AdmissionLive,
              DeliveryDropped, Commit, SendEnds, Running
<1>3. CASE \E c \in MissionCall : CtxEnds(c) \/ \E d \in MissionCall : LeaveAdmission(c, d)
  BY <1>3 DEF CtxEnds, LeaveAdmission
<1>4. CASE AgentResult
  BY <1>4 DEF AgentResult, ResultAccepted, Running
<1>5. CASE ForgetMission \/ OperationTakesGate \/ OperationEnds
  BY <1>5 DEF ForgetMission, OperationTakesGate, OperationEnds
<1>6. CASE SessionStep
  BY <1>6 DEF SessionStep, FinishSwap, FinishRetire, AbortPending, LoseMissions,
              Running
<1>7. CASE UNCHANGED missionVars
  BY <1>7
<1> QED
  BY <1>1, <1>2, <1>3, <1>4, <1>5, <1>6, <1>7 DEF Next, vars, MissionStep

\* Only Begin and TaskActivates start a delivery, both behind the gate.
LEMMA StartsInContext ==
    ASSUME Inv, [Next]_vars
    PROVE  \A g \in MissionCall :
              delivery[g] = "none" /\ delivery'[g] = "pending" => contextOK
<1> SUFFICES ASSUME NEW g \in MissionCall,
                    delivery[g] = "none", delivery'[g] = "pending"
             PROVE  contextOK
  OBVIOUS
<1> USE DEF Inv, TypeOK, MissionTypeOK, GateInv, stateVars, missionVars
<1>1. CASE \E c \in MissionCall : CallStep(c)
  BY <1>1 DEF CallStep, AttachRunning, JoinReservation, ReserveRetry, Supersede,
              InstallReservation, AttachFails, QueueForGate, TakeGate,
              AbandonGate, ContextPasses, ContextFails, Begin, BeginRefused,
              TakeResult, GiveUp
<1>2. CASE \E c \in MissionCall : TaskStep(c) \/ DeliveryStep(c)
  BY <1>2 DEF TaskStep, DeliveryStep, TaskTakesGate, TaskAbandonsGate,
              TaskPasses, TaskStops, TaskActivates, TaskAttaches, TaskRefused,
              TaskEnds, DeliveryDropped, Commit, SendEnds
<1>3. CASE \E c \in MissionCall : CtxEnds(c) \/ \E d \in MissionCall : LeaveAdmission(c, d)
  BY <1>3 DEF CtxEnds, LeaveAdmission
<1>4. CASE AgentResult \/ ForgetMission \/ OperationTakesGate \/ OperationEnds
  BY <1>4 DEF AgentResult, ForgetMission, OperationTakesGate, OperationEnds
<1>5. CASE SessionStep
  BY <1>5 DEF SessionStep, FinishSwap, FinishRetire, AbortPending
<1>6. CASE UNCHANGED missionVars
  BY <1>6
<1> QED
  BY <1>1, <1>2, <1>3, <1>4, <1>5, <1>6 DEF Next, vars, MissionStep

----------------------------------------------------------------------------
(* The waiters of a command state.  The counts the code keeps agree with   *)
(* the callers, whose set stays finite however many calls there may be.    *)

\* The callers that wait for a mission, and for an aircraft command.
Waiting(g) == {c \in MissionCall : call[c] = "waiting" /\ attached[c] = g}
ArmWaiting(g) ==
    {c \in AircraftCall : armCall[c] = "waiting" /\ armState[c] = g}

\* A mission somebody waits for was made, and a running one is counted right.
AwaitInv ==
    /\ \A c \in MissionCall : call[c] = "waiting" => Made(attached[c])
    /\ \A g \in MissionCall : Open(g) =>
          /\ IsFiniteSet(Waiting(g))
          /\ waiters[g] = Cardinality(Waiting(g))
          /\ waiters[g] > 0

\* The same of the aircraft commands.
ArmAwaitInv ==
    /\ \A c \in AircraftCall : armCall[c] = "waiting" =>
          armOutcome[armState[c]] # "unmade"
    /\ \A g \in AircraftCall : ArmOpen(g) =>
          /\ IsFiniteSet(ArmWaiting(g))
          /\ armWaiters[g] = Cardinality(ArmWaiting(g))
          /\ armWaiters[g] > 0

\* A finite set with one member more, and with one member less.
LEMMA CountOneMore ==
    ASSUME NEW S, IsFiniteSet(S), NEW c, c \notin S
    PROVE  /\ IsFiniteSet(S \cup {c})
           /\ Cardinality(S \cup {c}) = Cardinality(S) + 1
BY FS_AddElement

LEMMA CountOneLess ==
    ASSUME NEW S, IsFiniteSet(S), NEW c \in S
    PROVE  /\ IsFiniteSet(S \ {c})
           /\ Cardinality(S \ {c}) = Cardinality(S) - 1
BY FS_RemoveElement

\* One caller is one waiter.
LEMMA CountOne ==
    ASSUME NEW c
    PROVE  IsFiniteSet({c}) /\ Cardinality({c}) = 1
BY FS_Singleton

\* A step that moves no waiter, opens nothing and recounts nothing that runs.
LEMMA AwaitKept ==
    ASSUME Inv, AwaitInv,
           \A c \in MissionCall :
              /\ call'[c] = "waiting" <=> call[c] = "waiting"
              /\ call[c] = "waiting" => attached'[c] = attached[c],
           \A g \in MissionCall :
              /\ Open(g)' => Open(g) /\ waiters'[g] = waiters[g]
              /\ Made(g) => Made(g)'
    PROVE  AwaitInv'
<1>1. \A g \in MissionCall : Waiting(g)' = Waiting(g)
  BY DEF Waiting
<1>2. \A c \in MissionCall : call[c] = "waiting" => attached[c] \in MissionCall
  BY DEF Inv, StatesInv
<1> QED
  BY <1>1, <1>2 DEF AwaitInv, Made

\* A caller begins to wait for a state, which it may have made.
LEMMA AwaitJoined ==
    ASSUME Inv, AwaitInv, NEW c \in MissionCall, NEW g \in MissionCall,
           call[c] # "waiting",
           call' = [call EXCEPT ![c] = "waiting"],
           attached' = [attached EXCEPT ![c] = g],
           Made(g)',
           \A h \in MissionCall :
              /\ Open(h)' /\ h # g => Open(h) /\ waiters'[h] = waiters[h]
              /\ Made(h) => Made(h)',
           Open(g)' => \/ Open(g) /\ waiters'[g] = waiters[g] + 1
                       \/ ~Made(g) /\ waiters'[g] = 1
    PROVE  AwaitInv'
<1> USE DEF Made
<1>1. /\ call \in [MissionCall -> CallPc]
      /\ attached \in [MissionCall -> MissionCall \cup {None}]
      /\ \A d \in MissionCall : call[d] = "waiting" => attached[d] \in MissionCall
  BY DEF Inv, TypeOK, MissionTypeOK, StatesInv
<1>2. /\ \A h \in MissionCall : h # g => Waiting(h)' = Waiting(h)
      /\ Waiting(g)' = Waiting(g) \cup {c}
      /\ c \notin Waiting(g)
  BY <1>1 DEF Waiting
<1>3. \A d \in MissionCall : call'[d] = "waiting" => Made(attached[d])'
  BY <1>1 DEF AwaitInv
<1>4. ASSUME NEW h \in MissionCall, Open(h)', h # g
      PROVE  /\ IsFiniteSet(Waiting(h)')
             /\ waiters'[h] = Cardinality(Waiting(h)')
             /\ waiters'[h] > 0
  BY <1>2, <1>4 DEF AwaitInv
<1>5. ASSUME Open(g)', Open(g), waiters'[g] = waiters[g] + 1
      PROVE  /\ IsFiniteSet(Waiting(g)')
             /\ waiters'[g] = Cardinality(Waiting(g)')
             /\ waiters'[g] > 0
  <2>1. IsFiniteSet(Waiting(g)) /\ waiters[g] = Cardinality(Waiting(g))
    BY <1>5 DEF AwaitInv
  <2>2. waiters[g] \in Nat
    BY DEF Inv, TypeOK, MissionTypeOK
  <2> QED
    BY <1>2, <1>5, <2>1, <2>2, CountOneMore
<1>6. ASSUME Open(g)', ~Made(g), waiters'[g] = 1
      PROVE  /\ IsFiniteSet(Waiting(g)')
             /\ waiters'[g] = Cardinality(Waiting(g)')
             /\ waiters'[g] > 0
  <2>1. Waiting(g) = {}
    BY <1>6 DEF Waiting, AwaitInv
  <2>2. Waiting(g)' = {c}
    BY <1>2, <2>1
  <2> QED
    BY <1>6, <2>2, CountOne
<1> QED
  BY <1>3, <1>4, <1>5, <1>6 DEF AwaitInv

\* A caller stops waiting: either the state has completed, or others still wait.
LEMMA AwaitLeft ==
    ASSUME Inv, AwaitInv, NEW c \in MissionCall, NEW g \in MissionCall,
           call[c] = "waiting", attached[c] = g,
           call' = [call EXCEPT ![c] = "ended"],
           attached' = [attached EXCEPT ![c] = None],
           \A h \in MissionCall :
              /\ Open(h)' => Open(h)
              /\ h # g => waiters'[h] = waiters[h]
              /\ Made(h) => Made(h)',
           Open(g)' => waiters[g] > 1 /\ waiters'[g] = waiters[g] - 1
    PROVE  AwaitInv'
<1> USE DEF Made
<1>1. /\ call \in [MissionCall -> CallPc]
      /\ attached \in [MissionCall -> MissionCall \cup {None}]
      /\ \A d \in MissionCall : call[d] = "waiting" => attached[d] \in MissionCall
  BY DEF Inv, TypeOK, MissionTypeOK, StatesInv
<1>2. /\ \A h \in MissionCall : h # g => Waiting(h)' = Waiting(h)
      /\ Waiting(g)' = Waiting(g) \ {c}
      /\ c \in Waiting(g)
  BY <1>1 DEF Waiting
<1>3. \A d \in MissionCall : call'[d] = "waiting" => Made(attached[d])'
  BY <1>1 DEF AwaitInv
<1>4. ASSUME NEW h \in MissionCall, Open(h)', h # g
      PROVE  /\ IsFiniteSet(Waiting(h)')
             /\ waiters'[h] = Cardinality(Waiting(h)')
             /\ waiters'[h] > 0
  BY <1>2, <1>4 DEF AwaitInv
<1>5. ASSUME Open(g)'
      PROVE  /\ IsFiniteSet(Waiting(g)')
             /\ waiters'[g] = Cardinality(Waiting(g)')
             /\ waiters'[g] > 0
  <2>1. IsFiniteSet(Waiting(g)) /\ waiters[g] = Cardinality(Waiting(g))
    BY <1>5 DEF AwaitInv
  <2>2. waiters[g] \in Nat
    BY DEF Inv, TypeOK, MissionTypeOK
  <2> QED
    BY <1>2, <1>5, <2>1, <2>2, CountOneLess
<1> QED
  BY <1>3, <1>4, <1>5 DEF AwaitInv

\* Every step keeps the count of a running mission.
LEMMA NextAwaitInv ==
    ASSUME Inv, AwaitInv, [Next]_vars
    PROVE  AwaitInv'
<1> USE DEF Inv, TypeOK, MissionTypeOK, SessionTypeOK, StatesInv, Open, Made,
            stateVars, missionVars, callers, flags, tasks, sends, sessionVars
<1>1. ASSUME NEW c \in MissionCall, AttachRunning(c) PROVE AwaitInv'
  <2>1. /\ missionEntry \in MissionCall /\ call[c] # "waiting" /\ Made(missionEntry)
        /\ waiters'[missionEntry] = waiters[missionEntry] + 1
        /\ \A h \in MissionCall : h # missionEntry => waiters'[h] = waiters[h]
        /\ UNCHANGED outcome
    BY <1>1 DEF AttachRunning, MayAttach
  <2>2. /\ call' = [call EXCEPT ![c] = "waiting"]
        /\ attached' = [attached EXCEPT ![c] = missionEntry]
    BY <1>1 DEF AttachRunning, WaitOn
  <2> HIDE DEF Inv, TypeOK, MissionTypeOK, SessionTypeOK, StatesInv
  <2> QED
    BY <2>1, <2>2, AwaitJoined
<1>2. ASSUME NEW c \in MissionCall, JoinReservation(c) PROVE AwaitInv'
  <2>1. /\ missionEntry \in MissionCall /\ call[c] # "waiting" /\ Made(missionEntry)
        /\ waiters'[missionEntry] = waiters[missionEntry] + 1
        /\ \A h \in MissionCall : h # missionEntry => waiters'[h] = waiters[h]
        /\ UNCHANGED outcome
    BY <1>2 DEF JoinReservation, MayAttach
  <2>2. /\ call' = [call EXCEPT ![c] = "waiting"]
        /\ attached' = [attached EXCEPT ![c] = missionEntry]
    BY <1>2 DEF JoinReservation, WaitOn
  <2> HIDE DEF Inv, TypeOK, MissionTypeOK, SessionTypeOK, StatesInv
  <2> QED
    BY <2>1, <2>2, AwaitJoined
<1>3. ASSUME NEW c \in MissionCall, ReserveRetry(c) \/ Supersede(c) \/ Begin(c)
      PROVE  AwaitInv'
  <2>1. call[c] # "waiting" /\ ~Made(c)
    BY <1>3 DEF ReserveRetry, Supersede, Begin, MayAttach
  <2>2. /\ call' = [call EXCEPT ![c] = "waiting"]
        /\ attached' = [attached EXCEPT ![c] = c]
        /\ waiters' = [waiters EXCEPT ![c] = 1]
    BY <1>3 DEF ReserveRetry, Supersede, Begin, InstallReservation, WaitOn
  <2>3. /\ outcome'[c] = "open"
        /\ \A h \in MissionCall : h # c /\ outcome'[h] = "open" => outcome[h] = "open"
        /\ \A h \in MissionCall : outcome[h] # "unmade" => outcome'[h] # "unmade"
    BY <1>3, <2>1 DEF ReserveRetry, Supersede, Begin, MayAttach
  <2> HIDE DEF Inv, TypeOK, MissionTypeOK, SessionTypeOK, StatesInv
  <2>4. waiters'[c] = 1 /\ \A h \in MissionCall : h # c => waiters'[h] = waiters[h]
    BY <2>2 DEF Inv, TypeOK, MissionTypeOK
  <2> QED
    BY <2>1, <2>2, <2>3, <2>4, AwaitJoined
<1>4. ASSUME NEW c \in MissionCall, TakeResult(c) PROVE AwaitInv'
  <2>1. /\ attached[c] \in MissionCall /\ ~Open(attached[c])
        /\ \A h \in MissionCall : h # attached[c] => waiters'[h] = waiters[h]
        /\ UNCHANGED outcome
    BY <1>4 DEF TakeResult
  <2>2. /\ call[c] = "waiting"
        /\ call' = [call EXCEPT ![c] = "ended"]
        /\ attached' = [attached EXCEPT ![c] = None]
    BY <1>4 DEF TakeResult, EndCall
  <2> HIDE DEF Inv, TypeOK, MissionTypeOK, SessionTypeOK, StatesInv
  <2> QED
    BY <2>1, <2>2, AwaitLeft
<1>5. ASSUME NEW c \in MissionCall, GiveUp(c) PROVE AwaitInv'
  <2> DEFINE g == attached[c]
  <2>1. g \in MissionCall /\ call[c] = "waiting"
    BY <1>5 DEF GiveUp
  <2>2. \A h \in MissionCall :
           /\ outcome'[h] = "open" => outcome[h] = "open"
           /\ h # g => waiters'[h] = waiters[h]
           /\ outcome[h] # "unmade" => outcome'[h] # "unmade"
    BY <1>5, <2>1 DEF GiveUp
  <2>3. outcome'[g] = "open" => waiters[g] > 1 /\ waiters'[g] = waiters[g] - 1
    BY <1>5, <2>1 DEF GiveUp, LastWaiter, OneLess, AwaitInv
  <2> QED
    BY <1>5, <2>1, <2>2, <2>3, AwaitLeft DEF GiveUp, EndCall
<1>6. ASSUME NEW c \in MissionCall,
             \/ AttachFails(c) \/ QueueForGate(c) \/ TakeGate(c) \/ AbandonGate(c)
             \/ ContextPasses(c) \/ ContextFails(c) \/ BeginRefused(c) \/ CtxEnds(c)
      PROVE  AwaitInv'
  <2>1. /\ UNCHANGED <<outcome, waiters>>
        /\ \A d \in MissionCall :
              /\ call'[d] = "waiting" <=> call[d] = "waiting"
              /\ call[d] = "waiting" => attached'[d] = attached[d]
    BY <1>6 DEF AttachFails, QueueForGate, TakeGate, AbandonGate, ContextPasses,
                ContextFails, BeginRefused, CtxEnds, EndCall, MayAttach
  <2> QED
    BY <2>1, AwaitKept
<1>7. ASSUME NEW g \in MissionCall, TaskStep(g) PROVE AwaitInv'
  <2>1. UNCHANGED callers
    BY <1>7 DEF TaskStep, TaskTakesGate, TaskAbandonsGate, TaskPasses, TaskStops,
                TaskActivates, TaskAttaches, TaskRefused, TaskEnds
  <2>2. \A h \in MissionCall :
           /\ outcome'[h] = "open" => outcome[h] = "open" /\ waiters'[h] = waiters[h]
           /\ outcome[h] # "unmade" => outcome'[h] # "unmade"
    BY <1>7 DEF TaskStep, TaskTakesGate, TaskAbandonsGate, TaskPasses, TaskStops,
                TaskActivates, TaskAttaches, TaskRefused, TaskEnds,
                FailReservation, CompletedElsewhere, Completed
  <2> QED
    BY <2>1, <2>2, AwaitKept
<1>8. ASSUME \/ \E g \in MissionCall : DeliveryStep(g)
             \/ \E g, d \in MissionCall : LeaveAdmission(g, d)
             \/ AgentResult \/ ForgetMission \/ OperationTakesGate \/ OperationEnds
      PROVE  AwaitInv'
  <2>1. UNCHANGED <<callers, waiters>>
    BY <1>8 DEF DeliveryStep, DeliveryDropped, Commit, SendEnds, LeaveAdmission,
                AgentResult, ForgetMission, OperationTakesGate, OperationEnds
  <2>2. CASE AgentResult
    <3>1. PICK o \in {ResultOutcome(r) : r \in Result} :
              outcome' = [outcome EXCEPT ![missionEntry] = o]
      BY <2>2 DEF AgentResult
    <3>2. o \in {"final", "retryable"}
      BY <3>1, ResultOutcomes
    <3> QED
      BY <2>1, <3>1, <3>2, AwaitKept
  <2>3. CASE ~AgentResult
    <3>1. \A h \in MissionCall :
             /\ outcome'[h] = "open" => outcome[h] = "open"
             /\ outcome[h] # "unmade" => outcome'[h] # "unmade"
      BY <1>8, <2>3 DEF DeliveryStep, DeliveryDropped, Commit, SendEnds,
                        LeaveAdmission, ForgetMission, OperationTakesGate,
                        OperationEnds
    <3> QED
      BY <2>1, <3>1, AwaitKept
  <2> QED
    BY <2>2, <2>3
<1>9. CASE SessionStep
  <2>1. UNCHANGED <<callers, waiters>>
    BY <1>9 DEF SessionStep, FinishSwap, FinishRetire, AbortPending
  <2>2. \A h \in MissionCall :
           /\ outcome'[h] = "open" => outcome[h] = "open"
           /\ outcome[h] # "unmade" => outcome'[h] # "unmade"
    BY <1>9 DEF SessionStep, FinishSwap, FinishRetire, AbortPending, LoseMissions,
                LostOutcome, Running
  <2> QED
    BY <2>1, <2>2, AwaitKept
<1>10. CASE UNCHANGED missionVars
  BY <1>10, AwaitKept
<1> QED
  BY <1>1, <1>2, <1>3, <1>4, <1>5, <1>6, <1>7, <1>8, <1>9, <1>10
  DEF Next, vars, MissionStep, CallStep

\* Every step keeps the count of a running aircraft command.
LEMMA NextArmAwaitInv ==
    ASSUME Inv, ArmAwaitInv, [Next]_vars
    PROVE  ArmAwaitInv'
<1>1. /\ armCall \in [AircraftCall -> {"idle", "waiting", "ended"}]
      /\ armState \in [AircraftCall -> AircraftCall \cup {None}]
      /\ armOutcome \in [AircraftCall -> ArmOutcome]
      /\ armWaiters \in [AircraftCall -> Nat]
      /\ aircraftEntry \in AircraftCall \cup {None}
      /\ \A c \in AircraftCall : armCall[c] = "waiting" => armState[c] \in AircraftCall
      /\ \A c \in AircraftCall : armCall[c] = "idle" => armOutcome[c] = "unmade"
      /\ \A g \in AircraftCall : armOutcome[g] = "unmade" => aircraftEntry # g
      /\ \A g \in AircraftCall : armOutcome[g] = "open" => aircraftEntry = g
  BY DEF Inv, TypeOK, AircraftTypeOK, SessionTypeOK, ArmInv, ArmOpen
<1> DEFINE Counted(g) == /\ IsFiniteSet(ArmWaiting(g))
                         /\ armWaiters[g] = Cardinality(ArmWaiting(g))
                         /\ armWaiters[g] > 0
<1> DEFINE Opens(g) == armOutcome'[g] = "open"
<1> DEFINE MadeStays == \A g \in AircraftCall :
                           armOutcome[g] # "unmade" => armOutcome'[g] # "unmade"
<1>2. ASSUME NEW c \in AircraftCall, NEW g \in AircraftCall,
             armCall[c] # "waiting", MadeStays,
             armCall' = [armCall EXCEPT ![c] = "waiting"],
             armState' = [armState EXCEPT ![c] = g],
             armOutcome'[g] # "unmade",
             \A h \in AircraftCall : h # g /\ Opens(h) =>
                armOutcome[h] = "open" /\ armWaiters'[h] = armWaiters[h],
             Opens(g) =>
                \/ armOutcome[g] = "open" /\ armWaiters'[g] = armWaiters[g] + 1
                \/ armOutcome[g] = "unmade" /\ armWaiters'[g] = 1
      PROVE  ArmAwaitInv'
  <2>1. /\ \A h \in AircraftCall : h # g => ArmWaiting(h)' = ArmWaiting(h)
        /\ ArmWaiting(g)' = ArmWaiting(g) \cup {c}
        /\ c \notin ArmWaiting(g)
    BY <1>1, <1>2 DEF ArmWaiting
  <2>2. \A d \in AircraftCall :
           armCall'[d] = "waiting" => armOutcome'[armState'[d]] # "unmade"
    BY <1>1, <1>2 DEF ArmAwaitInv
  <2>3. ASSUME NEW h \in AircraftCall, Opens(h), h # g PROVE Counted(h)'
    BY <1>2, <2>1, <2>3 DEF ArmAwaitInv, ArmOpen
  <2>4. ASSUME armOutcome[g] = "open", armWaiters'[g] = armWaiters[g] + 1
        PROVE  Counted(g)'
    <3>1. IsFiniteSet(ArmWaiting(g)) /\ armWaiters[g] = Cardinality(ArmWaiting(g))
      BY <2>4 DEF ArmAwaitInv, ArmOpen
    <3> QED
      BY <1>1, <2>1, <2>4, <3>1, CountOneMore
  <2>5. ASSUME armOutcome[g] = "unmade", armWaiters'[g] = 1 PROVE Counted(g)'
    <3>1. ArmWaiting(g) = {}
      BY <2>5 DEF ArmWaiting, ArmAwaitInv
    <3>2. ArmWaiting(g)' = {c}
      BY <2>1, <3>1
    <3> QED
      BY <2>5, <3>2, CountOne
  <2> HIDE DEF Counted
  <2>6. \A h \in AircraftCall : Opens(h) => Counted(h)'
    BY <1>2, <2>3, <2>4, <2>5
  <2> QED
    BY <2>2, <2>6 DEF ArmAwaitInv, ArmOpen, Counted
<1>3. ASSUME NEW c \in AircraftCall, NEW g \in AircraftCall,
             armCall[c] = "waiting", armState[c] = g, MadeStays,
             armCall' = [armCall EXCEPT ![c] = "ended"],
             armState' = [armState EXCEPT ![c] = None],
             \A h \in AircraftCall : Opens(h) => armOutcome[h] = "open",
             \A h \in AircraftCall : h # g => armWaiters'[h] = armWaiters[h],
             Opens(g) => armWaiters[g] > 1 /\ armWaiters'[g] = armWaiters[g] - 1
      PROVE  ArmAwaitInv'
  <2>1. /\ \A h \in AircraftCall : h # g => ArmWaiting(h)' = ArmWaiting(h)
        /\ ArmWaiting(g)' = ArmWaiting(g) \ {c}
        /\ c \in ArmWaiting(g)
    BY <1>1, <1>3 DEF ArmWaiting
  <2>2. \A d \in AircraftCall :
           armCall'[d] = "waiting" => armOutcome'[armState'[d]] # "unmade"
    BY <1>1, <1>3 DEF ArmAwaitInv
  <2>3. ASSUME NEW h \in AircraftCall, Opens(h), h # g PROVE Counted(h)'
    BY <1>3, <2>1, <2>3 DEF ArmAwaitInv, ArmOpen
  <2>4. ASSUME Opens(g) PROVE Counted(g)'
    <3>1. IsFiniteSet(ArmWaiting(g)) /\ armWaiters[g] = Cardinality(ArmWaiting(g))
      BY <1>3, <2>4 DEF ArmAwaitInv, ArmOpen
    <3> QED
      BY <1>1, <1>3, <2>1, <2>4, <3>1, CountOneLess
  <2> HIDE DEF Counted
  <2>5. \A h \in AircraftCall : Opens(h) => Counted(h)'
    BY <2>3, <2>4
  <2> QED
    BY <2>2, <2>5 DEF ArmAwaitInv, ArmOpen, Counted
<1>4. ASSUME UNCHANGED <<armCall, armState, armWaiters>>, MadeStays,
             \A g \in AircraftCall : Opens(g) => armOutcome[g] = "open"
      PROVE  ArmAwaitInv'
  <2>1. \A g \in AircraftCall : ArmWaiting(g)' = ArmWaiting(g)
    BY <1>4 DEF ArmWaiting
  <2> QED
    BY <1>1, <1>4, <2>1 DEF ArmAwaitInv, ArmOpen
<1>5. ASSUME NEW c \in AircraftCall, SendRefused(c) PROVE ArmAwaitInv'
  <2>1. \A g \in AircraftCall : ArmWaiting(g)' = ArmWaiting(g)
    BY <1>1, <1>5 DEF SendRefused, ArmWaiting
  <2> QED
    BY <1>1, <1>5, <2>1 DEF SendRefused, ArmAwaitInv, ArmOpen
<1>6. ASSUME NEW c \in AircraftCall, SendAttaches(c) PROVE ArmAwaitInv'
  <2>1. aircraftEntry \in AircraftCall /\ armOutcome[aircraftEntry] # "unmade"
    BY <1>1, <1>6 DEF SendAttaches
  <2> QED
    BY <1>1, <1>2, <1>6, <2>1 DEF SendAttaches, MayBegin
<1>7. ASSUME NEW c \in AircraftCall, SendBegins(c) PROVE ArmAwaitInv'
  <2>1. armOutcome[c] = "unmade" /\ armOutcome'[c] = "open"
    BY <1>1, <1>7 DEF SendBegins, MayBegin
  <2> QED
    BY <1>1, <1>2, <1>7, <2>1 DEF SendBegins, MayBegin
<1>8. ASSUME NEW c \in AircraftCall, SendReturns(c) PROVE ArmAwaitInv'
  BY <1>1, <1>3, <1>8 DEF SendReturns, ArmOpen
<1>9. ASSUME NEW c \in AircraftCall, SendGivesUp(c) PROVE ArmAwaitInv'
  <2> DEFINE g == armState[c]
  <2>1. g \in AircraftCall /\ armCall[c] = "waiting"
    BY <1>1, <1>9 DEF SendGivesUp
  <2>2. /\ \A h \in AircraftCall : Opens(h) => armOutcome[h] = "open"
        /\ \A h \in AircraftCall : h # g => armWaiters'[h] = armWaiters[h]
        /\ MadeStays
    BY <1>1, <1>9, <2>1 DEF SendGivesUp
  <2>3. Opens(g) => armWaiters[g] > 1 /\ armWaiters'[g] = armWaiters[g] - 1
    BY <1>1, <1>9, <2>1 DEF SendGivesUp, LastArmWaiter, ArmAwaitInv, ArmOpen
  <2> QED
    BY <1>3, <1>9, <2>1, <2>2, <2>3 DEF SendGivesUp
<1>10. ASSUME NEW c \in AircraftCall,
              ArmDropped(c) \/ ArmChecked(c) \/ ArmSends(c) \/ ArmSent(c)
       PROVE  ArmAwaitInv'
  BY <1>1, <1>4, <1>10 DEF ArmDropped, ArmChecked, ArmSends, ArmSent, FinishArm, ArmOpen
<1>11. CASE ArmResult \/ ForgetArm
  BY <1>1, <1>4, <1>11 DEF ArmResult, ForgetArm, aircraftVars
<1>12. CASE FinishSwap \/ FinishRetire
  BY <1>1, <1>4, <1>12 DEF FinishSwap, FinishRetire, AbortPending, AbortArms
<1>13. CASE UNCHANGED aircraftVars
  BY <1>4, <1>13 DEF aircraftVars
<1> QED
  BY <1>5, <1>6, <1>7, <1>8, <1>9, <1>10, <1>11, <1>12, <1>13
  DEF Next, vars, SessionStep, AircraftStep

----------------------------------------------------------------------------
\* The invariant holds in every reachable state: whatever the callers, the
\* reservation tasks, the delivery tasks, the Agent and the stream handlers of
\* a session do, in any order.
THEOREM Invariance == Spec => []Inv
<1>1. Init => Inv
  BY InitInv
<1>2. Inv /\ [Next]_vars => Inv'
  BY NextInv
<1> QED
  BY <1>1, <1>2, PTL DEF Spec

\* Every variable of the session, of its calls and of its tasks stays in its
\* type; the waiter counts of apiserver.go and mission_deployment.go, which are
\* plain ints, never become negative.
THEOREM TypeCorrect == Spec => []TypeOK
<1>1. Inv => TypeOK
  BY DEF Inv
<1> QED
  BY <1>1, Invariance, PTL

\* A mission whose outcome says it was not delivered was never written to a
\* stream (commit before Send against completeMissionDeploymentForLostSession
\* and failMissionDeploymentReservation).
THEOREM NeverSent == Spec => []UndeliveredWasNeverSent
<1>1. Inv => UndeliveredWasNeverSent
  BY DEF Inv, DeliveryInv, UndeliveredWasNeverSent
<1> QED
  BY <1>1, Invariance, PTL

\* A mission is sent on the binding of its admission and a running one belongs
\* to the active binding, through any number of swaps.
THEOREM MissionBinding == Spec => []MissionStaysOnItsBinding
<1>1. Inv => MissionStaysOnItsBinding
  BY DEF Inv, StatesInv, DeliveryInv, MissionStaysOnItsBinding, Open
<1> QED
  BY <1>1, Invariance, PTL

\* An aircraft command is sent on the binding of its admission.
THEOREM ArmBinding == Spec => []ArmStaysOnItsBinding
<1>1. Inv => ArmStaysOnItsBinding
  BY DEF Inv, ArmInv, ArmStaysOnItsBinding, ArmOpen, ArmDelivering
<1> QED
  BY <1>1, Invariance, PTL

\* The token of operationGate is neither lost, doubled nor done without, for any
\* number of calls, reservations and operation-context commands.
THEOREM GateConserved == Spec => []GateIsHeld
<1>1. Inv => GateIsHeld
  BY DEF Inv, GateInv
<1> QED
  BY <1>1, Invariance, PTL

\* A running mission is the retained one, its count is the number of its callers,
\* and it has one: whoever attaches, supersedes or leaves
\* (attachMissionDeployment, cancelMissionDeploymentWaiter), for any number of
\* calls.
THEOREM DeploymentAwaited == Spec => []DeploymentIsAwaited
<1>1. Init => AwaitInv
  BY DEF Init, MissionInit, AwaitInv, Open, Made
<1>2. Inv /\ AwaitInv /\ [Next]_vars => AwaitInv'
  BY NextAwaitInv
<1>3. Inv /\ AwaitInv => DeploymentIsAwaited
  BY DEF Inv, StatesInv, AwaitInv, Waiting, DeploymentIsAwaited
<1> QED
  BY <1>1, <1>2, <1>3, Invariance, PTL DEF Spec

\* The same of an aircraft command: the last caller to leave completes it
\* (cancelAircraftCommandWaiter), and no other does.
THEOREM ArmAwaited == Spec => []ArmIsAwaited
<1>1. Init => ArmAwaitInv
  BY DEF Init, AircraftInit, ArmAwaitInv, ArmOpen
<1>2. Inv /\ ArmAwaitInv /\ [Next]_vars => ArmAwaitInv'
  BY NextArmAwaitInv
<1>3. Inv /\ ArmAwaitInv => ArmIsAwaited
  BY DEF Inv, ArmInv, ArmAwaitInv, ArmWaiting, ArmIsAwaited
<1> QED
  BY <1>1, <1>2, <1>3, Invariance, PTL DEF Spec

\* The mission table and the aircraft-command table never hold one command ID
\* together.
THEOREM OneKind == Spec => []OneKindPerId
<1>1. Inv => OneKindPerId
  BY DEF Inv
<1> QED
  BY <1>1, Invariance, PTL

\* A completed mission deployment keeps its outcome.
THEOREM FinalOutcome == Spec => OutcomeIsFinal
<1> DEFINE Keeps == \A g \in MissionCall : Completed(g) => outcome'[g] = outcome[g]
<1>1. Inv /\ [Next]_vars => [Keeps]_<<missionVars, sessionVars>>
  <2> SUFFICES ASSUME Inv, [Next]_vars PROVE Keeps
    OBVIOUS
  <2> QED
    BY KeepsOutcome
<1> QED
  BY <1>1, Invariance, PTL DEF Spec, OutcomeIsFinal

\* A delivery starts in a reconciled operation context.
THEOREM AdmissionContext == Spec => AdmittedInContext
<1> DEFINE Tested == \A g \in MissionCall :
                        delivery[g] = "none" /\ delivery'[g] = "pending" => contextOK
<1>1. Inv /\ [Next]_vars => [Tested]_<<missionVars, sessionVars>>
  <2> SUFFICES ASSUME Inv, [Next]_vars PROVE Tested
    OBVIOUS
  <2> QED
    BY StartsInContext
<1> QED
  BY <1>1, Invariance, PTL DEF Spec, AdmittedInContext

=============================================================================
