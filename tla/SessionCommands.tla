-------------------------- MODULE SessionCommands --------------------------
(***************************************************************************)
(* The aircraft commands and the mission deployments of one Agent session, *)
(* with the replacement of its stream binding and its retirement.          *)
(*                                                                         *)
(* The two kinds of commands share the ownership and control leases, the   *)
(* active binding and the command-ID space.  A swap of the binding waits   *)
(* for the delivery tasks of both and completes what both had pending; a   *)
(* retirement waits for every ownership lease.                             *)
(***************************************************************************)
EXTENDS AircraftCommand, MissionDeployment, TLC

CONSTANT
    Workload        \* the sets of calls that may be made in one behaviour

ASSUME WorkloadAssumption ==
    Workload \subseteq SUBSET (MissionCall \cup AircraftCall)

vars == <<sessionVars, aircraftVars, missionVars>>

TypeOK == SessionTypeOK /\ AircraftTypeOK /\ MissionTypeOK

Init ==
    /\ SessionInit
    /\ \E issued \in Workload : AircraftInit(issued) /\ MissionInit(issued)

\* Mutant of ControlFree: the swap does not wait for the delivery tasks.
ControlIgnored == TRUE

\* The write side of controlStreamMu can be taken.
ControlFree == ArmDelivering = {} /\ Delivering = {}

\* The write side of ownershipMu can be taken.
OwnershipFree == ControlFree /\ Checked = {} /\ ~swapping

\* abortPendingCommandsForStreamReplacement and abortPendingCommandsLocked
AbortPending ==
    /\ AbortArms
    /\ LoseMissions
    /\ UNCHANGED <<armCall, armState, armWaiters, armStream, armDelivery,
                   armSentOn, callers, gate, contextOK, flags, waiters,
                   sends, admitted, task, delivery>>

FinishSwap == ControlFree /\ SwapBinding /\ AbortPending

FinishRetire == OwnershipFree /\ RetireSession /\ AbortPending

SessionStep ==
    \/ (StartSwap \/ StartRetire) /\ UNCHANGED <<aircraftVars, missionVars>>
    \/ FinishSwap
    \/ FinishRetire

Next ==
    \/ SessionStep
    \/ UNCHANGED missionVars /\ (ArmResult \/ ForgetArm)
    \/ \E c \in AircraftCall : UNCHANGED missionVars /\ AircraftStep(c)
    \/ UNCHANGED aircraftVars
          /\ (AgentResult \/ ForgetMission \/ OperationTakesGate \/ OperationEnds)
    \/ \E c \in MissionCall : UNCHANGED aircraftVars /\ MissionStep(c)

Spec == Init /\ [][Next]_vars

----------------------------------------------------------------------------
\* A command ID is never retained for a mission and for an aircraft command at
\* once, although a mission passes prepareCommandIDAdmissionLocked long before
\* beginMissionDeployment stores its state.
OneKindPerId == missionEntry = None \/ aircraftEntry = None

CallSymmetry ==
    Permutations(MissionCall \ {Earlier}) \cup Permutations(AircraftCall)
=============================================================================
