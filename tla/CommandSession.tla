--------------------------- MODULE CommandSession ---------------------------
(***************************************************************************)
(* What the command handlers of one Agent session share                    *)
(* (internal/relay/apiserver.go, gatewayserver.go and streams.go): the     *)
(* active stream binding, the two read/write locks that fence it, the gate *)
(* of the serialized operations and the retained command tables.           *)
(*                                                                         *)
(* One session and one command ID are modelled.  A binding is its          *)
(* generation number.  The write side of controlStreamMu (the swap of the  *)
(* active binding) and of ownershipMu (retirement of the session) are two  *)
(* steps, the wait and the critical section, because sync.RWMutex refuses  *)
(* new readers while a writer waits.                                       *)
(*                                                                         *)
(* A command state is named by the call that allocated it, so the members  *)
(* of MissionCall and AircraftCall stand both for RPCs and for the state   *)
(* objects (pointers) the code compares.                                   *)
(***************************************************************************)
EXTENDS Naturals, FiniteSets

CONSTANTS
    MissionCall,    \* DeployMission calls, all with one command and payload
    AircraftCall,   \* SendAircraftCommand calls with the same command ID
    None,           \* nil
    MaxStream       \* bound: bindings the session ever has

ASSUME CallAssumption ==
    /\ None \notin MissionCall
    /\ None \notin AircraftCall
ASSUME StreamAssumption == MaxStream \in Nat \ {0}

VARIABLES
    stream,         \* generation of session.stream
    swapping,       \* a new binding waits for controlStreamMu
    session,        \* "live", "retiring" (waits for ownershipMu) or "retired"
    missionEntry,   \* session.missionDeployments[commandID]
    aircraftEntry   \* session.aircraftCommands[commandID]

bindingVars == <<stream, swapping, session>>

sessionVars == <<bindingVars, missionEntry, aircraftEntry>>

SessionTypeOK ==
    /\ stream \in 1 .. MaxStream
    /\ swapping \in BOOLEAN
    /\ session \in {"live", "retiring", "retired"}
    /\ missionEntry \in MissionCall \cup {None}
    /\ aircraftEntry \in AircraftCall \cup {None}

SessionInit ==
    /\ stream = 1
    /\ swapping = FALSE
    /\ session = "live"
    /\ aircraftEntry = None

----------------------------------------------------------------------------
\* ownershipMu.RLock does not wait.
OwnershipReadable == session # "retiring"

\* controlStreamMu.RLock does not wait.
ControlReadable == ~swapping

\* The session is still the Agent's, and its stream is connected: a session
\* whose active stream ends is retired by deleteStream.
CurrentSession == session = "live"

\* Mutant of MissionIdFree: the other table is not consulted.
MissionIdAlwaysFree == TRUE

\* prepareCommandIDAdmissionLocked for each of the two command kinds.
MissionIdFree == aircraftEntry = None
AircraftIdFree == missionEntry = None

----------------------------------------------------------------------------
\* updateStream or registerActiveAgent takes the ownership lease and waits for
\* the control write fence.
StartSwap ==
    /\ CurrentSession
    /\ ~swapping
    /\ stream < MaxStream
    /\ swapping' = TRUE
    /\ UNCHANGED <<stream, session, missionEntry, aircraftEntry>>

\* The active binding is replaced.
SwapBinding ==
    /\ swapping
    /\ swapping' = FALSE
    /\ stream' = stream + 1
    /\ UNCHANGED <<session, missionEntry, aircraftEntry>>

\* deleteStream or a new Register waits for the ownership write lease.
StartRetire ==
    /\ session = "live"
    /\ session' = "retiring"
    /\ UNCHANGED <<stream, swapping, missionEntry, aircraftEntry>>

\* The session is marked retired; its binding is kept.
RetireSession ==
    /\ session = "retiring"
    /\ ~swapping
    /\ session' = "retired"
    /\ UNCHANGED <<stream, swapping, missionEntry, aircraftEntry>>
=============================================================================
