--------------------------- MODULE AircraftCommand ---------------------------
(***************************************************************************)
(* SendAircraftCommand: ARM and DISARM (internal/relay/apiserver.go).      *)
(*                                                                         *)
(* The first call with a command ID allocates its aircraftCommandState and *)
(* starts a delivery task, which holds the ownership lease and the control *)
(* lease until Send has returned.  Every other exact call attaches to the  *)
(* retained state, finished or not: an ARM is never delivered twice.       *)
(***************************************************************************)
EXTENDS CommandSession

VARIABLES
    armCall,        \* program counter of each SendAircraftCommand
    armState,       \* the state the call waits on
    armOutcome,     \* how the state completed, "open" until then
    armWaiters,     \* state.waiters
    armStream,      \* the binding that was active when the state was admitted
    armDelivery,    \* program counter of the delivery task of the state
    armSentOn       \* the binding Send was invoked on, 0 before

aircraftVars == <<armCall, armState, armOutcome, armWaiters, armStream,
                  armDelivery, armSentOn>>

ArmOutcome == {"unmade", "open", "result", "sendError", "left", "aborted"}

AircraftTypeOK ==
    /\ armCall \in [AircraftCall -> {"idle", "waiting", "ended"}]
    /\ armState \in [AircraftCall -> AircraftCall \cup {None}]
    /\ armOutcome \in [AircraftCall -> ArmOutcome]
    /\ armWaiters \in [AircraftCall -> Nat]
    /\ armStream \in [AircraftCall -> 0 .. MaxStream]
    /\ armDelivery \in [AircraftCall -> {"none", "pending", "checked", "sending",
                                     "ended"}]
    /\ armSentOn \in [AircraftCall -> 0 .. MaxStream]

\* The calls in issued are about to be made.
AircraftInit(issued) ==
    /\ armCall = [c \in AircraftCall |->
                     IF c \in issued THEN "idle" ELSE "ended"]
    /\ armState = [c \in AircraftCall |-> None]
    /\ armOutcome = [c \in AircraftCall |-> "unmade"]
    /\ armWaiters = [c \in AircraftCall |-> 0]
    /\ armStream = [c \in AircraftCall |-> 0]
    /\ armDelivery = [c \in AircraftCall |-> "none"]
    /\ armSentOn = [c \in AircraftCall |-> 0]

\* Delivery tasks, which hold both read leases.
ArmDelivering ==
    {g \in AircraftCall : armDelivery[g] \in {"pending", "checked", "sending"}}

ArmOpen(g) == armOutcome[g] = "open"

----------------------------------------------------------------------------
(* The call.                                                               *)

\* The session has gone, the ID belongs to a mission, or the table is full.
SendRefused(c) ==
    /\ armCall[c] = "idle"
    /\ OwnershipReadable
    /\ \/ ~CurrentSession
       \/ ControlReadable /\ (~AircraftIdFree \/ aircraftEntry = None)
    /\ armCall' = [armCall EXCEPT ![c] = "ended"]
    /\ UNCHANGED <<armState, armOutcome, armWaiters, armStream, armDelivery,
                   armSentOn, sessionVars>>

\* beginAircraftCommandDelivery may admit the command.
MayBegin(c) ==
    /\ armCall[c] = "idle"
    /\ OwnershipReadable /\ CurrentSession /\ ControlReadable
    /\ AircraftIdFree

\* An exact retry attaches to the retained state.
SendAttaches(c) ==
    /\ MayBegin(c)
    /\ aircraftEntry # None
    /\ armCall' = [armCall EXCEPT ![c] = "waiting"]
    /\ armState' = [armState EXCEPT ![c] = aircraftEntry]
    /\ armWaiters' = [armWaiters EXCEPT ![aircraftEntry] = @ + 1]
    /\ UNCHANGED <<armOutcome, armStream, armDelivery, armSentOn,
                   sessionVars>>

\* A new state is admitted under the binding fence; its delivery task takes
\* over the leases.
SendBegins(c) ==
    /\ MayBegin(c)
    /\ aircraftEntry = None
    /\ aircraftEntry' = c
    /\ armCall' = [armCall EXCEPT ![c] = "waiting"]
    /\ armState' = [armState EXCEPT ![c] = c]
    /\ armOutcome' = [armOutcome EXCEPT ![c] = "open"]
    /\ armWaiters' = [armWaiters EXCEPT ![c] = 1]
    /\ armStream' = [armStream EXCEPT ![c] = stream]
    /\ armDelivery' = [armDelivery EXCEPT ![c] = "pending"]
    /\ UNCHANGED <<armSentOn, bindingVars, missionEntry>>

\* takeAircraftCommandResult: state.done is closed.
SendReturns(c) ==
    /\ armCall[c] = "waiting"
    /\ ~ArmOpen(armState[c])
    /\ armCall' = [armCall EXCEPT ![c] = "ended"]
    /\ armState' = [armState EXCEPT ![c] = None]
    /\ armWaiters' = [armWaiters EXCEPT
                        ![armState[c]] = IF @ > 0 THEN @ - 1 ELSE 0]
    /\ UNCHANGED <<armOutcome, armStream, armDelivery, armSentOn,
                   sessionVars>>

\* Mutant of LastArmWaiter: the count is read before the caller is taken off.
NobodyAwaitsArm(g) == armWaiters[g] = 0

LastArmWaiter(g) == armWaiters[g] <= 1

\* cancelAircraftCommandWaiter: the caller's context ended.  Only the last
\* waiter completes the state, which also cancels an unsent delivery.
SendGivesUp(c) ==
    /\ armCall[c] = "waiting"
    /\ LET g == armState[c]
           left == IF armWaiters[g] > 0 THEN armWaiters[g] - 1 ELSE 0
           retained == aircraftEntry = g
       IN /\ armWaiters' = [armWaiters EXCEPT
                ![g] = IF retained THEN left ELSE @]
          /\ armOutcome' = [armOutcome EXCEPT
                ![g] = IF retained /\ LastArmWaiter(g) /\ ArmOpen(g)
                       THEN "left" ELSE @]
    /\ armCall' = [armCall EXCEPT ![c] = "ended"]
    /\ armState' = [armState EXCEPT ![c] = None]
    /\ UNCHANGED <<armStream, armDelivery, armSentOn, sessionVars>>

----------------------------------------------------------------------------
(* The delivery task.                                                      *)

\* finishAircraftCommand
FinishArm(g, outcome) ==
    armOutcome' = [armOutcome EXCEPT
        ![g] = IF aircraftEntry = g /\ ArmOpen(g) THEN outcome ELSE @]

\* deliveryCancel ran.  A result completes the state without it.
ArmCancelled(g) == armOutcome[g] \in {"sendError", "left", "aborted"}

\* The context ended before the task came to its last test of it.
ArmDropped(g) ==
    /\ armDelivery[g] = "pending"
    /\ ArmCancelled(g)
    /\ armDelivery' = [armDelivery EXCEPT ![g] = "ended"]
    /\ FinishArm(g, "sendError")
    /\ UNCHANGED <<armCall, armState, armWaiters, armStream, armSentOn,
                   sessionVars>>

\* The task owns sendMu and its context is live.
ArmChecked(g) ==
    /\ armDelivery[g] = "pending"
    /\ ~ArmCancelled(g)
    /\ armDelivery' = [armDelivery EXCEPT ![g] = "checked"]
    /\ UNCHANGED <<armCall, armState, armOutcome, armWaiters, armStream,
                   armSentOn, sessionVars>>

\* Send is invoked: a cancellation since the test comes too late.
ArmSends(g) ==
    /\ armDelivery[g] = "checked"
    /\ armDelivery' = [armDelivery EXCEPT ![g] = "sending"]
    /\ armSentOn' = [armSentOn EXCEPT ![g] = stream]
    /\ UNCHANGED <<armCall, armState, armOutcome, armWaiters, armStream,
                   sessionVars>>

\* Send returns and the leases are released.
ArmSent(g) ==
    /\ armDelivery[g] = "sending"
    /\ armDelivery' = [armDelivery EXCEPT ![g] = "ended"]
    /\ \/ UNCHANGED armOutcome
       \/ FinishArm(g, "sendError")
    /\ UNCHANGED <<armCall, armState, armWaiters, armStream, armSentOn,
                   sessionVars>>

\* handleAircraftCommandResultFrom: a result on the active binding, which the
\* Agent sends for a command it received there.
ArmResult ==
    /\ ControlReadable
    /\ \E g \in AircraftCall : armSentOn[g] = stream
    /\ aircraftEntry # None
    /\ ArmOpen(aircraftEntry)
    /\ armOutcome' = [armOutcome EXCEPT ![aircraftEntry] = "result"]
    /\ UNCHANGED <<armCall, armState, armWaiters, armStream, armDelivery,
                   armSentOn, sessionVars>>

\* The aircraft part of abortPendingCommandsForStreamReplacement and of
\* abortPendingCommandsLocked; the retained state is the only one still open.
AbortArms ==
    armOutcome' = [g \in AircraftCall |->
        IF aircraftEntry = g /\ ArmOpen(g) THEN "aborted" ELSE armOutcome[g]]

\* expireAircraftCommandsLocked and makeAircraftCommandRoomLocked, run by the
\* admission of any command, drop a completed state.
ForgetArm ==
    /\ aircraftEntry # None
    /\ ~ArmOpen(aircraftEntry)
    /\ CurrentSession /\ ControlReadable
    /\ aircraftEntry' = None
    /\ UNCHANGED <<bindingVars, missionEntry, aircraftVars>>

AircraftStep(c) ==
    \/ SendRefused(c) \/ SendAttaches(c) \/ SendBegins(c)
    \/ SendReturns(c) \/ SendGivesUp(c)
    \/ ArmDropped(c) \/ ArmChecked(c) \/ ArmSends(c) \/ ArmSent(c)

----------------------------------------------------------------------------
(* Properties.                                                             *)

\* A running command has exactly the waiters that are still there, and at least
\* one: the last caller to leave completes it (cancelAircraftCommandWaiter), so
\* no vehicle command stays pending for nobody, and none is ended by a caller
\* while another still waits.
ArmIsAwaited ==
    \A g \in AircraftCall : ArmOpen(g) =>
        /\ aircraftEntry = g
        /\ armWaiters[g] = Cardinality({c \in AircraftCall :
                                armCall[c] = "waiting" /\ armState[c] = g})
        /\ armWaiters[g] > 0

\* ARM and DISARM go to the binding that was active when they were admitted and
\* are not queued across a replacement; a command still waiting for its result
\* waits on the active binding (the control fence, abortPendingCommands).
ArmStaysOnItsBinding ==
    \A g \in AircraftCall :
        /\ armSentOn[g] # 0 => armSentOn[g] = armStream[g]
        /\ ArmOpen(g) => armStream[g] = stream
=============================================================================
