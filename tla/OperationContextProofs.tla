----------------------- MODULE OperationContextProofs -----------------------
(***************************************************************************)
(* OperationContext implements StreamLifecycle: whatever the control calls *)
(* and the Agent do, the sessions and streams behave as StreamLifecycle    *)
(* says, so its invariants hold in the composed system as well.            *)
(***************************************************************************)
EXTENDS OperationContext, StreamLifecycleProofs

\* A step of a handler is one of its lifecycle steps or leaves sessions and
\* streams alone.
LEMMA StreamStepSimulation ==
    ASSUME NEW b \in Stream, StreamStep(b)
    PROVE  LifecycleNext \/ UNCHANGED lifecycleVars
<1>1. CASE UpdateStream(b) \/ Publication(b) \/ SwapStream(b) \/ EndStream(b)
           \/ CleanUp(b)
  BY <1>1 DEF UpdateStream, Publication, SwapStream, EndStream, CleanUp, LifecycleNext
<1>2. CASE AdmitFrame(b) \/ RouteFrame(b)
  BY <1>2 DEF AdmitFrame, RouteFrame, LifecycleNext
<1>3. CASE ReceiveAck(b) \/ DeclineFrame(b)
  BY <1>3 DEF ReceiveAck, DeclineFrame
<1> QED BY <1>1, <1>2, <1>3 DEF StreamStep

\* A step of a Set/Clear call leaves sessions and streams alone.
LEMMA RpcStepSimulation ==
    ASSUME NEW r \in Rpc, GiveUp(r) \/ RpcStep(r) \/ Deadline(r)
    PROVE  UNCHANGED lifecycleVars
  BY DEF GiveUp, Deadline, RpcStep, AcquireGate, Admit, FailUnsent, WriteCommand,
         WriteReturns, Return

\* Every step of the composed system is a lifecycle step or a stutter.
LEMMA StepSimulation == [Next]_vars => [LifecycleNext]_lifecycleVars
<1> SUFFICES ASSUME [Next]_vars PROVE LifecycleNext \/ UNCHANGED lifecycleVars
  OBVIOUS
<1>1. ASSUME NEW s \in Session,
             BeginRegister(s) \/ AbandonRegister(s) \/ RestartRegister(s) \/ Register(s)
      PROVE LifecycleNext
  BY <1>1 DEF BeginRegister, AbandonRegister, RestartRegister, Register,
              LifecycleNext, RegisterProceeds
<1>2. ASSUME NEW b \in Stream, NEW s \in Session, ConnectStream(b, s)
      PROVE LifecycleNext
  BY <1>2 DEF ConnectStream, LifecycleNext
<1>3. CASE Crash
  BY <1>3 DEF Crash, LifecycleNext
<1>4. CASE ForgetSnapshot \/ AgentApplies \/ AgentAnswersOnly \/ AgentSendsFrame
  BY <1>4 DEF ForgetSnapshot, AgentApplies, AgentAnswersOnly, AgentSendsFrame
<1>5. ASSUME NEW r \in Rpc, NEW q \in Request, Call(r, q)
      PROVE UNCHANGED lifecycleVars
  BY <1>5 DEF Call
<1>6. CASE UNCHANGED vars
  BY <1>6 DEF vars
<1> QED
  BY <1>1, <1>2, <1>3, <1>4, <1>5, <1>6, StreamStepSimulation, RpcStepSimulation
  DEF Next

\* The composed system implements the lifecycle specification.
THEOREM ImplementsLifecycle == Spec => LifecycleSpec
<1>1. Init => LifecycleInit
  BY DEF Init
<1> QED BY <1>1, StepSimulation, PTL DEF Spec, LifecycleSpec

\* With commands, acknowledgements and the Agent around them, frames are still
\* routed and placements published only for the session in the map.
THEOREM ControlledLease == Spec => []LeaseImpliesOwnership
  BY ImplementsLifecycle, LeaseSafety, PTL

----------------------------------------------------------------------------
(* One command at a time, on the live binding.  The gate makes its holder  *)
(* unique; a pending command always has its owner among the holders, so    *)
(* there is one at most; and it is aborted in the very step that replaces  *)
(* the binding or retires the session.                                     *)

GatePc == {"admit", "send", "sent", "await"}

\* The calls in progress carry a session and a request; an owner is past
\* admission.
Calls ==
    /\ rpc \in [Rpc -> RpcState]
    /\ \A r \in Rpc : rpc[r].pc # "idle" =>
          /\ rpc[r].session \in Session
          /\ rpc[r].request \in Request
          /\ rpc[r].owner => rpc[r].pc \in {"send", "sent", "await"}

\* A pending command is filed under the ID of its request.
Commands ==
    /\ command \in [Session -> [Command -> CommandState]]
    /\ \A s \in Session, c \in Command : command[s][c].phase = "pending" =>
          /\ command[s][c].request \in Request
          /\ command[s][c].request.id = c

\* Acknowledged and cached contexts are contexts.
Contexts ==
    /\ context \in [Session -> Context]
    /\ reconnect # None => reconnect.context \in Context

GateExcludes == \A s \in Session : \A r, q \in GateHolders(s) : r = q

ControlInductive ==
    /\ Inductive
    /\ Calls
    /\ Commands
    /\ Contexts
    /\ GateExcludes
    /\ PendingOnLiveBinding

\* An idle call and an unused command ID are of their types.
LEMMA NullsTyped ==
    /\ IdleRpc \in RpcState
    /\ NoCommand \in CommandState
    /\ \A q \in Request, f \in Context : NewCommand(q, f) \in CommandState
    /\ \A q \in Request : q.id \in Command
  BY DEF IdleRpc, RpcState, RpcPc, NoCommand, CommandState, Phase, NewCommand, Context,
         Command

\* Completing a command keeps its request, and it is pending no longer.
LEMMA CompleteTyped ==
    ASSUME NEW state \in CommandState, NEW phase \in Completed
    PROVE  /\ Complete(state, phase) \in CommandState
           /\ Complete(state, phase).phase # "pending"
  BY DEF Complete, CommandState, Phase, Completed, NoCommand, Context

\* Aborting leaves no pending command.
LEMMA AbortTyped ==
    ASSUME Commands, NEW s \in Session
    PROVE  /\ AbortPending(s) \in [Command -> CommandState]
           /\ \A c \in Command : AbortPending(s)[c].phase # "pending"
<1>1. "retryable" \in Completed
  BY DEF Completed
<1> QED BY <1>1, CompleteTyped DEF AbortPending, Commands

\* Forgetting completed outcomes touches no pending command.
LEMMA RetainedTyped ==
    ASSUME Commands, NEW s \in Session,
           NEW expired \in SUBSET {c \in Command : command[s][c].phase \in Completed}
    PROVE  /\ Retained(s, expired) \in [Command -> CommandState]
           /\ \A c \in Command :
                 \/ Retained(s, expired)[c] = command[s][c]
                 \/ Retained(s, expired)[c].phase = "absent"
           /\ \A c \in Command : command[s][c].phase = "pending" =>
                 Retained(s, expired)[c] = command[s][c]
  BY NullsTyped DEF Retained, Commands, Completed, NoCommand

\* The actions of sessions, streams and Agent other than Crash leave calls alone.
LEMMA CallsFrame ==
    ASSUME Next, ~Crash,
           \A r \in Rpc : ~GiveUp(r) /\ ~RpcStep(r) /\ ~Deadline(r),
           \A r \in Rpc, q \in Request : ~Call(r, q)
    PROVE  UNCHANGED rpc
<1>1. ASSUME NEW s \in Session,
             BeginRegister(s) \/ AbandonRegister(s) \/ RestartRegister(s) \/ Register(s)
      PROVE UNCHANGED rpc
  BY <1>1 DEF BeginRegister, AbandonRegister, RestartRegister, Register, controlVars
<1>2. ASSUME NEW b \in Stream, NEW s \in Session, ConnectStream(b, s)
      PROVE UNCHANGED rpc
  BY <1>2 DEF ConnectStream, controlVars
<1>3. ASSUME NEW b \in Stream, StreamStep(b) PROVE UNCHANGED rpc
  BY <1>3 DEF StreamStep, UpdateStream, Publication, SwapStream, EndStream, CleanUp,
              ReceiveAck, DeclineFrame, AdmitFrame, RouteFrame, controlVars
<1>4. CASE ForgetSnapshot \/ AgentApplies \/ AgentAnswersOnly \/ AgentSendsFrame
  BY <1>4 DEF ForgetSnapshot, AgentApplies, AgentAnswersOnly, AgentSendsFrame,
              controlVars
<1> QED BY <1>1, <1>2, <1>3, <1>4 DEF Next

\* Calls stay well formed.
LEMMA CallsStep == ControlInductive /\ [Next]_vars => Calls'
<1> SUFFICES ASSUME ControlInductive, [Next]_vars PROVE Calls'
  OBVIOUS
<1> USE DEF ControlInductive, Calls, RpcState, RpcPc
<1>1. ASSUME NEW r \in Rpc, NEW q \in Request, Call(r, q) PROVE Calls'
  BY <1>1, NoneAssumption DEF Call, Inductive, TypeOK
<1>2. ASSUME NEW r \in Rpc, GiveUp(r) PROVE Calls'
  BY <1>2, NullsTyped DEF GiveUp, IdleRpc
<1>3. ASSUME NEW r \in Rpc, AcquireGate(r) PROVE Calls'
  <2>1. CASE rpc' = [rpc EXCEPT ![r] = IdleRpc]
    BY <2>1, NullsTyped DEF IdleRpc
  <2>2. CASE rpc' = [rpc EXCEPT ![r].pc = "admit"]
    BY <1>3, <2>2 DEF AcquireGate
  <2> QED BY <1>3, <2>1, <2>2 DEF AcquireGate
<1>4. ASSUME NEW r \in Rpc, Admit(r) PROVE Calls'
  <2>1. CASE rpc' = [rpc EXCEPT ![r] = IdleRpc]
    BY <2>1, NullsTyped DEF IdleRpc
  <2>2. CASE rpc' = [rpc EXCEPT ![r].pc = "await"]
    BY <1>4, <2>2 DEF Admit
  <2>3. CASE rpc' = [rpc EXCEPT ![r].pc = "send", ![r].owner = TRUE]
    BY <1>4, <2>3 DEF Admit
  <2> QED
    BY <1>4, <2>1, <2>2, <2>3 DEF Admit, RefuseAdmission, Finish, AttachToKnown, OwnAttempt
<1>5. ASSUME NEW r \in Rpc, FailUnsent(r) \/ WriteCommand(r) PROVE Calls'
  BY <1>5 DEF FailUnsent, WriteCommand
<1>6. ASSUME NEW r \in Rpc, NEW failed \in BOOLEAN, WriteReturns(r, failed)
      PROVE Calls'
  BY <1>6 DEF WriteReturns
<1>7. ASSUME NEW r \in Rpc, Deadline(r) PROVE Calls'
  BY <1>7 DEF Deadline
<1>8. ASSUME NEW r \in Rpc, Return(r) PROVE Calls'
  BY <1>8, NullsTyped DEF Return, Finish, IdleRpc
<1>9. CASE Crash
  BY <1>9, NullsTyped DEF Crash, IdleRpc
<1>10. CASE UNCHANGED rpc
  BY <1>10
<1> QED
  BY <1>1, <1>2, <1>3, <1>4, <1>5, <1>6, <1>7, <1>8, <1>9, <1>10, CallsFrame
  DEF RpcStep, vars, controlVars

\* The gate admits one call of a session at a time.
LEMMA GateStep == ControlInductive /\ [Next]_vars => GateExcludes'
<1> SUFFICES ASSUME ControlInductive, [Next]_vars PROVE GateExcludes'
  OBVIOUS
<1> USE DEF ControlInductive, Calls, RpcState, RpcPc, GateExcludes, GateHolders
<1>1. ASSUME NEW r \in Rpc, NEW q \in Request, Call(r, q) PROVE GateExcludes'
  BY <1>1 DEF Call
<1>2. ASSUME NEW r \in Rpc, GiveUp(r) PROVE GateExcludes'
  BY <1>2 DEF GiveUp, IdleRpc
<1>3. ASSUME NEW r \in Rpc, AcquireGate(r) PROVE GateExcludes'
  BY <1>3 DEF AcquireGate, IdleRpc, GateFree
<1>4. ASSUME NEW r \in Rpc, Admit(r) PROVE GateExcludes'
  BY <1>4 DEF Admit, RefuseAdmission, Finish, AttachToKnown, OwnAttempt, IdleRpc
<1>5. ASSUME NEW r \in Rpc, FailUnsent(r) \/ WriteCommand(r) PROVE GateExcludes'
  BY <1>5 DEF FailUnsent, WriteCommand
<1>6. ASSUME NEW r \in Rpc, NEW failed \in BOOLEAN, WriteReturns(r, failed)
      PROVE GateExcludes'
  BY <1>6 DEF WriteReturns
<1>7. ASSUME NEW r \in Rpc, Deadline(r) PROVE GateExcludes'
  BY <1>7 DEF Deadline
<1>8. ASSUME NEW r \in Rpc, Return(r) PROVE GateExcludes'
  BY <1>8 DEF Return, Finish, IdleRpc
<1>9. CASE Crash
  BY <1>9 DEF Crash, IdleRpc
<1>10. CASE UNCHANGED rpc
  BY <1>10
<1> QED
  BY <1>1, <1>2, <1>3, <1>4, <1>5, <1>6, <1>7, <1>8, <1>9, <1>10, CallsFrame
  DEF RpcStep, vars, controlVars

\* Replacing the command state a call works on.
LEMMA SetStateCommands ==
    ASSUME Commands, Calls, NEW r \in Rpc, rpc[r].pc # "idle",
           NEW state \in CommandState, SetState(r, state),
           state.phase = "pending" => /\ state.request \in Request
                                      /\ state.request.id = rpc[r].request.id
    PROVE  Commands'
<1>1. rpc[r].session \in Session /\ rpc[r].request.id \in Command
  BY NullsTyped DEF Calls
<1> QED BY <1>1 DEF Commands, SetState

\* The command state a call works on is of its type.
LEMMA StateOfTyped ==
    ASSUME Commands, Calls, NEW r \in Rpc, rpc[r].pc # "idle"
    PROVE  /\ StateOf(r) \in CommandState
           /\ StateOf(r).phase = "pending" =>
                 /\ StateOf(r).request \in Request
                 /\ StateOf(r).request.id = rpc[r].request.id
<1>1. rpc[r].session \in Session /\ rpc[r].request.id \in Command
  BY NullsTyped DEF Calls
<1> QED BY <1>1 DEF Commands, StateOf

\* A command that completes is of its type and files nothing new.
LEMMA CompleteCommands ==
    ASSUME Commands, Calls, NEW r \in Rpc, rpc[r].pc # "idle",
           SetState(r, Complete(StateOf(r), "retryable"))
    PROVE  Commands'
<1>1. "retryable" \in Completed
  BY DEF Completed
<1>2. /\ Complete(StateOf(r), "retryable") \in CommandState
      /\ Complete(StateOf(r), "retryable").phase # "pending"
  BY <1>1, StateOfTyped, CompleteTyped
<1> QED BY <1>2, SetStateCommands

\* Replacing all commands of a session by its aborted ones.
LEMMA AbortCommands ==
    ASSUME Commands, NEW s \in Session,
           command' = [command EXCEPT ![s] = AbortPending(s)]
    PROVE  /\ Commands'
           /\ \A c \in Command : command'[s][c].phase # "pending"
           /\ \A t \in Session : t # s => command'[t] = command[t]
  BY AbortTyped DEF Commands

\* The actions that leave every command alone.
CommandsUntouched ==
    \/ \E s \in Session : BeginRegister(s) \/ AbandonRegister(s) \/ RestartRegister(s)
    \/ \E b \in Stream, s \in Session : ConnectStream(b, s)
    \/ \E b \in Stream : \/ Publication(b) \/ EndStream(b) \/ DeclineFrame(b)
                         \/ AdmitFrame(b) \/ RouteFrame(b)
    \/ ForgetSnapshot \/ AgentApplies \/ AgentAnswersOnly \/ AgentSendsFrame

\* They leave calls, accepted bindings and ownership alone as well.
LEMMA UntouchedFrame ==
    ASSUME CommandsUntouched
    PROVE  UNCHANGED <<command, rpc, stream, grpcSession, retired>>
<1>1. CASE \E s \in Session : BeginRegister(s) \/ AbandonRegister(s) \/ RestartRegister(s)
  BY <1>1 DEF BeginRegister, AbandonRegister, RestartRegister, StartRegister,
              CancelRegister, RetryRegister, controlVars
<1>2. CASE \E b \in Stream, s \in Session : ConnectStream(b, s)
  BY <1>2 DEF ConnectStream, OpenStream, controlVars
<1>3. ASSUME NEW b \in Stream, Publication(b)
      PROVE UNCHANGED <<command, rpc, stream, grpcSession, retired>>
  BY <1>3 DEF Publication, PublishBegin, PublishFail, PublishOk, controlVars
<1>4. ASSUME NEW b \in Stream,
             EndStream(b) \/ DeclineFrame(b) \/ AdmitFrame(b) \/ RouteFrame(b)
      PROVE UNCHANGED <<command, rpc, stream, grpcSession, retired>>
  BY <1>4 DEF EndStream, DeclineFrame, AdmitFrame, RouteFrame, StreamEnds, BeginFrame,
              EndFrame, lifecycleVars, controlVars
<1>5. CASE ForgetSnapshot \/ AgentApplies \/ AgentAnswersOnly \/ AgentSendsFrame
  BY <1>5 DEF ForgetSnapshot, AgentApplies, AgentAnswersOnly, AgentSendsFrame,
              lifecycleVars, controlVars
<1> QED BY <1>1, <1>2, <1>3, <1>4, <1>5 DEF CommandsUntouched

\* What Admit does to the command table of its session.
LEMMA AdmitCommands ==
    ASSUME ControlInductive, NEW r \in Rpc, Admit(r)
    PROVE  /\ Commands'
           /\ \A s \in Session : s # rpc[r].session => command'[s] = command[s]
           /\ \A c \in Command : command'[rpc[r].session][c].phase = "pending" =>
                 \/ command'[rpc[r].session][c] = command[rpc[r].session][c]
                 \/ /\ c = rpc[r].request.id
                    /\ command'[rpc[r].session][c].on = None
                    /\ command'[rpc[r].session][c].request = rpc[r].request
                    /\ grpcSession = rpc[r].session
                    /\ rpc' = [rpc EXCEPT ![r].pc = "send", ![r].owner = TRUE]
<1> DEFINE s == rpc[r].session
           q == rpc[r].request
<1>1. s \in Session /\ q \in Request /\ q.id \in Command
  BY NullsTyped DEF ControlInductive, Calls, Admit
<1>2. PICK expired \in SUBSET {c \in Command : command[s][c].phase \in Completed} :
         \/ RefuseAdmission(r, expired)
         \/ AttachToKnown(r, expired)
         \/ OwnAttempt(r, expired)
  BY DEF Admit
<1> DEFINE kept == Retained(s, expired)
<1>3. /\ kept \in [Command -> CommandState]
      /\ \A c \in Command : kept[c] = command[s][c] \/ kept[c].phase = "absent"
  BY <1>1, RetainedTyped DEF ControlInductive
<1> HIDE DEF kept
<1>4. CASE command' = [command EXCEPT ![s] = kept]
  BY <1>1, <1>3, <1>4 DEF Commands, ControlInductive
<1>5. CASE OwnAttempt(r, expired)
  <2> DEFINE new == NewCommand(q, Expected(s, q))
  <2>1. Expected(s, q) \in Context
    BY <1>1, RequestAssumption
    DEF Expected, Context, Kind, ControlInductive, Contexts
  <2>2. new \in CommandState /\ new.request = q /\ new.on = None
    BY <1>1, <2>1, NullsTyped DEF NewCommand
  <2>3. /\ command' = [command EXCEPT ![s] = [kept EXCEPT ![q.id] = new]]
        /\ grpcSession = s
        /\ rpc' = [rpc EXCEPT ![r].pc = "send", ![r].owner = TRUE]
    BY <1>5 DEF OwnAttempt, kept
  <2> HIDE DEF new, s, q
  <2>4. /\ command'[s] = [kept EXCEPT ![q.id] = new]
        /\ \A t \in Session : t # s => command'[t] = command[t]
        /\ command' \in [Session -> [Command -> CommandState]]
    BY <1>1, <1>3, <2>2, <2>3 DEF Commands, ControlInductive
  <2>5. \A c \in Command : command'[s][c] = IF c = q.id THEN new ELSE kept[c]
    BY <1>1, <1>3, <2>4
  <2>6. Commands'
    BY <1>1, <1>3, <2>2, <2>4, <2>5 DEF Commands, ControlInductive
  <2> QED BY <1>1, <1>3, <2>2, <2>3, <2>4, <2>5, <2>6 DEF s, q
<1> QED BY <1>2, <1>4, <1>5 DEF RefuseAdmission, AttachToKnown, kept

\* Contexts stay contexts.
LEMMA ContextsStep == ControlInductive /\ [Next]_vars => Contexts'
<1> SUFFICES ASSUME ControlInductive, [Next]_vars PROVE Contexts'
  OBVIOUS
<1> USE DEF ControlInductive, Contexts
<1>1. ASSUME NEW s \in Session, Register(s) PROVE Contexts'
  <2>1. Inherited(s).context \in Context
    BY DEF Inherited, FreshContext, SnapshotOf, Context, Inductive, TypeOK
  <2> QED BY <1>1, <2>1 DEF Register
<1>2. ASSUME NEW b \in Stream, CleanUp(b) PROVE Contexts'
  <2>1. boundTo[b] \in Session
    BY <1>2 DEF CleanUp, DeleteStream, Inductive, Handlers
  <2>2. SnapshotOf(boundTo[b]).context \in Context
    BY <2>1 DEF SnapshotOf
  <2> QED BY <1>2, <2>2 DEF CleanUp
<1>3. ASSUME NEW b \in Stream, ReceiveAck(b) PROVE Contexts'
  <2>1. boundTo[b] \in Session
    BY <1>3 DEF ReceiveAck, Inductive, Handlers
  <2>2. ASSUME NEW c \in PendingCommands(boundTo[b])
        PROVE command[boundTo[b]][c].expected \in Context
    BY <2>1, <2>2 DEF PendingCommands, Commands, CommandState
  <2> QED BY <1>3, <2>1, <2>2 DEF ReceiveAck, CorrelateAck
<1>4. CASE Crash \/ ForgetSnapshot
  BY <1>4 DEF Crash, ForgetSnapshot, Context
<1>5. ASSUME NEW r \in Rpc, GiveUp(r) \/ RpcStep(r) \/ Deadline(r) PROVE Contexts'
  BY <1>5 DEF GiveUp, Deadline, RpcStep, AcquireGate, Admit, FailUnsent, WriteCommand,
              WriteReturns, Return
<1>6. ASSUME NEW r \in Rpc, NEW q \in Request, Call(r, q) PROVE Contexts'
  BY <1>6 DEF Call
<1>7. ASSUME NEW b \in Stream, UpdateStream(b) \/ SwapStream(b) PROVE Contexts'
  BY <1>7 DEF UpdateStream, SwapStream
<1>8. CASE CommandsUntouched
  BY <1>8 DEF CommandsUntouched, BeginRegister, AbandonRegister, RestartRegister,
              ConnectStream, Publication, EndStream, DeclineFrame, AdmitFrame, RouteFrame,
              ForgetSnapshot, AgentApplies, AgentAnswersOnly, AgentSendsFrame, controlVars
<1>9. CASE UNCHANGED vars
  BY <1>9 DEF vars, controlVars
<1> QED
  BY <1>1, <1>2, <1>3, <1>4, <1>5, <1>6, <1>7, <1>8, <1>9
  DEF Next, StreamStep, CommandsUntouched

\* Commands stay well formed.
LEMMA CommandsStep == ControlInductive /\ [Next]_vars => Commands'
<1> SUFFICES ASSUME ControlInductive, [Next]_vars PROVE Commands'
  OBVIOUS
<1> USE DEF ControlInductive
<1>1. ASSUME NEW s \in Session, Register(s) PROVE Commands'
  <2>1. CASE previous[s] = None
    BY <1>1, <2>1 DEF Register, Commands
  <2>2. CASE previous[s] # None
    BY <1>1, <2>2, AbortCommands DEF Register, Inductive, TypeOK
  <2> QED BY <2>1, <2>2
<1>2. ASSUME NEW b \in Stream, UpdateStream(b) \/ SwapStream(b) \/ CleanUp(b)
      PROVE Commands'
  <2>1. boundTo[b] \in Session
    BY <1>2 DEF UpdateStream, SwapStream, CleanUp, BindStream, ActivateStream,
                DeleteStream, Inductive, Handlers
  <2>2. \/ UNCHANGED command
        \/ command' = [command EXCEPT ![boundTo[b]] = AbortPending(boundTo[b])]
    BY <1>2 DEF UpdateStream, SwapStream, CleanUp, AbortForReplacement
  <2> QED BY <2>1, <2>2, AbortCommands DEF Commands
<1>3. ASSUME NEW b \in Stream, ReceiveAck(b) PROVE Commands'
  <2> DEFINE s == boundTo[b]
             c == Received(b).id
  <2>1. s \in Session
    BY <1>3 DEF ReceiveAck, Inductive, Handlers
  <2>2. CASE UNCHANGED command
    BY <2>2 DEF Commands
  <2>3. CASE c \in PendingCommands(s) /\ CorrelateAck(s, Received(b))
    <3>1. PICK phase \in Completed :
            command' = [command EXCEPT ![s][c] = Complete(command[s][c], phase)]
      BY <2>3 DEF CorrelateAck, Completed
    <3>2. c \in Command /\ command[s][c] \in CommandState
      BY <2>1, <2>3 DEF PendingCommands, Commands
    <3>3. /\ Complete(command[s][c], phase) \in CommandState
          /\ Complete(command[s][c], phase).phase # "pending"
      BY <3>2, CompleteTyped
    <3> QED BY <2>1, <3>1, <3>2, <3>3 DEF Commands
  <2> QED BY <1>3, <2>2, <2>3 DEF ReceiveAck
<1>4. ASSUME NEW r \in Rpc, Admit(r) PROVE Commands'
  BY <1>4, AdmitCommands
<1>5. ASSUME NEW r \in Rpc, FailUnsent(r) \/ Deadline(r) PROVE Commands'
  BY <1>5, CompleteCommands DEF FailUnsent, Deadline
<1>6. ASSUME NEW r \in Rpc, WriteCommand(r) PROVE Commands'
  <2>1. stream[rpc[r].session] \in Stream /\ rpc[r].pc # "idle"
    BY <1>6 DEF WriteCommand, Calls, Inductive, TypeOK
  <2>2. StateOf(r) \in CommandState
    BY <2>1, StateOfTyped
  <2> DEFINE new == [StateOf(r) EXCEPT !.on = stream[rpc[r].session]]
  <2>3. /\ new \in CommandState
        /\ new.phase = StateOf(r).phase /\ new.request = StateOf(r).request
    BY <2>1, <2>2 DEF CommandState
  <2>4. SetState(r, new)
    BY <1>6 DEF WriteCommand
  <2> HIDE DEF new
  <2> QED BY <2>1, <2>3, <2>4, StateOfTyped, SetStateCommands
<1>7. ASSUME NEW r \in Rpc, NEW failed \in BOOLEAN, WriteReturns(r, failed)
      PROVE Commands'
  <2>1. rpc[r].pc # "idle"
    BY <1>7 DEF WriteReturns
  <2>2. StateOf(r) \in CommandState
    BY <2>1, StateOfTyped
  <2> DEFINE new == [StateOf(r) EXCEPT !.delivered = TRUE]
  <2>3. /\ new \in CommandState
        /\ new.phase = StateOf(r).phase /\ new.request = StateOf(r).request
    BY <2>2 DEF CommandState
  <2>4. \/ UNCHANGED command
        \/ SetState(r, new)
        \/ SetState(r, Complete(StateOf(r), "retryable"))
    BY <1>7 DEF WriteReturns
  <2> HIDE DEF new
  <2>5. CASE UNCHANGED command
    BY <2>5 DEF Commands
  <2>6. CASE SetState(r, new)
    BY <2>1, <2>3, <2>6, StateOfTyped, SetStateCommands
  <2>7. CASE SetState(r, Complete(StateOf(r), "retryable"))
    BY <2>1, <2>7, CompleteCommands
  <2> QED BY <2>4, <2>5, <2>6, <2>7
<1>8. CASE Crash
  BY <1>8, NullsTyped DEF Crash, Commands, NoCommand
<1>9. CASE UNCHANGED command
  BY <1>9 DEF Commands
<1>10. ASSUME NEW r \in Rpc, GiveUp(r) \/ AcquireGate(r) \/ Return(r)
       PROVE UNCHANGED command
  BY <1>10 DEF GiveUp, AcquireGate, Return
<1>11. ASSUME NEW r \in Rpc, NEW q \in Request, Call(r, q) PROVE UNCHANGED command
  BY <1>11 DEF Call
<1> QED
  BY <1>1, <1>2, <1>3, <1>4, <1>5, <1>6, <1>7, <1>8, <1>9, <1>10, <1>11, UntouchedFrame
  DEF Next, StreamStep, RpcStep, CommandsUntouched, vars, controlVars

\* A step that keeps ownership, bindings and the owners' places at the gate, and
\* makes no command pending, keeps pending commands on the live binding.
LEMMA PendingKept ==
    ASSUME PendingOnLiveBinding,
           UNCHANGED <<grpcSession, retired, stream>>,
           \A s \in Session, c \in Command : command'[s][c].phase = "pending" =>
              /\ command[s][c].phase = "pending"
              /\ command'[s][c].on \in {command[s][c].on, stream[s]}
              /\ command'[s][c].request = command[s][c].request
              /\ \A r \in GateHolders(s) :
                   rpc[r].owner /\ rpc[r].request = command[s][c].request =>
                      /\ r \in GateHolders(s)'
                      /\ rpc'[r].owner /\ rpc'[r].request = rpc[r].request
    PROVE  PendingOnLiveBinding'
<1> SUFFICES ASSUME NEW s \in Session, NEW c \in Command,
                    command'[s][c].phase = "pending"
             PROVE /\ OwnsAgent(s)'
                   /\ command'[s][c].on \in {None, stream'[s]}
                   /\ \E r \in GateHolders(s)' :
                        rpc'[r].owner /\ rpc'[r].request = command'[s][c].request
  BY DEF PendingOnLiveBinding, PendingCommands
<1>1. /\ OwnsAgent(s)
      /\ command[s][c].on \in {None, stream[s]}
      /\ \E r \in GateHolders(s) :
            rpc[r].owner /\ rpc[r].request = command[s][c].request
  BY DEF PendingOnLiveBinding, PendingCommands
<1> QED BY <1>1 DEF OwnsAgent

\* What a call does to the command it works on, seen from every command.
LEMMA SetStateElsewhere ==
    ASSUME Commands, Calls, NEW r \in Rpc, rpc[r].pc # "idle",
           NEW state, SetState(r, state)
    PROVE  /\ command'[rpc[r].session][rpc[r].request.id] = state
           /\ \A s \in Session, c \in Command :
                 ~(s = rpc[r].session /\ c = rpc[r].request.id) =>
                    command'[s][c] = command[s][c]
<1>1. rpc[r].session \in Session /\ rpc[r].request.id \in Command
  BY NullsTyped DEF Calls
<1> QED BY <1>1 DEF SetState, Commands

\* A call that goes on keeps its place at the gate.
LEMMA PlaceKept ==
    ASSUME Calls, NEW r \in Rpc, NEW pc \in GatePc,
           rpc[r].pc \in GatePc, rpc' = [rpc EXCEPT ![r].pc = pc],
           NEW s \in Session, NEW q \in GateHolders(s)
    PROVE  /\ q \in GateHolders(s)'
           /\ rpc'[q].owner = rpc[q].owner /\ rpc'[q].request = rpc[q].request
  BY DEF GateHolders, GatePc, Calls, RpcState

\* Replacement, cleanup and re-registration abort what they strand.
LEMMA PendingReplaced ==
    ASSUME ControlInductive, NEW b \in Stream,
           UpdateStream(b) \/ SwapStream(b) \/ CleanUp(b)
    PROVE  PendingOnLiveBinding'
<1> USE DEF ControlInductive
<1> DEFINE s == boundTo[b]
<1>1. s \in Session
  BY DEF UpdateStream, SwapStream, CleanUp, BindStream, ActivateStream,
         DeleteStream, Inductive, Handlers
<1>2. UNCHANGED rpc
  BY DEF UpdateStream, SwapStream, CleanUp
<1>3. CASE UNCHANGED <<command, grpcSession, retired, stream>>
  BY <1>2, <1>3 DEF PendingOnLiveBinding, PendingCommands, OwnsAgent, GateHolders
<1>4. CASE /\ UNCHANGED <<command, grpcSession, retired>>
           /\ stream[s] = None /\ stream' = [stream EXCEPT ![s] = b]
  BY <1>1, <1>2, <1>4
  DEF PendingOnLiveBinding, PendingCommands, OwnsAgent, GateHolders, Inductive, TypeOK
<1>5. CASE /\ command' = [command EXCEPT ![s] = AbortPending(s)]
           /\ UNCHANGED <<grpcSession, retired>>
           /\ stream' = [stream EXCEPT ![s] = b]
  <2>1. /\ \A c \in Command : command'[s][c].phase # "pending"
        /\ \A t \in Session : t # s => command'[t] = command[t]
    BY <1>1, <1>5, AbortCommands
  <2> QED
    BY <1>1, <1>2, <1>5, <2>1
    DEF PendingOnLiveBinding, PendingCommands, OwnsAgent, GateHolders, Inductive, TypeOK
<1>6. CASE command' = [command EXCEPT ![s] = AbortPending(s)] /\ grpcSession = s
  <2>1. /\ \A c \in Command : command'[s][c].phase # "pending"
        /\ \A t \in Session : t # s => command'[t] = command[t]
    BY <1>1, <1>6, AbortCommands
  <2>2. \A t \in Session, c \in Command : command'[t][c].phase # "pending"
    BY <1>6, <2>1 DEF PendingOnLiveBinding, PendingCommands, OwnsAgent
  <2> QED BY <2>2 DEF PendingOnLiveBinding, PendingCommands
<1>7. CASE UpdateStream(b)
  BY <1>3, <1>4, <1>5, <1>7
  DEF UpdateStream, BindStream, AbortForReplacement
<1>8. CASE SwapStream(b)
  <2>1. UNCHANGED <<grpcSession, retired>>
    BY <1>8 DEF SwapStream, ActivateStream
  <2>2. CASE UNCHANGED stream
    <3>1. CASE stream'[s] = b /\ stream[s] # None
      <4>1. command' = [command EXCEPT ![s] = AbortPending(s)]
        BY <1>8, <3>1 DEF SwapStream, AbortForReplacement
      <4>2. grpcSession = s
        BY <1>8 DEF SwapStream, ActivateStream, Inductive, LeaseImpliesOwnership, OwnsAgent
      <4> QED BY <1>6, <4>1, <4>2
    <3>2. CASE ~(stream'[s] = b /\ stream[s] # None)
      BY <1>3, <1>8, <2>1, <2>2, <3>2 DEF SwapStream
    <3> QED BY <3>1, <3>2
  <2>3. CASE stream' = [stream EXCEPT ![s] = b]
    <3>1. stream'[s] = b
      BY <1>1, <2>3 DEF Inductive, TypeOK
    <3> QED BY <1>4, <1>5, <1>8, <2>1, <2>3, <3>1 DEF SwapStream, AbortForReplacement
  <2> QED BY <1>8, <2>2, <2>3 DEF SwapStream, ActivateStream
<1>9. CASE CleanUp(b)
  <2>1. UNCHANGED stream
    BY <1>9 DEF CleanUp, DeleteStream
  <2>2. CASE s \in retired' \ retired
    BY <1>6, <1>9, <2>2 DEF CleanUp, DeleteStream
  <2>3. CASE s \notin retired' \ retired
    <3>1. UNCHANGED <<grpcSession, retired>>
      BY <1>1, <1>9, <2>3, NoneAssumption
      DEF CleanUp, DeleteStream, Inductive, Registrations
    <3> QED BY <1>3, <1>9, <2>1, <2>3, <3>1 DEF CleanUp
  <2> QED BY <2>2, <2>3
<1> QED BY <1>7, <1>8, <1>9

\* A pending command's owner is neither idle, waiting for the gate, nor done.
LEMMA PendingCalls ==
    ASSUME ControlInductive, NEW r \in Rpc,
           UNCHANGED <<grpcSession, retired, stream, command>>,
           \A q \in Rpc : q # r => rpc'[q] = rpc[q],
           \A s \in Session, c \in Command :
              ~(/\ command[s][c].phase = "pending"
                /\ r \in GateHolders(s) /\ rpc[r].owner
                /\ rpc[r].request = command[s][c].request)
    PROVE  PendingOnLiveBinding'
<1>1. ASSUME NEW s \in Session, NEW c \in Command, command[s][c].phase = "pending",
             NEW q \in GateHolders(s), rpc[q].owner,
             rpc[q].request = command[s][c].request
      PROVE q \in GateHolders(s)' /\ rpc'[q].owner /\ rpc'[q].request = rpc[q].request
  <2>1. q # r /\ q \in Rpc
    BY <1>1 DEF GateHolders
  <2> QED BY <1>1, <2>1 DEF GateHolders
<1> QED BY <1>1, PendingKept DEF ControlInductive

\* Pending commands stay on the live binding of the live session.
LEMMA PendingStep == ControlInductive /\ [Next]_vars => PendingOnLiveBinding'
<1> SUFFICES ASSUME ControlInductive, [Next]_vars PROVE PendingOnLiveBinding'
  OBVIOUS
<1> USE DEF ControlInductive
<1>1. ASSUME NEW s \in Session, Register(s) PROVE PendingOnLiveBinding'
  <2>1. grpcSession = previous[s]
    BY <1>1 DEF Register, InstallSession
  <2>2. \A t \in Session, c \in Command : command'[t][c].phase # "pending"
    <3>1. CASE previous[s] = None
      BY <1>1, <2>1, <3>1, NoneAssumption
      DEF Register, PendingOnLiveBinding, PendingCommands, OwnsAgent
    <3>2. CASE previous[s] # None
      <4>1. previous[s] \in Session
        BY <3>2 DEF Inductive, TypeOK
      <4>2. /\ \A c \in Command : command'[previous[s]][c].phase # "pending"
            /\ \A t \in Session : t # previous[s] => command'[t] = command[t]
        BY <1>1, <3>2, <4>1, AbortCommands DEF Register
      <4> QED BY <2>1, <4>2 DEF PendingOnLiveBinding, PendingCommands, OwnsAgent
    <3> QED BY <3>1, <3>2
  <2> QED BY <2>2 DEF PendingOnLiveBinding, PendingCommands
<1>2. ASSUME NEW b \in Stream, ReceiveAck(b) PROVE PendingOnLiveBinding'
  <2> DEFINE s == boundTo[b]
             c == Received(b).id
  <2>1. s \in Session /\ UNCHANGED <<grpcSession, retired, stream, rpc>>
    BY <1>2 DEF ReceiveAck, Inductive, Handlers, lifecycleVars
  <2>2. CASE UNCHANGED command
    BY <2>1, <2>2 DEF PendingOnLiveBinding, PendingCommands, OwnsAgent, GateHolders
  <2>3. CASE c \in PendingCommands(s) /\ CorrelateAck(s, Received(b))
    <3>1. PICK phase \in Completed :
            command' = [command EXCEPT ![s][c] = Complete(command[s][c], phase)]
      BY <2>3 DEF CorrelateAck, Completed
    <3>2. c \in Command /\ command[s][c] \in CommandState
      BY <2>1, <2>3 DEF PendingCommands, Commands
    <3>3. Complete(command[s][c], phase).phase # "pending"
      BY <3>2, CompleteTyped
    <3>4. \A t \in Session, d \in Command : command'[t][d].phase = "pending" =>
             command'[t][d] = command[t][d]
      BY <2>1, <3>1, <3>2, <3>3 DEF Commands
    <3> QED
      BY <2>1, <3>4 DEF PendingOnLiveBinding, PendingCommands, OwnsAgent, GateHolders
  <2> QED BY <1>2, <2>2, <2>3 DEF ReceiveAck
<1>3. ASSUME NEW r \in Rpc, NEW q \in Request, Call(r, q) PROVE PendingOnLiveBinding'
  <2>1. /\ UNCHANGED <<grpcSession, retired, stream, command>>
        /\ \A p \in Rpc : p # r => rpc'[p] = rpc[p]
        /\ rpc[r].pc = "idle"
    BY <1>3 DEF Call, lifecycleVars, Calls
  <2> QED BY <2>1, PendingCalls DEF GateHolders
<1>4. ASSUME NEW r \in Rpc, GiveUp(r) \/ AcquireGate(r) PROVE PendingOnLiveBinding'
  <2>1. /\ UNCHANGED <<grpcSession, retired, stream, command>>
        /\ \A p \in Rpc : p # r => rpc'[p] = rpc[p]
        /\ rpc[r].pc = "gate"
    BY <1>4 DEF GiveUp, AcquireGate, lifecycleVars, Calls
  <2> QED BY <2>1, PendingCalls DEF GateHolders
<1>5. ASSUME NEW r \in Rpc, Return(r) PROVE PendingOnLiveBinding'
  <2>1. /\ UNCHANGED <<grpcSession, retired, stream, command>>
        /\ \A p \in Rpc : p # r => rpc'[p] = rpc[p]
        /\ StateOf(r).phase # "pending"
    BY <1>5 DEF Return, Finish, lifecycleVars, Calls
  <2>2. ASSUME NEW s \in Session, NEW c \in Command, command[s][c].phase = "pending",
               r \in GateHolders(s), rpc[r].request = command[s][c].request
        PROVE FALSE
    BY <2>1, <2>2 DEF GateHolders, StateOf, Commands
  <2> QED BY <2>1, <2>2, PendingCalls
<1>6. ASSUME NEW r \in Rpc, Admit(r) PROVE PendingOnLiveBinding'
  <2>0. PICK s \in Session : s = rpc[r].session
    BY <1>6 DEF Admit, Calls
  <2>1. /\ UNCHANGED <<grpcSession, retired, stream>>
        /\ \A p \in Rpc : p # r => rpc'[p] = rpc[p]
        /\ rpc[r].pc = "admit" /\ ~rpc[r].owner
    BY <1>6 DEF Admit, RefuseAdmission, AttachToKnown, OwnAttempt, Finish,
                lifecycleVars, Calls
  <2>2. ASSUME NEW t \in Session, NEW c \in Command,
               command[t][c].phase = "pending", command'[t][c] = command[t][c]
        PROVE /\ OwnsAgent(t)'
              /\ command'[t][c].on \in {None, stream'[t]}
              /\ \E p \in GateHolders(t)' :
                   rpc'[p].owner /\ rpc'[p].request = command'[t][c].request
    <3>1. PICK p \in GateHolders(t) :
            rpc[p].owner /\ rpc[p].request = command[t][c].request
      BY <2>2 DEF PendingOnLiveBinding, PendingCommands
    <3>2. p # r /\ p \in Rpc
      BY <2>1, <3>1 DEF GateHolders
    <3>3. p \in GateHolders(t)' /\ rpc'[p] = rpc[p]
      BY <2>1, <3>1, <3>2 DEF GateHolders
    <3> QED
      BY <2>1, <2>2, <3>1, <3>3 DEF PendingOnLiveBinding, PendingCommands, OwnsAgent
  <2>3. ASSUME NEW c \in Command, command'[s][c].phase = "pending",
               command'[s][c].on = None, command'[s][c].request = rpc[r].request,
               grpcSession = s,
               rpc' = [rpc EXCEPT ![r].pc = "send", ![r].owner = TRUE]
        PROVE /\ OwnsAgent(s)'
              /\ \E p \in GateHolders(s)' :
                   rpc'[p].owner /\ rpc'[p].request = command'[s][c].request
    <3>1. OwnsAgent(s)'
      BY <2>1, <2>3, NoneAssumption DEF OwnsAgent, Inductive, Registrations
    <3>2. /\ rpc'[r].pc = "send" /\ rpc'[r].owner
          /\ rpc'[r].session = s /\ rpc'[r].request = rpc[r].request
      BY <2>0, <2>3 DEF Calls, RpcState
    <3>3. r \in GateHolders(s)'
      BY <3>2 DEF GateHolders
    <3> QED BY <2>3, <3>1, <3>2, <3>3
  <2>4. /\ \A t \in Session : t # s => command'[t] = command[t]
        /\ \A c \in Command : command'[s][c].phase = "pending" =>
              \/ command'[s][c] = command[s][c]
              \/ /\ command'[s][c].on = None
                 /\ command'[s][c].request = rpc[r].request
                 /\ grpcSession = s
                 /\ rpc' = [rpc EXCEPT ![r].pc = "send", ![r].owner = TRUE]
    BY <1>6, <2>0, AdmitCommands
  <2> SUFFICES ASSUME NEW t \in Session, NEW c \in Command,
                      command'[t][c].phase = "pending"
               PROVE /\ OwnsAgent(t)'
                     /\ command'[t][c].on \in {None, stream'[t]}
                     /\ \E p \in GateHolders(t)' :
                          rpc'[p].owner /\ rpc'[p].request = command'[t][c].request
    BY DEF PendingOnLiveBinding, PendingCommands
  <2>5. CASE command'[t][c] = command[t][c]
    BY <2>2, <2>5
  <2>6. CASE command'[t][c] # command[t][c]
    BY <2>3, <2>4, <2>6
  <2> QED BY <2>5, <2>6
<1>7. ASSUME NEW r \in Rpc, NEW state, SetState(r, state),
             UNCHANGED lifecycleVars,
             rpc[r].pc \in GatePc,
             NEW pc \in GatePc, rpc' = [rpc EXCEPT ![r].pc = pc],
             state.phase = "pending" =>
                /\ StateOf(r).phase = "pending"
                /\ state.on \in {StateOf(r).on, stream[rpc[r].session]}
                /\ state.request = StateOf(r).request
      PROVE PendingOnLiveBinding'
  <2>1. rpc[r].pc # "idle"
    BY <1>7 DEF GatePc
  <2>2. /\ command'[rpc[r].session][rpc[r].request.id] = state
        /\ \A s \in Session, c \in Command :
              ~(s = rpc[r].session /\ c = rpc[r].request.id) =>
                 command'[s][c] = command[s][c]
    BY <1>7, <2>1, SetStateElsewhere
  <2>3. \A s \in Session, c \in Command : command'[s][c].phase = "pending" =>
           /\ command[s][c].phase = "pending"
           /\ command'[s][c].on \in {command[s][c].on, stream[s]}
           /\ command'[s][c].request = command[s][c].request
    BY <1>7, <2>2 DEF StateOf
  <2>4. \A s \in Session : \A q \in GateHolders(s) :
           /\ q \in GateHolders(s)'
           /\ rpc'[q].owner = rpc[q].owner /\ rpc'[q].request = rpc[q].request
    BY <1>7, PlaceKept
  <2>5. UNCHANGED <<grpcSession, retired, stream>>
    BY <1>7 DEF lifecycleVars
  <2> QED BY <2>3, <2>4, <2>5, PendingKept
<1>8. ASSUME NEW r \in Rpc, FailUnsent(r) \/ Deadline(r) PROVE PendingOnLiveBinding'
  <2>1. /\ SetState(r, Complete(StateOf(r), "retryable"))
        /\ UNCHANGED lifecycleVars
        /\ rpc[r].pc \in GatePc
        /\ rpc' = [rpc EXCEPT ![r].pc = "await"]
    BY <1>8 DEF FailUnsent, Deadline, GatePc, Calls, RpcState
  <2>2. StateOf(r) \in CommandState /\ "retryable" \in Completed
    BY <2>1, StateOfTyped DEF GatePc, Completed
  <2>3. Complete(StateOf(r), "retryable").phase # "pending"
    BY <2>2, CompleteTyped
  <2>4. "await" \in GatePc
    BY DEF GatePc
  <2> QED BY <1>7, <2>1, <2>3, <2>4
<1>9. ASSUME NEW r \in Rpc, WriteCommand(r) PROVE PendingOnLiveBinding'
  <2> DEFINE new == [StateOf(r) EXCEPT !.on = stream[rpc[r].session]]
  <2>1. /\ SetState(r, new)
        /\ UNCHANGED lifecycleVars
        /\ rpc[r].pc \in GatePc
        /\ rpc' = [rpc EXCEPT ![r].pc = "sent"]
        /\ "sent" \in GatePc
    BY <1>9 DEF WriteCommand, GatePc
  <2>2. StateOf(r) \in CommandState
    BY <2>1, StateOfTyped DEF GatePc
  <2>3. /\ new.phase = StateOf(r).phase /\ new.request = StateOf(r).request
        /\ new.on = stream[rpc[r].session]
    BY <2>2 DEF CommandState
  <2> HIDE DEF new
  <2> QED BY <1>7, <2>1, <2>3
<1>10. ASSUME NEW r \in Rpc, NEW failed \in BOOLEAN, WriteReturns(r, failed)
       PROVE PendingOnLiveBinding'
  <2> DEFINE new == [StateOf(r) EXCEPT !.delivered = TRUE]
  <2>1. /\ UNCHANGED lifecycleVars
        /\ rpc[r].pc \in GatePc
        /\ rpc' = [rpc EXCEPT ![r].pc = "await"]
        /\ "await" \in GatePc /\ "retryable" \in Completed
    BY <1>10 DEF WriteReturns, GatePc, Completed
  <2>2. StateOf(r) \in CommandState
    BY <2>1, StateOfTyped DEF GatePc
  <2>3. /\ new.phase = StateOf(r).phase /\ new.request = StateOf(r).request
        /\ new.on = StateOf(r).on
    BY <2>2 DEF CommandState
  <2>4. Complete(StateOf(r), "retryable").phase # "pending"
    BY <2>1, <2>2, CompleteTyped
  <2>5. \/ UNCHANGED command
        \/ SetState(r, new)
        \/ SetState(r, Complete(StateOf(r), "retryable"))
    BY <1>10 DEF WriteReturns
  <2> HIDE DEF new
  <2>6. CASE SetState(r, new)
    BY <1>7, <2>1, <2>3, <2>6
  <2>7. CASE SetState(r, Complete(StateOf(r), "retryable"))
    BY <1>7, <2>1, <2>4, <2>7
  <2>8. CASE UNCHANGED command
    <3>1. \A s \in Session : \A q \in GateHolders(s) :
             /\ q \in GateHolders(s)'
             /\ rpc'[q].owner = rpc[q].owner /\ rpc'[q].request = rpc[q].request
      BY <2>1, PlaceKept
    <3>2. UNCHANGED <<grpcSession, retired, stream>>
      BY <2>1 DEF lifecycleVars
    <3> QED BY <2>8, <3>1, <3>2, PendingKept
  <2> QED BY <2>5, <2>6, <2>7, <2>8
<1>11. CASE Crash
  BY <1>11 DEF Crash, NoCommand, PendingOnLiveBinding, PendingCommands
<1>12. CASE UNCHANGED <<command, rpc, stream, grpcSession, retired>>
  BY <1>12 DEF PendingOnLiveBinding, PendingCommands, OwnsAgent, GateHolders
<1> QED
  BY <1>1, <1>2, <1>3, <1>4, <1>5, <1>6, <1>8, <1>9, <1>10, <1>11, <1>12,
     UntouchedFrame, PendingReplaced
  DEF Next, StreamStep, RpcStep, CommandsUntouched, vars, controlVars, lifecycleVars

\* The initial states satisfy the inductive invariant of the composed system.
LEMMA ControlInit == Init => ControlInductive
<1> SUFFICES ASSUME Init PROVE ControlInductive
  OBVIOUS
<1>1. Inductive
  BY InitInductive DEF Init
<1>2. Calls /\ Commands /\ Contexts
  BY NullsTyped DEF Init, Calls, Commands, Contexts, IdleRpc, NoCommand, Context
<1>3. GateExcludes /\ PendingOnLiveBinding
  BY DEF Init, GateExcludes, GateHolders, PendingOnLiveBinding, PendingCommands, IdleRpc,
         NoCommand
<1> QED BY <1>1, <1>2, <1>3 DEF ControlInductive

\* The inductive invariant of the composed system.
THEOREM ControlInvariant == Spec => []ControlInductive
<1>1. ControlInductive /\ [Next]_vars => ControlInductive'
  BY InductiveStep, StepSimulation, CallsStep, CommandsStep, ContextsStep, GateStep,
     PendingStep DEF ControlInductive
<1> QED BY ControlInit, <1>1, PTL DEF Spec

\* No Set or Clear waits on a stream that can no longer answer: stream
\* replacement, cleanup and re-registration abort what they strand.
THEOREM PendingSafety == Spec => []PendingOnLiveBinding
  BY ControlInvariant, PTL DEF ControlInductive
=============================================================================
