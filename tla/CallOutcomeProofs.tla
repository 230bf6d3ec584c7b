------------------------- MODULE CallOutcomeProofs -------------------------
(***************************************************************************)
(* Types of the control state, and what a Set or Clear call may report.    *)
(***************************************************************************)
EXTENDS OperationContextProofs

----------------------------------------------------------------------------
(* Types.  Calls, Commands and Contexts of ControlInductive cover the rest. *)

ControlTypes ==
    /\ unreconciled \in [Session -> BOOLEAN]
    /\ emptyCommand \in [Session -> Command \cup {None}]
    /\ reconnect \in Snapshot \cup {None}
    /\ issued \in SUBSET Command

AgentTypes ==
    /\ agentContext \in Context
    /\ journal \in [Command -> Request \cup {None}]
    /\ agentStream \in Stream \cup {None}
    /\ toAgent \in Seq(Request)
    /\ toRelay \in [Stream -> Seq(Upstream)]

\* The context of a request, and what it makes of the Agent's, are contexts.
LEMMA EffectTyped ==
    ASSUME agentContext \in Context, NEW q \in Request
    PROVE  q.flight \in Context /\ q.id \in Nat /\ q.kind \in Kind /\ Effect(q) \in Context
  BY RequestAssumption DEF Effect, Context, Kind

\* A session that ends leaves a snapshot.
LEMMA SnapshotTyped ==
    ASSUME ControlInductive, ControlTypes, NEW s \in Session
    PROVE  SnapshotOf(s) \in Snapshot
<1>1. Uncertain(s) \in BOOLEAN
  BY DEF Uncertain, ControlTypes
<1> QED BY <1>1 DEF SnapshotOf, Snapshot, ControlInductive, Contexts, ControlTypes

\* A call changes the session's reservation only to its own ID or to none.
LEMMA ControlTypesCall ==
    ASSUME ControlInductive, ControlTypes, NEW r \in Rpc,
           GiveUp(r) \/ RpcStep(r) \/ Deadline(r)
    PROVE  ControlTypes'
<1> USE DEF ControlTypes
<1>1. UNCHANGED <<reconnect, issued>>
  BY DEF GiveUp, RpcStep, Deadline, AcquireGate, Admit, FailUnsent, WriteCommand,
         WriteReturns, Return
<1>2. rpc[r].pc # "idle" => rpc[r].session \in Session /\ rpc[r].request.id \in Command
  BY NullsTyped DEF ControlInductive, Calls
<1>3. CASE AcquireGate(r)
  BY <1>1, <1>2, <1>3 DEF AcquireGate, Reservation
<1>4. CASE Admit(r)
  BY <1>1, <1>2, <1>4 DEF Admit, RefuseAdmission, AttachToKnown, OwnAttempt, Finish
<1>5. CASE Return(r)
  BY <1>1, <1>2, <1>5 DEF Return, Finish
<1>6. CASE GiveUp(r) \/ FailUnsent(r) \/ WriteCommand(r)
  BY <1>1, <1>6 DEF GiveUp, FailUnsent, WriteCommand
<1>7. ASSUME NEW failed \in BOOLEAN, WriteReturns(r, failed) PROVE ControlTypes'
  BY <1>1, <1>2, <1>7 DEF WriteReturns
<1>8. CASE Deadline(r)
  <2>1. StateOf(r).delivered \in BOOLEAN
    BY <1>8, StateOfTyped DEF Deadline, ControlInductive, CommandState
  <2> QED BY <1>1, <1>2, <1>8, <2>1 DEF Deadline
<1> QED BY <1>3, <1>4, <1>5, <1>6, <1>7, <1>8 DEF RpcStep

\* So do the session's steps.
LEMMA ControlTypesStep ==
    ControlInductive /\ ControlTypes /\ AgentTypes /\ [Next]_vars => ControlTypes'
<1> SUFFICES ASSUME ControlInductive, ControlTypes, AgentTypes, [Next]_vars
             PROVE ControlTypes'
  OBVIOUS
<1> USE ConfigAssumption DEF ControlTypes
<1>1. ASSUME NEW s \in Session, Register(s) PROVE ControlTypes'
  <2>1. Inherited(s) \in Snapshot
    <3>1. FreshContext \in Snapshot
      BY DEF FreshContext, Snapshot, Context
    <3>2. previous[s] # None => SnapshotOf(previous[s]) \in Snapshot
      BY SnapshotTyped DEF ControlInductive, Inductive, TypeOK
    <3> QED BY <3>1, <3>2 DEF Inherited
  <2>2. Inherited(s).unreconciled \in BOOLEAN
        /\ Inherited(s).emptyCommand \in Command \cup {None}
    BY <2>1 DEF Snapshot
  <2> QED BY <1>1, <2>2 DEF Register
<1>2. ASSUME NEW b \in Stream, CleanUp(b) PROVE ControlTypes'
  <2>1. boundTo[b] \in Session
    BY <1>2 DEF CleanUp, DeleteStream, ControlInductive, Inductive, Handlers
  <2> QED BY <1>2, <2>1, SnapshotTyped DEF CleanUp
<1>3. ASSUME NEW b \in Stream, UpdateStream(b) \/ SwapStream(b) PROVE ControlTypes'
  <2>1. \A s \in Session : (PendingCommands(s) # {}) \in BOOLEAN
    OBVIOUS
  <2> QED BY <1>3, <2>1 DEF UpdateStream, SwapStream, AbortForReplacement
<1>4. ASSUME NEW b \in Stream, ReceiveAck(b) PROVE ControlTypes'
  <2>1. FenceAfter(boundTo[b], TRUE, FALSE) \in BOOLEAN
    BY DEF FenceAfter
  <2> QED BY <1>4, <2>1 DEF ReceiveAck, CorrelateAck, FenceAfter
<1>5. CASE Crash \/ ForgetSnapshot
  BY <1>5 DEF Crash, ForgetSnapshot
<1>6. ASSUME NEW r \in Rpc, NEW q \in Request, Call(r, q) PROVE ControlTypes'
  BY <1>6 DEF Call, Command
<1>7. CASE CommandsUntouched
  BY <1>7 DEF CommandsUntouched, BeginRegister, AbandonRegister, RestartRegister,
              ConnectStream, Publication, EndStream, DeclineFrame, AdmitFrame, RouteFrame,
              ForgetSnapshot, AgentApplies, AgentAnswersOnly, AgentSendsFrame, controlVars
<1>8. CASE UNCHANGED vars
  BY <1>8 DEF vars, controlVars
<1> QED
  BY <1>1, <1>2, <1>3, <1>4, <1>5, <1>6, <1>7, <1>8, ControlTypesCall
  DEF Next, StreamStep, CommandsUntouched

\* What arrives at the Relay is what was sent: acknowledgements and frames.
LEMMA MessagesTyped ==
    ASSUME NEW f \in Context
    PROVE  /\ FrameMessage(f) \in Upstream
           /\ \A q \in Request, status \in {"applied", "temporary", "rejected"} :
                 AckMessage(q, status, f) \in Upstream
  BY NullsTyped DEF FrameMessage, AckMessage, Upstream

\* The Agent's answer goes to its stream.
LEMMA AnswerTyped ==
    ASSUME AgentTypes, agentStream \in Stream, NEW m \in Upstream, Answer(m)
    PROVE  toRelay' \in [Stream -> Seq(Upstream)]
<1>1. Append(toRelay[agentStream], m) \in Seq(Upstream)
  BY DEF AgentTypes
<1> QED BY <1>1 DEF Answer, AgentTypes

\* The frame being routed is still the first message of its stream.
FrameHeld ==
    \A b \in Stream : handler[b] = "routing" =>
        toRelay[b] # <<>> /\ Head(toRelay[b]).kind = "frame"

\* The Agent and the channels stay of their types.
LEMMA AgentTypesStep ==
    ControlInductive /\ AgentTypes /\ FrameHeld /\ [Next]_vars => AgentTypes'
<1> SUFFICES ASSUME ControlInductive, AgentTypes, FrameHeld, [Next]_vars
             PROVE AgentTypes'
  OBVIOUS
<1>1. CASE AgentApplies
  <2>1. /\ Head(toAgent) \in Request /\ Tail(toAgent) \in Seq(Request)
        /\ agentStream \in Stream
    BY <1>1 DEF AgentApplies, AgentHas, AgentTypes
  <2>2. Effect(Head(toAgent)) \in Context
    BY <2>1, EffectTyped DEF AgentTypes
  <2>3. toRelay' \in [Stream -> Seq(Upstream)]
    BY <1>1, <2>1, <2>2, MessagesTyped, AnswerTyped DEF AgentApplies
  <2> QED BY <1>1, <2>1, <2>2, <2>3 DEF AgentApplies, AgentTypes
<1>2. CASE AgentAnswersOnly
  <2>1. /\ Head(toAgent) \in Request /\ Tail(toAgent) \in Seq(Request)
        /\ agentStream \in Stream
    BY <1>2 DEF AgentAnswersOnly, AgentHas, AgentTypes
  <2>2. PICK status \in {"applied", "temporary", "rejected"} :
          Answer(AckMessage(Head(toAgent), status, agentContext))
    BY <1>2 DEF AgentAnswersOnly
  <2>3. toRelay' \in [Stream -> Seq(Upstream)]
    BY <2>1, <2>2, MessagesTyped, AnswerTyped DEF AgentTypes
  <2> QED BY <1>2, <2>1, <2>3 DEF AgentAnswersOnly, AgentTypes
<1>3. CASE AgentSendsFrame
  <2>1. agentStream \in Stream
    BY <1>3 DEF AgentSendsFrame, AgentTypes
  <2>2. toRelay' \in [Stream -> Seq(Upstream)]
    BY <1>3, <2>1, MessagesTyped, AnswerTyped DEF AgentSendsFrame, AgentTypes
  <2> QED BY <1>3, <2>2 DEF AgentSendsFrame, AgentTypes
<1>4. ASSUME NEW b \in Stream, ReceiveAck(b) \/ DeclineFrame(b) \/ RouteFrame(b)
      PROVE AgentTypes'
  <2>1. toRelay[b] # <<>>
    BY <1>4 DEF ReceiveAck, DeclineFrame, RouteFrame, EndFrame, FrameHeld
  <2>2. toRelay[b] \in Seq(Upstream)
    BY DEF AgentTypes
  <2>3. Tail(toRelay[b]) \in Seq(Upstream)
    BY <2>1, <2>2
  <2> QED BY <1>4, <2>3 DEF ReceiveAck, DeclineFrame, RouteFrame, Consume, AgentTypes
<1>5. ASSUME NEW b \in Stream, CleanUp(b) PROVE AgentTypes'
  BY <1>5 DEF CleanUp, AgentTypes
<1>6. ASSUME NEW b \in Stream, NEW s \in Session, ConnectStream(b, s) PROVE AgentTypes'
  BY <1>6 DEF ConnectStream, AgentTypes
<1>7. CASE Crash
  BY <1>7 DEF Crash, AgentTypes
<1>8. ASSUME NEW r \in Rpc, WriteCommand(r) PROVE AgentTypes'
  <2>1. rpc[r].request \in Request
    BY <1>8 DEF WriteCommand, ControlInductive, Calls
  <2>2. toAgent' \in Seq(Request)
    <3>1. toAgent \in Seq(Request)
      BY DEF AgentTypes
    <3>2. Append(toAgent, rpc[r].request) \in Seq(Request)
      BY <2>1, <3>1
    <3> QED BY <1>8, <3>1, <3>2 DEF WriteCommand
  <2> QED BY <1>8, <2>2 DEF WriteCommand, AgentTypes
<1>9. CASE UNCHANGED agentVars
  BY <1>9 DEF agentVars, AgentTypes
<1>10. ASSUME NEW s \in Session,
              BeginRegister(s) \/ AbandonRegister(s) \/ RestartRegister(s) \/ Register(s)
       PROVE UNCHANGED agentVars
  BY <1>10 DEF BeginRegister, AbandonRegister, RestartRegister, Register
<1>11. ASSUME NEW b \in Stream,
              UpdateStream(b) \/ Publication(b) \/ SwapStream(b) \/ EndStream(b)
              \/ AdmitFrame(b)
       PROVE UNCHANGED agentVars
  BY <1>11 DEF UpdateStream, Publication, SwapStream, EndStream, AdmitFrame
<1>12. ASSUME NEW r \in Rpc,
              GiveUp(r) \/ AcquireGate(r) \/ Admit(r) \/ FailUnsent(r)
              \/ (\E failed \in BOOLEAN : WriteReturns(r, failed))
              \/ Return(r) \/ Deadline(r)
       PROVE UNCHANGED agentVars
  BY <1>12 DEF GiveUp, AcquireGate, Admit, FailUnsent, WriteReturns, Return, Deadline
<1>13. ASSUME NEW r \in Rpc, NEW q \in Request, Call(r, q) PROVE UNCHANGED agentVars
  BY <1>13 DEF Call
<1>14. ASSUME ForgetSnapshot \/ UNCHANGED vars PROVE UNCHANGED agentVars
  BY <1>14 DEF ForgetSnapshot, vars
<1> QED
  BY <1>1, <1>2, <1>3, <1>4, <1>5, <1>6, <1>7, <1>8, <1>9, <1>10, <1>11, <1>12, <1>13,
     <1>14
  DEF Next, StreamStep, RpcStep

\* What is sent behind the first message leaves it first.
LEMMA HeadKept ==
    ASSUME NEW q \in Seq(Upstream), NEW m \in Upstream, q # <<>>
    PROVE  Append(q, m) # <<>> /\ Head(Append(q, m)) = Head(q)
  OBVIOUS

\* How one step changes the messages on their way to the Relay.
LEMMA ChannelStep ==
    ASSUME AgentTypes, [Next]_vars, ~Crash, NEW b \in Stream
    PROVE  \/ toRelay'[b] = toRelay[b]
           \/ /\ AgentApplies \/ AgentAnswersOnly \/ AgentSendsFrame
              /\ b = agentStream /\ ~Gone(b)
              /\ \E m \in Upstream : toRelay'[b] = Append(toRelay[b], m)
           \/ ReceiveAck(b) \/ DeclineFrame(b) \/ RouteFrame(b) \/ CleanUp(b)
<1> USE DEF AgentTypes
<1>1. ASSUME NEW m \in Upstream, Answer(m)
      PROVE \/ toRelay'[b] = toRelay[b]
            \/ b = agentStream /\ ~Gone(b) /\ toRelay'[b] = Append(toRelay[b], m)
  BY <1>1 DEF Answer
<1>2. CASE AgentApplies
  <2>1. Head(toAgent) \in Request
    BY <1>2 DEF AgentApplies, AgentHas
  <2>2. Effect(Head(toAgent)) \in Context
    BY <2>1, EffectTyped
  <2> QED BY <1>1, <1>2, <2>1, <2>2, MessagesTyped DEF AgentApplies
<1>3. CASE AgentAnswersOnly
  <2>1. Head(toAgent) \in Request
    BY <1>3 DEF AgentAnswersOnly, AgentHas
  <2>2. PICK status \in {"applied", "temporary", "rejected"} :
          Answer(AckMessage(Head(toAgent), status, agentContext))
    BY <1>3 DEF AgentAnswersOnly
  <2> QED BY <1>1, <1>3, <2>1, <2>2, MessagesTyped
<1>4. CASE AgentSendsFrame
  BY <1>1, <1>4, MessagesTyped DEF AgentSendsFrame
<1>5. ASSUME NEW c \in Stream,
             ReceiveAck(c) \/ DeclineFrame(c) \/ RouteFrame(c) \/ CleanUp(c)
      PROVE b = c \/ toRelay'[b] = toRelay[b]
  BY <1>5 DEF ReceiveAck, DeclineFrame, RouteFrame, CleanUp, Consume
<1>6. CASE UNCHANGED toRelay
  BY <1>6
<1>7. ASSUME NEW s \in Session,
             BeginRegister(s) \/ AbandonRegister(s) \/ RestartRegister(s) \/ Register(s)
      PROVE UNCHANGED toRelay
  BY <1>7 DEF BeginRegister, AbandonRegister, RestartRegister, Register, agentVars
<1>8. ASSUME NEW c \in Stream, NEW s \in Session, ConnectStream(c, s)
      PROVE UNCHANGED toRelay
  BY <1>8 DEF ConnectStream
<1>9. ASSUME NEW c \in Stream,
             UpdateStream(c) \/ Publication(c) \/ SwapStream(c) \/ EndStream(c)
             \/ AdmitFrame(c)
      PROVE UNCHANGED toRelay
  BY <1>9 DEF UpdateStream, Publication, SwapStream, EndStream, AdmitFrame, agentVars
<1>10. ASSUME NEW r \in Rpc, GiveUp(r) \/ RpcStep(r) \/ Deadline(r)
       PROVE UNCHANGED toRelay
  BY <1>10 DEF GiveUp, RpcStep, AcquireGate, Admit, FailUnsent, WriteCommand,
               WriteReturns, Return, Deadline, agentVars
<1>11. ASSUME NEW r \in Rpc, NEW q \in Request, Call(r, q) PROVE UNCHANGED toRelay
  BY <1>11 DEF Call, agentVars
<1>12. ASSUME ForgetSnapshot \/ UNCHANGED vars PROVE UNCHANGED toRelay
  BY <1>12 DEF ForgetSnapshot, vars, agentVars
<1> QED
  BY <1>2, <1>3, <1>4, <1>5, <1>6, <1>7, <1>8, <1>9, <1>10, <1>11, <1>12
  DEF Next, StreamStep

\* How one step changes a handler.
LEMMA HandlerStep ==
    ASSUME Inductive, [Next]_vars, NEW b \in Stream
    PROVE  \/ handler'[b] = handler[b]
           \/ Crash /\ handler'[b] \in {"idle", "ended"}
           \/ \E s \in Session : ConnectStream(b, s)
           \/ /\ UpdateStream(b) \/ Publication(b) \/ SwapStream(b) \/ EndStream(b)
                 \/ CleanUp(b) \/ AdmitFrame(b) \/ RouteFrame(b)
<1> USE DEF Inductive, TypeOK
<1>1. ASSUME NEW c \in Stream,
             UpdateStream(c) \/ Publication(c) \/ SwapStream(c) \/ EndStream(c)
             \/ CleanUp(c) \/ AdmitFrame(c) \/ RouteFrame(c)
      PROVE b = c \/ handler'[b] = handler[b]
  BY <1>1 DEF UpdateStream, Publication, SwapStream, EndStream, CleanUp, AdmitFrame,
              RouteFrame, BindStream, PublishBegin, PublishFail, PublishOk,
              ActivateStream, StreamEnds, DeleteStream, BeginFrame, EndFrame
<1>2. ASSUME NEW c \in Stream, NEW s \in Session, ConnectStream(c, s)
      PROVE b = c \/ handler'[b] = handler[b]
  BY <1>2 DEF ConnectStream, OpenStream
<1>3. CASE Crash
  BY <1>3 DEF Crash, Restart
<1>4. ASSUME NEW s \in Session,
             BeginRegister(s) \/ AbandonRegister(s) \/ RestartRegister(s) \/ Register(s)
      PROVE UNCHANGED handler
  BY <1>4 DEF BeginRegister, AbandonRegister, RestartRegister, Register, StartRegister,
              CancelRegister, RetryRegister, InstallSession
<1>5. ASSUME NEW c \in Stream, ReceiveAck(c) \/ DeclineFrame(c) PROVE UNCHANGED handler
  BY <1>5 DEF ReceiveAck, DeclineFrame, lifecycleVars
<1>6. ASSUME NEW r \in Rpc, GiveUp(r) \/ RpcStep(r) \/ Deadline(r) PROVE UNCHANGED handler
  BY <1>6, RpcStepSimulation DEF lifecycleVars
<1>7. ASSUME NEW r \in Rpc, NEW q \in Request, Call(r, q) PROVE UNCHANGED handler
  BY <1>7 DEF Call, lifecycleVars
<1>8. ASSUME ForgetSnapshot \/ AgentApplies \/ AgentAnswersOnly \/ AgentSendsFrame
             \/ UNCHANGED vars
      PROVE UNCHANGED handler
  BY <1>8 DEF ForgetSnapshot, AgentApplies, AgentAnswersOnly, AgentSendsFrame, vars,
              lifecycleVars
<1> QED BY <1>1, <1>2, <1>3, <1>4, <1>5, <1>6, <1>7, <1>8 DEF Next, StreamStep

\* A frame stays first while it is routed.
LEMMA FrameHeldStep ==
    Inductive /\ AgentTypes /\ FrameHeld /\ [Next]_vars => FrameHeld'
<1> SUFFICES ASSUME Inductive, AgentTypes, FrameHeld, [Next]_vars,
                    NEW b \in Stream, handler'[b] = "routing"
             PROVE  toRelay'[b] # <<>> /\ Head(toRelay'[b]).kind = "frame"
  BY DEF FrameHeld
<1>0. b # None /\ handler[b] \in HandlerPc
  BY NoneAssumption DEF Inductive, TypeOK
<1>1. CASE handler[b] = "routing"
  <2>1. ~Crash
    BY <1>1 DEF Crash, Restart
  <2>2. ~(ReceiveAck(b) \/ DeclineFrame(b) \/ RouteFrame(b) \/ CleanUp(b))
    BY <1>1 DEF ReceiveAck, DeclineFrame, RouteFrame, EndFrame, CleanUp, DeleteStream,
                Inductive, TypeOK
  <2>3. toRelay[b] # <<>> /\ Head(toRelay[b]).kind = "frame" /\ toRelay[b] \in Seq(Upstream)
    BY <1>1 DEF FrameHeld, AgentTypes
  <2> QED BY <2>1, <2>2, <2>3, ChannelStep, HeadKept
<1>2. CASE handler[b] # "routing"
  <2>1. AdmitFrame(b)
    BY <1>2, HandlerStep
    DEF ConnectStream, OpenStream, UpdateStream, BindStream, Publication, PublishBegin,
        PublishFail, PublishOk, SwapStream, ActivateStream, EndStream, StreamEnds, CleanUp,
        DeleteStream, RouteFrame, EndFrame, Inductive, TypeOK
  <2> QED BY <2>1 DEF AdmitFrame, Received, agentVars
<1> QED BY <1>1, <1>2

----------------------------------------------------------------------------
(* Calls and their commands.                                               *)

IdOf(r) == rpc[r].request.id
Active(r) == rpc[r].pc # "idle"

\* A call uses an issued ID and a session that was installed.  The leases keep
\* the session of a call that writes; a call that awaits its ACK has delivered
\* its command to a binding.
CallStates ==
    \A r \in Rpc : Active(r) =>
        /\ IdOf(r) \in issued
        /\ registerCall[rpc[r].session] = "done"
        /\ rpc[r].pc \in {"send", "sent"} => OwnsAgent(rpc[r].session) /\ rpc[r].owner
        /\ rpc[r].pc \in {"sent", "await"} /\ StateOf(r).phase = "pending" =>
              /\ rpc[r].owner
              /\ StateOf(r).on # None
              /\ rpc[r].pc = "await" => StateOf(r).delivered

\* Only calls move calls.
LEMMA CallMoves ==
    ASSUME Calls, [Next]_vars, ~Crash, NEW r \in Rpc, rpc'[r] # rpc[r]
    PROVE  \/ \E q \in Request : Call(r, q)
           \/ GiveUp(r) \/ AcquireGate(r) \/ Admit(r) \/ FailUnsent(r) \/ WriteCommand(r)
           \/ (\E failed \in BOOLEAN : WriteReturns(r, failed))
           \/ Return(r)
<1> USE DEF Calls
<1>1. ASSUME NEW p \in Rpc, GiveUp(p) \/ RpcStep(p) PROVE p = r \/ rpc'[r] = rpc[r]
  BY <1>1 DEF GiveUp, RpcStep, AcquireGate, Admit, RefuseAdmission, AttachToKnown,
              OwnAttempt, Finish, FailUnsent, WriteCommand, WriteReturns, Return
<1>2. ASSUME NEW p \in Rpc, NEW q \in Request, Call(p, q)
      PROVE p = r \/ rpc'[r] = rpc[r]
  BY <1>2 DEF Call
<1>3. ASSUME NEW p \in Rpc, Deadline(p) PROVE UNCHANGED rpc
  BY <1>3 DEF Deadline
<1>4. ASSUME UNCHANGED vars PROVE UNCHANGED rpc
  BY <1>4 DEF vars, controlVars
<1>5. Next
  BY <1>4
<1>6. PICK p \in Rpc : (\E q \in Request : Call(p, q)) \/ GiveUp(p) \/ RpcStep(p) \/ Deadline(p)
  BY <1>5, CallsFrame
<1>7. p = r
  BY <1>1, <1>2, <1>3, <1>6
<1> QED BY <1>3, <1>6, <1>7 DEF RpcStep

\* Command IDs stay issued; only a new call issues one.
LEMMA IssuedGrows ==
    ASSUME [Next]_vars
    PROVE  /\ issued \subseteq issued'
           /\ (\A r \in Rpc, q \in Request : ~Call(r, q)) => UNCHANGED issued
<1>1. ASSUME NEW s \in Session,
             BeginRegister(s) \/ AbandonRegister(s) \/ RestartRegister(s) \/ Register(s)
      PROVE UNCHANGED issued
  BY <1>1 DEF BeginRegister, AbandonRegister, RestartRegister, Register, controlVars
<1>2. ASSUME NEW b \in Stream, NEW s \in Session, ConnectStream(b, s)
      PROVE UNCHANGED issued
  BY <1>2 DEF ConnectStream, controlVars
<1>3. ASSUME NEW b \in Stream, StreamStep(b) PROVE UNCHANGED issued
  BY <1>3 DEF StreamStep, UpdateStream, Publication, SwapStream, EndStream, CleanUp,
              ReceiveAck, DeclineFrame, AdmitFrame, RouteFrame, controlVars
<1>4. ASSUME ForgetSnapshot \/ Crash \/ AgentApplies \/ AgentAnswersOnly
             \/ AgentSendsFrame \/ UNCHANGED vars
      PROVE UNCHANGED issued
  BY <1>4 DEF ForgetSnapshot, Crash, AgentApplies, AgentAnswersOnly, AgentSendsFrame,
              controlVars, vars
<1>5. ASSUME NEW r \in Rpc, NEW q \in Request, Call(r, q)
      PROVE issued' = issued \cup {q.id}
  BY <1>5 DEF Call
<1>6. ASSUME NEW r \in Rpc, GiveUp(r) \/ RpcStep(r) \/ Deadline(r) PROVE UNCHANGED issued
  BY <1>6 DEF GiveUp, RpcStep, AcquireGate, Admit, FailUnsent, WriteCommand,
              WriteReturns, Return, Deadline
<1> QED BY <1>1, <1>2, <1>3, <1>4, <1>5, <1>6 DEF Next

\* An installed session stays installed.
LEMMA InstalledStays ==
    ASSUME Inductive, [LifecycleNext]_lifecycleVars,
           NEW s \in Session, registerCall[s] = "done"
    PROVE  registerCall'[s] = "done"
<1> USE DEF Inductive, TypeOK
<1>1. ASSUME NEW t \in Session, StartRegister(t) \/ CancelRegister(t) \/ RegisterProceeds(t)
      PROVE registerCall'[s] = "done"
  BY <1>1 DEF StartRegister, CancelRegister, RegisterProceeds, RetryRegister,
              InstallSession, HoldsPrevious
<1>2. ASSUME NEW b \in Stream, NEW t \in Session, OpenStream(b, t)
      PROVE UNCHANGED registerCall
  BY <1>2 DEF OpenStream
<1>3. ASSUME NEW b \in Stream,
             \/ BindStream(b) \/ PublishBegin(b) \/ PublishFail(b) \/ PublishOk(b)
             \/ ActivateStream(b) \/ BeginFrame(b) \/ EndFrame(b) \/ StreamEnds(b)
             \/ DeleteStream(b)
      PROVE UNCHANGED registerCall
  BY <1>3 DEF BindStream, PublishBegin, PublishFail, PublishOk, ActivateStream, BeginFrame,
              EndFrame, StreamEnds, DeleteStream
<1>4. CASE Restart
  BY <1>4 DEF Restart
<1> QED BY <1>1, <1>2, <1>3, <1>4 DEF LifecycleNext, lifecycleVars

\* Ownership moves in three steps: registration, cleanup of the current stream,
\* and a crash.
LEMMA OwnershipStep ==
    ASSUME Inductive, [Next]_vars
    PROVE  \/ UNCHANGED <<grpcSession, retired>>
           \/ \E s \in Session : Register(s)
           \/ \E b \in Stream : CleanUp(b) /\ grpcSession = boundTo[b] /\ grpcSession' = None
           \/ Crash
<1>1. ASSUME NEW s \in Session,
             BeginRegister(s) \/ AbandonRegister(s) \/ RestartRegister(s)
      PROVE UNCHANGED <<grpcSession, retired>>
  BY <1>1 DEF BeginRegister, AbandonRegister, RestartRegister, StartRegister,
              CancelRegister, RetryRegister
<1>2. ASSUME NEW b \in Stream, NEW s \in Session, ConnectStream(b, s)
      PROVE UNCHANGED <<grpcSession, retired>>
  BY <1>2 DEF ConnectStream, OpenStream
<1>3. ASSUME NEW b \in Stream, StreamStep(b), ~CleanUp(b)
      PROVE UNCHANGED <<grpcSession, retired>>
  BY <1>3 DEF StreamStep, UpdateStream, BindStream, Publication, PublishBegin, PublishFail,
              PublishOk, SwapStream, ActivateStream, EndStream, StreamEnds, ReceiveAck,
              DeclineFrame, AdmitFrame, BeginFrame, RouteFrame, EndFrame, lifecycleVars
<1>4. ASSUME NEW b \in Stream, CleanUp(b)
      PROVE UNCHANGED <<grpcSession, retired>> \/ (grpcSession = boundTo[b] /\ grpcSession' = None)
  BY <1>4 DEF CleanUp, DeleteStream
<1>5. ASSUME ForgetSnapshot \/ AgentApplies \/ AgentAnswersOnly \/ AgentSendsFrame
             \/ UNCHANGED vars
      PROVE UNCHANGED <<grpcSession, retired>>
  BY <1>5 DEF ForgetSnapshot, AgentApplies, AgentAnswersOnly, AgentSendsFrame, vars,
              lifecycleVars
<1>6. ASSUME NEW r \in Rpc, NEW q \in Request, Call(r, q)
      PROVE UNCHANGED <<grpcSession, retired>>
  BY <1>6 DEF Call, lifecycleVars
<1>7. ASSUME NEW r \in Rpc, GiveUp(r) \/ RpcStep(r) \/ Deadline(r)
      PROVE UNCHANGED <<grpcSession, retired>>
  BY <1>7, RpcStepSimulation DEF lifecycleVars
<1> QED BY <1>1, <1>2, <1>3, <1>4, <1>5, <1>6, <1>7 DEF Next

\* The leases of a write in progress keep its session.
LEMMA WriterKeepsAgent ==
    ASSUME Inductive, [Next]_vars, ~Crash, NEW s \in Session, Writing(s), OwnsAgent(s)
    PROVE  OwnsAgent(s)'
<1>0. s # None
  BY NoneAssumption
<1>1. ASSUME NEW t \in Session, Register(t) PROVE FALSE
  BY <1>0, <1>1 DEF Register, InstallSession, MayRetire, OwnsAgent
<1>2. ASSUME NEW b \in Stream, CleanUp(b), grpcSession = boundTo[b] PROVE FALSE
  BY <1>0, <1>2 DEF CleanUp, MayRetire, OwnsAgent
<1> QED BY <1>1, <1>2, OwnershipStep DEF OwnsAgent

\* The ACK that completes command c of session s.
Correlates(b, s, c) ==
    /\ ReceiveAck(b) /\ boundTo[b] = s /\ stream[s] = b
    /\ Received(b).id = c /\ c \in PendingCommands(s)
    /\ CorrelateAck(s, Received(b))

\* The steps of call r on its own command.
WorksOn(r, s, c) ==
    /\ rpc[r].session = s /\ IdOf(r) = c
    /\ \/ FailUnsent(r) \/ WriteCommand(r)
       \/ (\E failed \in BOOLEAN : WriteReturns(r, failed))
       \/ Deadline(r)

\* Who changes a command: its call, the admission of a call to the session, the
\* ACK it awaits, or an abort.
LEMMA CommandStep ==
    ASSUME ControlInductive, [Next]_vars, ~Crash, NEW s \in Session, NEW c \in Command,
           command'[s][c] # command[s][c]
    PROVE  \/ \E r \in Rpc : WorksOn(r, s, c)
           \/ \E r \in Rpc : Admit(r) /\ rpc[r].session = s
           \/ \E b \in Stream : Correlates(b, s, c)
           \/ /\ command[s][c].phase = "pending"
              /\ command'[s][c] = Complete(command[s][c], "retryable")
              /\ \/ \E t \in Session : Register(t)
                 \/ \E b \in Stream : UpdateStream(b) \/ SwapStream(b) \/ CleanUp(b)
<1> USE DEF ControlInductive
<1>1. ASSUME NEW t \in Session, command' = [command EXCEPT ![t] = AbortPending(t)]
      PROVE /\ command[s][c].phase = "pending"
            /\ command'[s][c] = Complete(command[s][c], "retryable")
  <2>1. command' [s] = IF s = t THEN AbortPending(s) ELSE command[s]
    BY <1>1 DEF Commands
  <2> QED BY <2>1 DEF AbortPending
<1>2. ASSUME NEW t \in Session, Register(t)
      PROVE /\ command[s][c].phase = "pending"
            /\ command'[s][c] = Complete(command[s][c], "retryable")
  <2>1. previous[t] # None /\ previous[t] \in Session
    BY <1>2 DEF Register, Inductive, TypeOK
  <2> QED BY <1>1, <1>2, <2>1 DEF Register
<1>3. ASSUME NEW b \in Stream, UpdateStream(b) \/ SwapStream(b) \/ CleanUp(b)
      PROVE /\ command[s][c].phase = "pending"
            /\ command'[s][c] = Complete(command[s][c], "retryable")
  <2>1. boundTo[b] \in Session
    BY <1>3 DEF UpdateStream, SwapStream, CleanUp, BindStream, ActivateStream,
                DeleteStream, Inductive, Handlers
  <2> QED BY <1>1, <1>3, <2>1 DEF UpdateStream, SwapStream, CleanUp, AbortForReplacement
<1>4. ASSUME NEW b \in Stream, ReceiveAck(b) PROVE Correlates(b, s, c)
  <2>1. boundTo[b] \in Session
    BY <1>4 DEF ReceiveAck, Inductive, Handlers
  <2>2. /\ Received(b).id \in PendingCommands(boundTo[b])
        /\ CorrelateAck(boundTo[b], Received(b)) /\ stream[boundTo[b]] = b
    BY <1>4 DEF ReceiveAck
  <2>3. \E x : command' = [command EXCEPT ![boundTo[b]][Received(b).id] = x]
    BY <2>2 DEF CorrelateAck
  <2>4. s = boundTo[b] /\ c = Received(b).id
    BY <2>1, <2>2, <2>3 DEF Commands, PendingCommands
  <2> QED BY <1>4, <2>2, <2>4 DEF Correlates
<1>5. ASSUME NEW r \in Rpc, Admit(r) PROVE rpc[r].session = s
  BY <1>5, AdmitCommands
<1>6. ASSUME NEW r \in Rpc,
             FailUnsent(r) \/ WriteCommand(r)
             \/ (\E failed \in BOOLEAN : WriteReturns(r, failed)) \/ Deadline(r)
      PROVE WorksOn(r, s, c)
  <2>1. rpc[r].pc # "idle" /\ \E x : SetState(r, x)
    BY <1>6 DEF FailUnsent, WriteCommand, WriteReturns, Deadline
  <2> QED BY <1>6, <2>1, SetStateElsewhere DEF WorksOn, IdOf
<1>7. ASSUME NEW r \in Rpc, GiveUp(r) \/ AcquireGate(r) \/ Return(r) PROVE FALSE
  BY <1>7 DEF GiveUp, AcquireGate, Return
<1>8. ASSUME NEW r \in Rpc, NEW q \in Request, Call(r, q) PROVE FALSE
  BY <1>8 DEF Call
<1>9. ~CommandsUntouched
  BY UntouchedFrame
<1>10. ~UNCHANGED vars
  BY DEF vars, controlVars
<1> QED
  BY <1>2, <1>3, <1>4, <1>5, <1>6, <1>7, <1>8, <1>9, <1>10
  DEF Next, StreamStep, RpcStep, CommandsUntouched

\* Nobody but the call itself changes what it works on, except to complete it.
LEMMA StateKept ==
    ASSUME ControlInductive, [Next]_vars, ~Crash, NEW r \in Rpc,
           rpc[r].pc \in {"send", "sent", "await"}, rpc'[r] = rpc[r]
    PROVE  \/ StateOf(r)' = StateOf(r)
           \/ /\ StateOf(r).phase = "pending" /\ StateOf(r)'.phase # "pending"
              /\ \/ StateOf(r)'.phase # "applied"
                 \/ \E b \in Stream : Correlates(b, rpc[r].session, IdOf(r))
<1> DEFINE s == rpc[r].session
           c == rpc[r].request.id
<1>1. s \in Session /\ c \in Command /\ Active(r) /\ r \in GateHolders(s)
  BY NullsTyped DEF ControlInductive, Calls, Active, GateHolders
<1>2. StateOf(r) = command[s][c] /\ StateOf(r)' = command'[s][c]
  BY DEF StateOf
<1>3. StateOf(r) \in CommandState
  BY <1>1, StateOfTyped DEF ControlInductive, Active
<1>4. \A phase \in Completed : Complete(StateOf(r), phase).phase = phase
  BY <1>3 DEF Complete, NoCommand, Completed
<1>5. CASE StateOf(r)' = Complete(StateOf(r), "retryable") /\ StateOf(r).phase = "pending"
  BY <1>4, <1>5 DEF Completed
<1>6. ASSUME NEW p \in Rpc, WorksOn(p, s, c)
      PROVE StateOf(r)' = Complete(StateOf(r), "retryable") /\ StateOf(r).phase = "pending"
  <2>1. p \in GateHolders(s)
    BY <1>6 DEF WorksOn, FailUnsent, WriteCommand, WriteReturns, Deadline, GateHolders
  <2>2. p = r
    BY <1>1, <2>1 DEF ControlInductive, GateExcludes
  <2>3. rpc'[r].pc = rpc[r].pc
    OBVIOUS
  <2>4. Deadline(r)
    BY <1>6, <2>2, <2>3
    DEF WorksOn, FailUnsent, WriteCommand, WriteReturns, ControlInductive, Calls, RpcState
  <2> QED BY <1>1, <1>2, <2>4, SetStateElsewhere DEF Deadline, ControlInductive, Active
<1>7. ASSUME NEW p \in Rpc, Admit(p), rpc[p].session = s PROVE FALSE
  <2>1. p \in GateHolders(s) /\ p # r
    BY <1>7 DEF Admit, GateHolders
  <2> QED BY <1>1, <2>1 DEF ControlInductive, GateExcludes
<1>8. ASSUME NEW b \in Stream, Correlates(b, s, c)
      PROVE StateOf(r).phase = "pending" /\ StateOf(r)'.phase # "pending"
  <2>1. PICK phase \in Completed :
          command' = [command EXCEPT ![s][c] = Complete(command[s][c], phase)]
    BY <1>8 DEF Correlates, CorrelateAck, Completed
  <2>2. command'[s][c] = Complete(command[s][c], phase)
    BY <1>1, <2>1 DEF ControlInductive, Commands
  <2> QED BY <1>2, <1>4, <1>8, <2>2 DEF Correlates, PendingCommands, Completed
<1>9. CASE \E b \in Stream : Correlates(b, s, c)
  BY <1>8, <1>9 DEF IdOf
<1> QED BY <1>1, <1>2, <1>5, <1>6, <1>7, <1>9, CommandStep

\* A call at admission finds no command pending.
LEMMA AdmitsAlone ==
    ASSUME ControlInductive, NEW r \in Rpc, rpc[r].pc = "admit"
    PROVE  PendingCommands(rpc[r].session) = {}
<1> USE DEF ControlInductive
<1>1. rpc[r].session \in Session
  BY DEF Calls
<1> SUFFICES ASSUME NEW c \in PendingCommands(rpc[r].session) PROVE FALSE
  OBVIOUS
<1>2. PICK p \in GateHolders(rpc[r].session) : rpc[p].owner
  BY <1>1 DEF PendingOnLiveBinding
<1>3. r \in GateHolders(rpc[r].session) /\ ~rpc[r].owner
  BY DEF GateHolders, Calls
<1> QED BY <1>1, <1>2, <1>3 DEF GateExcludes

\* What a call finds, and leaves, when it is admitted.
LEMMA AdmitOutcome ==
    ASSUME ControlInductive, NEW r \in Rpc, Admit(r)
    PROVE  \/ rpc'[r] = IdleRpc
           \/ /\ rpc' = [rpc EXCEPT ![r].pc = "await"]
              /\ StateOf(r)'.phase # "pending"
           \/ /\ rpc' = [rpc EXCEPT ![r].pc = "send", ![r].owner = TRUE]
              /\ OwnsAgent(rpc[r].session)
              /\ StateOf(r)' = NewCommand(rpc[r].request,
                                         Expected(rpc[r].session, rpc[r].request))
<1> DEFINE s == rpc[r].session
           q == rpc[r].request
<1>1. /\ s \in Session /\ q \in Request /\ q.id \in Command
      /\ rpc \in [Rpc -> RpcState] /\ rpc[r].pc = "admit"
      /\ command \in [Session -> [Command -> CommandState]]
  BY NullsTyped DEF ControlInductive, Calls, Commands, Admit
<1>2. PICK expired \in SUBSET {c \in Command : command[s][c].phase \in Completed} :
         \/ RefuseAdmission(r, expired)
         \/ AttachToKnown(r, expired)
         \/ OwnAttempt(r, expired)
  BY DEF Admit
<1>3. CASE RefuseAdmission(r, expired)
  BY <1>1, <1>3 DEF RefuseAdmission, Finish
<1>4. CASE AttachToKnown(r, expired)
  <2>1. /\ rpc' = [rpc EXCEPT ![r].pc = "await"]
        /\ command' = [command EXCEPT ![s] = Retained(s, expired)]
    BY <1>4 DEF AttachToKnown
  <2>2. rpc'[r].session = s /\ rpc'[r].request = q
    BY <1>1, <2>1 DEF RpcState
  <2>3. StateOf(r)' = Retained(s, expired)[q.id]
    BY <1>1, <2>1, <2>2 DEF StateOf
  <2>4. command[s][q.id].phase # "pending"
    BY <1>1, AdmitsAlone DEF PendingCommands
  <2>5. Retained(s, expired)[q.id].phase # "pending"
    BY <1>1, <2>4 DEF Retained, NoCommand
  <2> QED BY <2>1, <2>3, <2>5
<1>5. CASE OwnAttempt(r, expired)
  <2>1. /\ rpc' = [rpc EXCEPT ![r].pc = "send", ![r].owner = TRUE]
        /\ command' = [command EXCEPT ![s] =
                         [Retained(s, expired) EXCEPT ![q.id] = NewCommand(q, Expected(s, q))]]
        /\ grpcSession = s
    BY <1>5 DEF OwnAttempt
  <2>2. rpc'[r].session = s /\ rpc'[r].request = q
    BY <1>1, <2>1 DEF RpcState
  <2>3. StateOf(r)' = NewCommand(q, Expected(s, q))
    BY <1>1, <2>1, <2>2 DEF StateOf, Retained
  <2>4. OwnsAgent(s)
    BY <1>1, <2>1, NoneAssumption DEF OwnsAgent, ControlInductive, Inductive, Registrations
  <2> QED BY <2>1, <2>3, <2>4
<1> QED BY <1>2, <1>3, <1>4, <1>5

\* An attempt that fails unsent is over.
LEMMA FailOutcome ==
    ASSUME ControlInductive, NEW r \in Rpc, FailUnsent(r)
    PROVE  /\ rpc[r].pc = "send" /\ rpc' = [rpc EXCEPT ![r].pc = "await"]
           /\ StateOf(r)'.phase = "retryable"
<1>1. /\ rpc[r].pc = "send" /\ rpc' = [rpc EXCEPT ![r].pc = "await"]
      /\ SetState(r, Complete(StateOf(r), "retryable"))
  BY DEF FailUnsent
<1>2. StateOf(r)' = Complete(StateOf(r), "retryable")
  BY <1>1, SetStateElsewhere DEF StateOf, ControlInductive, Calls, RpcState
<1> QED BY <1>1, <1>2 DEF Complete, NoCommand

\* A write remembers the binding it used.
LEMMA WriteOutcome ==
    ASSUME ControlInductive, NEW r \in Rpc, WriteCommand(r)
    PROVE  /\ rpc[r].pc = "send" /\ rpc' = [rpc EXCEPT ![r].pc = "sent"]
           /\ StateOf(r)' = [StateOf(r) EXCEPT !.on = stream[rpc[r].session]]
           /\ StateOf(r)'.phase = StateOf(r).phase
           /\ StateOf(r)'.expected = StateOf(r).expected
           /\ StateOf(r)'.on # None
<1>1. /\ rpc[r].pc = "send" /\ rpc' = [rpc EXCEPT ![r].pc = "sent"]
      /\ SetState(r, [StateOf(r) EXCEPT !.on = stream[rpc[r].session]])
      /\ stream[rpc[r].session] # None
  BY DEF WriteCommand
<1>2. StateOf(r)' = [StateOf(r) EXCEPT !.on = stream[rpc[r].session]]
  BY <1>1, SetStateElsewhere DEF StateOf, ControlInductive, Calls, RpcState
<1>3. StateOf(r) \in CommandState
  BY <1>1, StateOfTyped DEF ControlInductive
<1> QED BY <1>1, <1>2, <1>3 DEF CommandState

\* A returned write leaves a completed command alone; it marks a pending one
\* delivered or, after an error, completes it behind the fence.
LEMMA ReturnOutcome ==
    ASSUME ControlInductive, ControlTypes, NEW r \in Rpc, NEW failed \in BOOLEAN,
           WriteReturns(r, failed)
    PROVE  /\ rpc[r].pc = "sent" /\ rpc' = [rpc EXCEPT ![r].pc = "await"]
           /\ \/ /\ StateOf(r).phase # "pending" /\ StateOf(r)' = StateOf(r)
                 /\ UNCHANGED <<command, unreconciled>>
              \/ /\ StateOf(r).phase = "pending" /\ StateOf(r)'.phase = "pending"
                 /\ StateOf(r)' = [StateOf(r) EXCEPT !.delivered = TRUE]
                 /\ StateOf(r)'.expected = StateOf(r).expected
                 /\ StateOf(r)'.on = StateOf(r).on
                 /\ StateOf(r)'.delivered
                 /\ UNCHANGED unreconciled
              \/ /\ StateOf(r).phase = "pending" /\ StateOf(r)'.phase = "retryable"
                 /\ unreconciled' = [unreconciled EXCEPT ![rpc[r].session] = TRUE]
<1> USE DEF ControlInductive
<1>1. /\ rpc[r].pc = "sent" /\ rpc' = [rpc EXCEPT ![r].pc = "await"]
      /\ rpc[r].session \in Session /\ rpc \in [Rpc -> RpcState]
  BY DEF WriteReturns, Calls
<1>2. StateOf(r) \in CommandState
  BY <1>1, StateOfTyped
<1>3. ASSUME NEW x, SetState(r, x) PROVE StateOf(r)' = x
  BY <1>1, <1>3, SetStateElsewhere DEF StateOf, RpcState
<1>4. CASE StateOf(r).phase # "pending"
  <2>1. UNCHANGED command /\ unreconciled' = [unreconciled EXCEPT ![rpc[r].session] = @ \/ FALSE]
    BY <1>4 DEF WriteReturns
  <2>2. UNCHANGED unreconciled
    BY <1>1, <2>1 DEF ControlTypes
  <2>3. StateOf(r)' = StateOf(r)
    BY <1>1, <2>1 DEF StateOf, RpcState
  <2> QED BY <1>1, <1>4, <2>1, <2>2, <2>3
<1>5. CASE StateOf(r).phase = "pending" /\ failed
  <2>1. /\ SetState(r, Complete(StateOf(r), "retryable"))
        /\ unreconciled' = [unreconciled EXCEPT ![rpc[r].session] = TRUE]
    BY <1>5 DEF WriteReturns
  <2>2. StateOf(r)'.phase = "retryable"
    BY <1>3, <2>1 DEF Complete, NoCommand
  <2> QED BY <1>1, <1>5, <2>1, <2>2
<1>6. CASE StateOf(r).phase = "pending" /\ ~failed
  <2>1. /\ SetState(r, [StateOf(r) EXCEPT !.delivered = TRUE])
        /\ unreconciled' = [unreconciled EXCEPT ![rpc[r].session] = @ \/ FALSE]
    BY <1>6 DEF WriteReturns
  <2>2. UNCHANGED unreconciled
    BY <1>1, <2>1 DEF ControlTypes
  <2>3. StateOf(r)' = [StateOf(r) EXCEPT !.delivered = TRUE]
    BY <1>3, <2>1
  <2> QED BY <1>1, <1>2, <1>6, <2>2, <2>3 DEF CommandState
<1> QED BY <1>4, <1>5, <1>6

\* The states of the calls are kept by every step.
LEMMA CallStatesStep ==
    ControlInductive /\ ControlTypes /\ CallStates /\ [Next]_vars => CallStates'
<1> SUFFICES ASSUME ControlInductive, ControlTypes, CallStates, [Next]_vars
             PROVE CallStates'
  OBVIOUS
<1>1. CASE Crash
  BY <1>1 DEF Crash, CallStates, Active, IdleRpc
<1>2. CASE ~Crash
  <2> SUFFICES ASSUME NEW r \in Rpc, Active(r)'
               PROVE /\ IdOf(r)' \in issued'
                     /\ registerCall'[rpc'[r].session] = "done"
                     /\ rpc'[r].pc \in {"send", "sent"} =>
                           /\ grpcSession' = rpc'[r].session
                           /\ rpc'[r].session \notin retired'
                           /\ rpc'[r].owner
                     /\ rpc'[r].pc \in {"sent", "await"} /\ StateOf(r)'.phase = "pending" =>
                           /\ rpc'[r].owner
                           /\ StateOf(r)'.on # None
                           /\ rpc'[r].pc = "await" => StateOf(r)'.delivered
    BY DEF CallStates, OwnsAgent
  <2>1. /\ rpc \in [Rpc -> RpcState] /\ ControlInductive /\ Inductive
        /\ Active(r) =>
              /\ rpc[r].session \in Session /\ rpc[r].request.id \in Command
              /\ IdOf(r) \in issued /\ registerCall[rpc[r].session] = "done"
    BY NullsTyped DEF ControlInductive, Calls, Active, CallStates
  <2>2. Active(r) => IdOf(r) \in issued' /\ registerCall'[rpc[r].session] = "done"
    BY <2>1, IssuedGrows, InstalledStays, StepSimulation
  <2>3. ASSUME NEW s \in Session, s = rpc[r].session, rpc[r].pc \in {"send", "sent"}
        PROVE grpcSession' = s /\ s \notin retired' /\ rpc[r].owner
    <3>1. Active(r) /\ Writing(s)
      BY <2>3 DEF Writing, Active
    <3>2. OwnsAgent(s) /\ rpc[r].owner
      BY <2>3, <3>1 DEF CallStates
    <3> QED BY <1>2, <2>1, <3>1, <3>2, WriterKeepsAgent DEF OwnsAgent
  <2>4. CASE rpc'[r] = rpc[r]
    <3>1. PICK s \in Session : s = rpc[r].session
      BY <2>1, <2>4 DEF Active
    <3>2. Active(r) /\ IdOf(r)' = IdOf(r)
      BY <2>4 DEF Active, IdOf
    <3>3. rpc[r].pc \in {"send", "sent"} => grpcSession' = s /\ s \notin retired'
      BY <2>3, <3>1
    <3>4. rpc[r].pc \in {"sent", "await"} /\ StateOf(r)'.phase = "pending" =>
             StateOf(r)' = StateOf(r)
      BY <1>2, <2>4, StateKept
    <3> QED BY <2>2, <2>4, <3>1, <3>2, <3>3, <3>4 DEF CallStates
  <2>5. ASSUME NEW q \in Request, Call(r, q), rpc'[r] # rpc[r]
        PROVE rpc'[r].pc = "gate" /\ IdOf(r)' \in issued' /\ registerCall'[rpc'[r].session] = "done"
    BY <2>1, <2>5, NoneAssumption
    DEF Call, IdOf, Inductive, TypeOK, Registrations, lifecycleVars
  <2>6. CASE AcquireGate(r)
    BY <2>1, <2>2, <2>6 DEF AcquireGate, Active, IdOf, IdleRpc, RpcState
  <2>7. CASE Admit(r)
    <3>1. PICK s \in Session : s = rpc[r].session
      BY <2>1, <2>7 DEF Active, Admit
    <3>2. Active(r) /\ UNCHANGED <<grpcSession, retired>>
      BY <2>7 DEF Admit, Active, lifecycleVars
    <3>3. CASE rpc' = [rpc EXCEPT ![r].pc = "await"] /\ StateOf(r)'.phase # "pending"
      BY <2>1, <2>2, <3>2, <3>3 DEF IdOf, RpcState
    <3>4. CASE rpc' = [rpc EXCEPT ![r].pc = "send", ![r].owner = TRUE] /\ OwnsAgent(s)
      BY <2>1, <2>2, <3>1, <3>2, <3>4 DEF IdOf, RpcState, OwnsAgent
    <3> QED BY <2>1, <2>7, <3>1, <3>3, <3>4, AdmitOutcome DEF Active, IdleRpc
  <2>8. CASE FailUnsent(r)
    BY <2>1, <2>2, <2>8, FailOutcome DEF IdOf, Active, RpcState
  <2>9. CASE WriteCommand(r)
    <3>1. PICK s \in Session : s = rpc[r].session
      BY <2>1, <2>9 DEF Active, WriteCommand
    <3> QED BY <2>1, <2>2, <2>3, <2>9, <3>1, WriteOutcome DEF IdOf, Active, RpcState
  <2>10. ASSUME NEW failed \in BOOLEAN, WriteReturns(r, failed)
         PROVE /\ rpc'[r].pc = "await" /\ IdOf(r)' = IdOf(r) /\ rpc'[r].session = rpc[r].session
               /\ Active(r)
               /\ StateOf(r)'.phase = "pending" =>
                     rpc'[r].owner /\ StateOf(r)'.on # None /\ StateOf(r)'.delivered
    BY <2>1, <2>10, ReturnOutcome DEF CallStates, Active, IdOf, RpcState
  <2>11. ~(GiveUp(r) \/ Return(r))
    BY <2>1 DEF GiveUp, Return, Finish, Active, IdleRpc
  <2> QED
    BY <1>2, <2>2, <2>4, <2>5, <2>6, <2>7, <2>8, <2>9, <2>10, <2>11, CallMoves
    DEF ControlInductive
<1> QED BY <1>1, <1>2

----------------------------------------------------------------------------
(* What a call reports.                                                    *)

\* The context the Agent is expected to report satisfies the request, and the
\* session has it, reconciled, once the command is applied.
Delivered ==
    \A r \in Rpc : Active(r) /\ rpc[r].owner /\ OwnsAgent(rpc[r].session) =>
        /\ StateOf(r).phase = "pending" =>
              Satisfies(StateOf(r).expected, rpc[r].request)
        /\ StateOf(r).phase = "applied" =>
              /\ ~unreconciled[rpc[r].session]
              /\ Satisfies(context[rpc[r].session], rpc[r].request)

\* expectedContextAfterClear and its counterparts satisfy the request.
LEMMA ExpectedSatisfies ==
    ASSUME NEW s \in Session, NEW q \in Request PROVE Satisfies(Expected(s, q), q)
  BY RequestAssumption DEF Expected, Satisfies, Kind

\* The fence and the context of a session move only when it is installed or
\* while a command of it is pending.
LEMMA FenceStep ==
    ASSUME ControlInductive, ControlTypes, [Next]_vars, ~Crash, NEW s \in Session,
           ~Register(s), PendingCommands(s) = {}
    PROVE  unreconciled'[s] = unreconciled[s] /\ context'[s] = context[s]
<1> USE DEF ControlInductive, ControlTypes, Contexts
<1>1. ASSUME NEW t \in Session, Register(t)
      PROVE unreconciled'[s] = unreconciled[s] /\ context'[s] = context[s]
  BY <1>1 DEF Register
<1>2. ASSUME NEW b \in Stream, UpdateStream(b) \/ SwapStream(b) \/ CleanUp(b)
      PROVE unreconciled'[s] = unreconciled[s] /\ context'[s] = context[s]
  BY <1>2 DEF UpdateStream, SwapStream, CleanUp, AbortForReplacement
<1>3. ASSUME NEW b \in Stream, ReceiveAck(b)
      PROVE unreconciled'[s] = unreconciled[s] /\ context'[s] = context[s]
  BY <1>3 DEF ReceiveAck, CorrelateAck
<1>4. ASSUME NEW r \in Rpc,
             (\E failed \in BOOLEAN : WriteReturns(r, failed)) \/ Deadline(r)
      PROVE unreconciled'[s] = unreconciled[s] /\ context'[s] = context[s]
  <2>1. rpc[r].pc # "idle"
    BY <1>4 DEF WriteReturns, Deadline
  <2>2. rpc[r].session = s => StateOf(r).phase # "pending"
    BY <2>1, NullsTyped DEF Calls, StateOf, PendingCommands
  <2> QED BY <1>4, <2>2 DEF WriteReturns, Deadline
<1>5. ASSUME NEW r \in Rpc,
             GiveUp(r) \/ AcquireGate(r) \/ Admit(r) \/ FailUnsent(r) \/ WriteCommand(r)
             \/ Return(r)
      PROVE UNCHANGED <<unreconciled, context>>
  BY <1>5 DEF GiveUp, AcquireGate, Admit, FailUnsent, WriteCommand, Return
<1>6. ASSUME NEW r \in Rpc, NEW q \in Request, Call(r, q)
      PROVE UNCHANGED <<unreconciled, context>>
  BY <1>6 DEF Call
<1>7. ASSUME CommandsUntouched PROVE UNCHANGED <<unreconciled, context>>
  BY <1>7 DEF CommandsUntouched, BeginRegister, AbandonRegister, RestartRegister,
              ConnectStream, Publication, EndStream, DeclineFrame, AdmitFrame, RouteFrame,
              ForgetSnapshot, AgentApplies, AgentAnswersOnly, AgentSendsFrame, controlVars
<1>8. ASSUME UNCHANGED vars PROVE UNCHANGED <<unreconciled, context>>
  BY <1>8 DEF vars, controlVars
<1> QED
  BY <1>1, <1>2, <1>3, <1>4, <1>5, <1>6, <1>7, <1>8
  DEF Next, StreamStep, RpcStep, CommandsUntouched

\* An installed session is not installed again.
LEMMA OwnedBefore ==
    ASSUME Inductive, [Next]_vars, ~Crash, NEW s \in Session,
           registerCall[s] = "done", OwnsAgent(s)'
    PROVE  OwnsAgent(s) /\ ~Register(s)
<1>0. s # None
  BY NoneAssumption
<1>1. ~Register(s)
  BY DEF Register, InstallSession, HoldsPrevious
<1>2. ASSUME NEW t \in Session, Register(t) PROVE grpcSession' # s
  BY <1>1, <1>2 DEF Register, InstallSession
<1> QED BY <1>0, <1>1, <1>2, OwnershipStep DEF OwnsAgent

\* The only command a call past admission leaves pending is its own.
LEMMA OnlyOwnPending ==
    ASSUME ControlInductive, NEW r \in Rpc, rpc[r].pc \in {"send", "sent", "await"},
           StateOf(r).phase # "pending"
    PROVE  PendingCommands(rpc[r].session) = {}
<1> USE DEF ControlInductive
<1>1. rpc[r].session \in Session /\ r \in GateHolders(rpc[r].session)
  BY DEF Calls, GateHolders
<1> SUFFICES ASSUME NEW c \in PendingCommands(rpc[r].session) PROVE FALSE
  OBVIOUS
<1>2. PICK p \in GateHolders(rpc[r].session) :
         rpc[p].request = command[rpc[r].session][c].request
  BY <1>1 DEF PendingOnLiveBinding
<1>3. p = r
  BY <1>1, <1>2 DEF GateExcludes
<1>4. c \in Command /\ command[rpc[r].session][c].phase = "pending"
      /\ command[rpc[r].session][c].request.id = c
  BY <1>1 DEF PendingCommands, Commands
<1> QED BY <1>2, <1>3, <1>4 DEF StateOf

\* Every step keeps what the calls may report.
LEMMA DeliveredStep ==
    ControlInductive /\ ControlTypes /\ CallStates /\ Delivered /\ [Next]_vars => Delivered'
<1> SUFFICES ASSUME ControlInductive, ControlTypes, CallStates, Delivered, [Next]_vars
             PROVE Delivered'
  OBVIOUS
<1>1. CASE Crash
  BY <1>1 DEF Crash, Delivered, IdleRpc, Active
<1>2. CASE ~Crash
  <2> SUFFICES ASSUME NEW r \in Rpc, rpc'[r].pc # "idle", rpc'[r].owner,
                      grpcSession' = rpc'[r].session, rpc'[r].session \notin retired'
               PROVE /\ StateOf(r)'.phase = "pending" =>
                           Satisfies(StateOf(r)'.expected, rpc'[r].request)
                     /\ StateOf(r)'.phase = "applied" =>
                           /\ ~unreconciled'[rpc'[r].session]
                           /\ Satisfies(context'[rpc'[r].session], rpc'[r].request)
    BY DEF Delivered, OwnsAgent, Satisfies, Active
  <2>1. /\ rpc \in [Rpc -> RpcState] /\ Inductive /\ Calls /\ Commands
        /\ rpc[r].pc # "idle" =>
              /\ Active(r)
              /\ registerCall[rpc[r].session] = "done"
              /\ rpc[r].session \in Session
              /\ rpc[r].request \in Request /\ rpc[r].request.id \in Command
              /\ rpc[r].owner => rpc[r].pc \in {"send", "sent", "await"}
    BY NullsTyped DEF ControlInductive, Calls, Active, CallStates
  <2>2. rpc'[r].pc \in {"send", "sent", "await"}
    BY CallsStep DEF Calls
  <2>3. CASE rpc'[r] = rpc[r]
    <3>1. PICK s \in Session : s = rpc[r].session
      BY <2>1, <2>2, <2>3
    <3>2. registerCall[s] = "done" /\ OwnsAgent(s)'
      BY <2>1, <2>2, <2>3, <3>1 DEF OwnsAgent
    <3>3. OwnsAgent(s) /\ ~Register(s)
      BY <1>2, <2>1, <3>2, OwnedBefore
    <3>4. /\ StateOf(r).phase = "pending" =>
                Satisfies(StateOf(r).expected, rpc[r].request)
          /\ StateOf(r).phase = "applied" =>
                ~unreconciled[s] /\ Satisfies(context[s], rpc[r].request)
      BY <2>1, <2>2, <2>3, <3>1, <3>3 DEF Delivered
    <3>5. StateOf(r).phase = "applied" =>
             unreconciled'[s] = unreconciled[s] /\ context'[s] = context[s]
      BY <1>2, <2>2, <2>3, <3>1, <3>3, OnlyOwnPending, FenceStep
    <3>6. ASSUME NEW b \in Stream, Correlates(b, rpc[r].session, IdOf(r)),
                 StateOf(r)'.phase = "applied", StateOf(r).phase = "pending"
          PROVE ~unreconciled'[s] /\ context'[s] = StateOf(r).expected
      <4> DEFINE c == rpc[r].request.id
      <4>1. CorrelateAck(s, Received(b)) /\ Received(b).id = c /\ c \in Command
        BY <2>1, <2>2, <2>3, <3>1, <3>6 DEF Correlates, IdOf
      <4>2. StateOf(r) = command[s][c] /\ StateOf(r)' = command'[s][c]
        BY <2>3, <3>1 DEF StateOf
      <4>3. command[s][c] \in CommandState
        BY <2>1, <4>1 DEF Commands
      <4>4. \A phase \in Completed : Complete(command[s][c], phase).phase = phase
        BY <4>3 DEF Complete, NoCommand, Completed
      <4>5. PICK phase \in Completed :
              /\ command' = [command EXCEPT ![s][c] = Complete(command[s][c], phase)]
              /\ phase = "applied" =>
                   Received(b).status = "applied" /\ Received(b).active = command[s][c].expected
        BY <4>1 DEF CorrelateAck, Completed
      <4>6. command'[s][c] = Complete(command[s][c], phase)
        BY <2>1, <4>1, <4>5 DEF Commands
      <4>7. phase = "applied"
        BY <3>6, <4>2, <4>4, <4>6
      <4>8. /\ context' = [context EXCEPT ![s] = command[s][c].expected]
            /\ unreconciled' = [unreconciled EXCEPT ![s] = FALSE]
        BY <4>1, <4>5, <4>7 DEF CorrelateAck, FenceAfter
      <4> QED BY <4>2, <4>8 DEF ControlInductive, Contexts, ControlTypes
    <3>7. CASE StateOf(r)' = StateOf(r)
      BY <2>3, <3>1, <3>4, <3>5, <3>7
    <3>8. CASE StateOf(r)' # StateOf(r)
      BY <1>2, <2>2, <2>3, <3>1, <3>4, <3>6, <3>8, StateKept
    <3> QED BY <3>7, <3>8
  <2>4. CASE Admit(r)
    <3>1. /\ rpc' = [rpc EXCEPT ![r].pc = "send", ![r].owner = TRUE]
          /\ StateOf(r)' = NewCommand(rpc[r].request,
                                     Expected(rpc[r].session, rpc[r].request))
      BY <2>1, <2>4, AdmitOutcome DEF IdleRpc, Admit, RpcState
    <3>2. /\ rpc'[r].request = rpc[r].request
          /\ StateOf(r)'.phase = "pending"
          /\ StateOf(r)'.expected = Expected(rpc[r].session, rpc[r].request)
      BY <2>1, <3>1 DEF NewCommand, RpcState
    <3> QED BY <2>1, <2>4, <3>2, ExpectedSatisfies DEF Admit
  <2>5. ASSUME NEW pc \in RpcPc, rpc' = [rpc EXCEPT ![r].pc = pc], rpc[r].pc # "idle",
               UNCHANGED <<lifecycleVars, context>>,
               /\ StateOf(r)'.phase = "pending" =>
                     /\ StateOf(r).phase = "pending"
                     /\ StateOf(r)'.expected = StateOf(r).expected
               /\ StateOf(r)'.phase = "applied" =>
                     StateOf(r).phase = "applied" /\ UNCHANGED unreconciled
        PROVE /\ StateOf(r)'.phase = "pending" =>
                    Satisfies(StateOf(r)'.expected, rpc'[r].request)
              /\ StateOf(r)'.phase = "applied" =>
                    /\ ~unreconciled'[rpc'[r].session]
                    /\ Satisfies(context'[rpc'[r].session], rpc'[r].request)
    <3>1. /\ rpc'[r].session = rpc[r].session /\ rpc'[r].request = rpc[r].request
          /\ rpc'[r].owner = rpc[r].owner /\ OwnsAgent(rpc[r].session)
      BY <2>1, <2>5 DEF RpcState, OwnsAgent, lifecycleVars
    <3> QED BY <2>1, <2>5, <3>1 DEF Delivered
  <2>6. CASE FailUnsent(r)
    BY <2>6, FailOutcome
  <2>7. CASE WriteCommand(r)
    BY <2>5, <2>7, WriteOutcome DEF WriteCommand, RpcPc
  <2>8. ASSUME NEW failed \in BOOLEAN, WriteReturns(r, failed)
        PROVE /\ StateOf(r)'.phase = "pending" =>
                    Satisfies(StateOf(r)'.expected, rpc'[r].request)
              /\ StateOf(r)'.phase = "applied" =>
                    /\ ~unreconciled'[rpc'[r].session]
                    /\ Satisfies(context'[rpc'[r].session], rpc'[r].request)
    <3>1. UNCHANGED <<lifecycleVars, context>> /\ "await" \in RpcPc
      BY <2>8 DEF WriteReturns, RpcPc
    <3> QED BY <2>5, <2>8, <3>1, ReturnOutcome
  <2>9. ~(\/ \E q \in Request : Call(r, q)
          \/ GiveUp(r) \/ AcquireGate(r) \/ Return(r))
    BY <2>1, <2>2 DEF Call, GiveUp, AcquireGate, Return, Finish, IdleRpc, RpcState
  <2> QED
    BY <1>2, <2>1, <2>3, <2>4, <2>6, <2>7, <2>8, <2>9, CallMoves
<1> QED BY <1>1, <1>2

----------------------------------------------------------------------------
(* The theorems.                                                           *)

OutcomeInductive ==
    /\ ControlInductive
    /\ ControlTypes /\ AgentTypes /\ FrameHeld
    /\ CallStates
    /\ Delivered

\* Nothing is issued or sent at the start.
LEMMA OutcomeInit == Init => OutcomeInductive
<1> SUFFICES ASSUME Init PROVE OutcomeInductive
  OBVIOUS
<1>1. ControlInductive
  BY ControlInit
<1>2. ControlTypes /\ AgentTypes
  BY ConfigAssumption DEF Init, ControlTypes, AgentTypes
<1>3. FrameHeld
  BY DEF Init, LifecycleInit, FrameHeld
<1>4. CallStates /\ Delivered
  BY DEF Init, CallStates, Delivered, Active, IdleRpc
<1> QED BY <1>1, <1>2, <1>3, <1>4 DEF OutcomeInductive

\* The inductive invariant of types and outcomes.
THEOREM OutcomeInvariant == Spec => []OutcomeInductive
<1>1. ControlInductive /\ [Next]_vars => ControlInductive'
  BY InductiveStep, StepSimulation, CallsStep, CommandsStep, ContextsStep, GateStep,
     PendingStep DEF ControlInductive
<1>2. OutcomeInductive /\ [Next]_vars => OutcomeInductive'
  BY <1>1, ControlTypesStep, AgentTypesStep, FrameHeldStep, CallStatesStep, DeliveredStep
  DEF OutcomeInductive, ControlInductive
<1> QED BY OutcomeInit, <1>2, PTL DEF Spec

\* Type correctness of the control state, the Agent and the messages between them.
THEOREM ControlTypesCorrect == Spec => []ControlTypeOK
<1>1. OutcomeInductive => ControlTypeOK
  BY DEF OutcomeInductive, ControlInductive, Inductive, Calls, Commands, Contexts,
         ControlTypes, AgentTypes, ControlTypeOK
<1> QED BY OutcomeInvariant, <1>1, PTL

\* A Set or Clear that delivered its command and reports APPLIED leaves the live
\* session reconciled, with the context that was asked for, however callers use
\* command IDs and whatever fenced the session before.
THEOREM DeliveredSuccess == Spec => DeliveredSuccessReconciles
<1> DEFINE Reconciles ==
      \A r \in Rpc :
          ReturnsApplied(r) /\ rpc[r].owner =>
             /\ ~unreconciled[rpc[r].session]
             /\ Satisfies(context[rpc[r].session], rpc[r].request)
<1>1. OutcomeInductive => Reconciles
  <2> SUFFICES ASSUME OutcomeInductive, NEW r \in Rpc, ReturnsApplied(r), rpc[r].owner
               PROVE /\ ~unreconciled[rpc[r].session]
                     /\ Satisfies(context[rpc[r].session], rpc[r].request)
    OBVIOUS
  <2>1. Active(r) /\ rpc[r].session \in Session /\ StateOf(r).phase = "applied"
        /\ grpcSession = rpc[r].session
    BY DEF ReturnsApplied, Active, OutcomeInductive, ControlInductive, Calls
  <2>2. OwnsAgent(rpc[r].session)
    BY <2>1, NoneAssumption
    DEF OwnsAgent, OutcomeInductive, ControlInductive, Inductive, Registrations
  <2> QED BY <2>1, <2>2 DEF OutcomeInductive, Delivered
<1> QED BY OutcomeInvariant, <1>1, PTL DEF DeliveredSuccessReconciles
=============================================================================
