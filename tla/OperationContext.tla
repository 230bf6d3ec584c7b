-------------------------- MODULE OperationContext --------------------------
(***************************************************************************)
(* Operation-context control of one Agent, on top of its sessions and      *)
(* streams: SetOperationContext and ClearOperationContext                  *)
(* (internal/relay/apiserver.go), the acknowledgements and telemetry the   *)
(* stream handlers receive (gatewayserver.go), what session retirement and *)
(* stream replacement do to commands in flight, and the reconnect cache    *)
(* (relay.go).  Every action is an action of StreamLifecycle with the      *)
(* control state it also changes, or leaves StreamLifecycle alone.         *)
(*                                                                         *)
(* An operation context (aircraft, flight, intent, version) is a member of *)
(* Flight; None is the empty context.  A request is a durable command ID   *)
(* and its payload; its fingerprint is the request itself.  state.done and *)
(* session.pending[id] exist exactly while the command's phase is          *)
(* "pending".  Time is abstract: a deadline may pass, and a retained       *)
(* outcome or a cached snapshot may expire, whenever the code looks.       *)
(***************************************************************************)
EXTENDS StreamLifecycle, Sequences

CONSTANTS
    Flight,     \* operation contexts
    Request,    \* what callers may ask for: [id, kind, flight]
    Rpc,        \* concurrent Set/Clear calls
    Control,    \* TRUE iff r.controlAuthorizer # nil
    Auth,       \* TRUE iff r.agentAuthenticator # nil
    Api,        \* how callers use command IDs, see MayIssue
    Window,     \* bound: messages in flight in each direction of a stream
    FrameWindow \* bound: frames among the messages in flight to the Relay

Command == {q.id : q \in Request}
Context == Flight \cup {None}
Kind == {"set", "clear", "reset"}     \* "reset" is the authoritative clear

ASSUME FlightAssumption == None \notin Flight
ASSUME RequestAssumption ==
    /\ Request \subseteq [id : Nat, kind : Kind, flight : Context]
    /\ None \notin Request
    /\ \A q \in Request : q.flight = None <=> q.kind = "reset"
ASSUME ConfigAssumption ==
    /\ Control \in BOOLEAN /\ Auth \in BOOLEAN
    /\ Api \in {"serial", "once", "free"}
    /\ Registry => Auth            \* relay.New
    /\ Window \in Nat \ {0} /\ FrameWindow \in Nat

VARIABLES
    context,        \* the session's acknowledged context
    unreconciled,   \* session.operationContextUnreconciled
    emptyCommand,   \* session.emptyContextCommandID
    command,        \* session.operationCommands, by session and command ID
    rpc,            \* the Set/Clear calls in progress
    reconnect,      \* r.disconnectedOperationContexts[agentID]
    issued,         \* the command IDs callers have used
    agentContext,   \* external: the Agent's durable context
    journal,        \* external: the Agent's durable command journal
    agentStream,    \* external: the stream the Agent opened last
    toAgent,        \* written to agentStream, not yet taken by the Agent
    toRelay         \* sent on a stream, not yet received by its handler

controlVars == <<context, unreconciled, emptyCommand, command, rpc, reconnect,
                 issued>>
agentVars == <<agentContext, journal, agentStream, toAgent, toRelay>>
vars == <<lifecycleVars, controlVars, agentVars>>

\* operationCommandState.  "retryable" is a completed state with an error or a
\* TEMPORARY_ERROR ack; "on" is the binding the command was written to.
Phase == {"absent", "pending", "applied", "retryable", "rejected"}
CommandState == [phase : Phase, request : Request \cup {None},
                 expected : Context, delivered : BOOLEAN,
                 on : Stream \cup {None}]
NoCommand == [phase |-> "absent", request |-> None, expected |-> None,
              delivered |-> FALSE, on |-> None]
NewCommand(q, expected) ==
    [phase |-> "pending", request |-> q, expected |-> expected,
     delivered |-> FALSE, on |-> None]
Completed == {"applied", "retryable", "rejected"}

\* The state completes; what only a pending command needs is dropped.
Complete(state, phase) ==
    [NoCommand EXCEPT !.phase = phase, !.request = state.request]

Snapshot == [context : Context, unreconciled : BOOLEAN,
             emptyCommand : Command \cup {None}]

\* Mutant of FreshContext: a session without a known context is not fenced.
OpenContext == [context |-> None, unreconciled |-> FALSE, emptyCommand |-> None]

\* The context of a session nothing is known of.
FreshContext == [context |-> None, unreconciled |-> Control,
                 emptyCommand |-> None]

RpcPc == {"idle", "gate", "admit", "send", "sent", "await"}
RpcState == [pc : RpcPc, session : Session \cup {None},
             request : Request \cup {None}, owner : BOOLEAN]
IdleRpc == [pc |-> "idle", session |-> None, request |-> None, owner |-> FALSE]

\* What the Agent sends: a command ACK (STATUS_ALREADY_APPLIED counts as
\* "applied") or a telemetry frame, with the Agent's context when it was sent.
Upstream == [kind : {"ack", "frame"}, id : Command \cup {None},
             status : {"applied", "temporary", "rejected", "none"},
             active : Context]
AckMessage(q, status, active) ==
    [kind |-> "ack", id |-> q.id, status |-> status, active |-> active]
FrameMessage(active) ==
    [kind |-> "frame", id |-> None, status |-> "none", active |-> active]

\* What every variable ranges over.
ControlTypeOK ==
    /\ TypeOK
    /\ context \in [Session -> Context]
    /\ unreconciled \in [Session -> BOOLEAN]
    /\ emptyCommand \in [Session -> Command \cup {None}]
    /\ command \in [Session -> [Command -> CommandState]]
    /\ rpc \in [Rpc -> RpcState]
    /\ reconnect \in Snapshot \cup {None}
    /\ issued \in SUBSET Command
    /\ agentContext \in Context
    /\ journal \in [Command -> Request \cup {None}]
    /\ agentStream \in Stream \cup {None}
    /\ toAgent \in Seq(Request)
    /\ toRelay \in [Stream -> Seq(Upstream)]

Init ==
    /\ LifecycleInit
    /\ context = [s \in Session |-> None]
    /\ unreconciled = [s \in Session |-> Control]
    /\ emptyCommand = [s \in Session |-> None]
    /\ command = [s \in Session |-> [c \in Command |-> NoCommand]]
    /\ rpc = [r \in Rpc |-> IdleRpc]
    /\ reconnect = None
    /\ issued = {}
    /\ agentContext \in Context
    /\ journal = [c \in Command |-> None]
    /\ agentStream = None
    /\ toAgent = <<>>
    /\ toRelay = [b \in Stream |-> <<>>]

----------------------------------------------------------------------------
(* Commands in flight, and the leases their writes hold.                   *)

PendingCommands(s) == {c \in Command : command[s][c].phase = "pending"}

\* Mutant of Writing: the leases are kept while the call awaits its ACK.
WritingUntilAck(s) ==
    \E r \in Rpc : rpc[r].session = s /\ rpc[r].pc \in {"send", "sent", "await"}

\* A call writing a command holds s.ownershipMu and s.controlStreamMu for
\* reading from admission until Send has returned.
Writing(s) ==
    \E r \in Rpc : rpc[r].session = s /\ rpc[r].pc \in {"send", "sent"}

\* Both kinds of lease are free: retirement and cleanup may take the write side.
MayRetire(s) == s # None => ~Writing(s)

\* Mutant of AbortPending: the waiters are left alone.
AbortNothing(s) == command[s]

\* Every command of s still pending completes with Aborted.
AbortPending(s) ==
    [c \in Command |-> IF command[s][c].phase = "pending"
                       THEN Complete(command[s][c], "retryable")
                       ELSE command[s][c]]

\* Mutant of Uncertain: only the session's own fence is copied.
FencedOnly(s) == unreconciled[s]

\* The Agent may have applied something Relay has no ACK for.
Uncertain(s) ==
    \/ unreconciled[s]
    \/ \E c \in PendingCommands(s) : command[s][c].delivered

\* snapshotContextAndAbortPending, the snapshot: a delivered command without an
\* ACK makes the context uncertain; a reservation is kept only with a
\* reconciled context or for a command still in flight.
SnapshotOf(s) ==
    [context |-> context[s],
     unreconciled |-> Uncertain(s),
     emptyCommand |-> IF Uncertain(s) /\ emptyCommand[s] \notin PendingCommands(s)
                      THEN None ELSE emptyCommand[s]]

\* Mutant of AbortForReplacement: the commands are aborted, telemetry goes on.
AbortWithoutFence(s) ==
    /\ command' = [command EXCEPT ![s] = AbortPending(s)]
    /\ UNCHANGED unreconciled

\* abortPendingCommandsForStreamReplacement.
AbortForReplacement(s) ==
    /\ command' = [command EXCEPT ![s] = AbortPending(s)]
    /\ unreconciled' = [unreconciled EXCEPT ![s] = @ \/ PendingCommands(s) # {}]

----------------------------------------------------------------------------
(* Sessions and streams.                                                   *)

BeginRegister(s) ==
    /\ StartRegister(s)
    /\ UNCHANGED <<controlVars, agentVars>>

AbandonRegister(s) ==
    /\ CancelRegister(s)
    /\ MayRetire(previous[s])
    /\ UNCHANGED <<controlVars, agentVars>>

RestartRegister(s) ==
    /\ RetryRegister(s)
    /\ MayRetire(previous[s])
    /\ UNCHANGED <<controlVars, agentVars>>

\* What a new session starts from: with Agent authentication the previous
\* session's snapshot or the cached one, else a fresh context.
Inherited(s) ==
    IF ~Auth THEN FreshContext
    ELSE IF previous[s] # None THEN SnapshotOf(previous[s])
    ELSE IF reconnect # None THEN reconnect
    ELSE FreshContext

Register(s) ==
    /\ InstallSession(s)
    /\ MayRetire(previous[s])
    /\ context' = [context EXCEPT ![s] = Inherited(s).context]
    /\ unreconciled' = [unreconciled EXCEPT ![s] = Inherited(s).unreconciled]
    /\ emptyCommand' = [emptyCommand EXCEPT ![s] = Inherited(s).emptyCommand]
    /\ command' = IF previous[s] = None THEN command
                  ELSE [command EXCEPT ![previous[s]] = AbortPending(previous[s])]
    /\ reconnect' = IF Auth /\ previous[s] = None THEN None ELSE reconnect
    /\ UNCHANGED <<rpc, issued, agentVars>>

\* The Agent gives up its older stream, and what was still on its way to it,
\* when it opens another.
ConnectStream(b, s) ==
    /\ OpenStream(b, s)
    /\ agentStream' = b
    /\ toAgent' = <<>>
    /\ UNCHANGED <<controlVars, agentContext, journal, toRelay>>

\* updateStream; without a Registry it swaps the accepted binding, behind
\* controlStreamMu, and fences commands that await evidence from the old one.
UpdateStream(b) ==
    LET s == boundTo[b] IN
    /\ BindStream(b)
    /\ IF Registry \/ ~OwnsAgent(s)
       THEN UNCHANGED <<command, unreconciled>>
       ELSE /\ ~Writing(s)
            /\ IF stream[s] = None THEN UNCHANGED <<command, unreconciled>>
                                   ELSE AbortForReplacement(s)
    /\ UNCHANGED <<context, emptyCommand, rpc, reconnect, issued, agentVars>>

Publication(b) ==
    /\ PublishBegin(b) \/ PublishFail(b) \/ PublishOk(b)
    /\ UNCHANGED <<controlVars, agentVars>>

\* The active-binding swap waits for a command write in progress.
SwapStream(b) ==
    LET s == boundTo[b] IN
    /\ ActivateStream(b)
    /\ ~Writing(s)
    /\ IF stream'[s] = b /\ stream[s] # None
       THEN AbortForReplacement(s)
       ELSE UNCHANGED <<command, unreconciled>>
    /\ UNCHANGED <<context, emptyCommand, rpc, reconnect, issued, agentVars>>

EndStream(b) ==
    /\ StreamEnds(b)
    /\ UNCHANGED <<controlVars, agentVars>>

\* deleteStream: a session that dies with its stream leaves its snapshot in the
\* reconnect cache when control and Agent authentication are configured.
CleanUp(b) ==
    LET s == boundTo[b] IN
    /\ DeleteStream(b)
    /\ MayRetire(s)
    /\ IF s \in retired' \ retired
       THEN /\ command' = [command EXCEPT ![s] = AbortPending(s)]
            /\ reconnect' = IF Control /\ Auth THEN SnapshotOf(s) ELSE reconnect
       ELSE UNCHANGED <<command, reconnect>>
    /\ toRelay' = [toRelay EXCEPT ![b] = <<>>]
    /\ UNCHANGED <<context, unreconciled, emptyCommand, rpc, issued,
                   agentContext, journal, agentStream, toAgent>>

\* The cached snapshot passes its five minutes, or another Agent's disconnect
\* evicts it from the full cache.
ForgetSnapshot ==
    /\ reconnect # None
    /\ reconnect' = None
    /\ UNCHANGED <<lifecycleVars, context, unreconciled, emptyCommand, command,
                   rpc, issued, agentVars>>

\* Process memory is lost; the Agent's durable state is not.
Crash ==
    /\ Restart
    /\ rpc' = [r \in Rpc |-> IdleRpc]
    /\ context' = [s \in Session |-> None]
    /\ unreconciled' = [s \in Session |-> Control]
    /\ emptyCommand' = [s \in Session |-> None]
    /\ command' = [s \in Session |-> [c \in Command |-> NoCommand]]
    /\ reconnect' = None
    /\ toRelay' = [b \in Stream |-> <<>>]
    /\ UNCHANGED <<issued, agentContext, journal, agentStream, toAgent>>

----------------------------------------------------------------------------
(* SetOperationContext and ClearOperationContext.                          *)

\* Holder of the session's operationGate: one Set/Clear at a time.
GateHolders(s) ==
    {r \in Rpc : /\ rpc[r].session = s
                 /\ rpc[r].pc \in {"admit", "send", "sent", "await"}}

\* Mutant of GateFree: the gate does not exclude.
GateAlwaysFree(s) == TRUE

\* The gate's token is in the channel.
GateFree(s) == GateHolders(s) = {}

\* The command state a call works on.
StateOf(r) == command[rpc[r].session][rpc[r].request.id]

SetState(r, state) ==
    command' = [command EXCEPT ![rpc[r].session][rpc[r].request.id] = state]

\* How callers use command IDs.  "serial": a caller may repeat a request, but has
\* left a command ID behind for good when it uses the next.  "once": any calls
\* may overlap, none is repeated.  "free": both.
MayIssue(q) ==
    \/ Api = "free"
    \/ Api = "once" /\ q.id \notin issued
    \/ Api = "serial" /\ (\A c \in issued : c <= q.id)
                      /\ (\A r \in Rpc : rpc[r].pc # "idle" => rpc[r].request.id = q.id)

\* An authorized, valid call that finds a session (currentControlSession).
Call(r, q) ==
    /\ Control
    /\ rpc[r].pc = "idle"
    /\ grpcSession # None
    /\ LeaseAvailable(grpcSession)
    /\ MayIssue(q)
    /\ rpc' = [rpc EXCEPT ![r] = [pc |-> "gate", session |-> grpcSession,
                                  request |-> q, owner |-> FALSE]]
    /\ issued' = issued \cup {q.id}
    /\ UNCHANGED <<lifecycleVars, context, unreconciled, emptyCommand, command,
                   reconnect, agentVars>>

\* The caller's context ends while it waits for the gate.
GiveUp(r) ==
    /\ rpc[r].pc = "gate"
    /\ rpc' = [rpc EXCEPT ![r] = IdleRpc]
    /\ UNCHANGED <<lifecycleVars, context, unreconciled, emptyCommand, command,
                   reconnect, issued, agentVars>>

\* reserveEmptyContextReconciliation would succeed.
MayReserve(s, c) ==
    IF emptyCommand[s] # None THEN emptyCommand[s] = c ELSE unreconciled[s]

\* The reservation a request leaves in the session; its mutant stores the session's
\* ID instead of the command's.
ReservesSession(s, q) == IF q.kind = "reset" THEN s ELSE emptyCommand[s]
Reservation(s, q) == IF q.kind = "reset" THEN q.id ELSE emptyCommand[s]

\* acquireOperationCommandSlot, and for an authoritative clear the reservation
\* of the one command that may assert an empty context.
AcquireGate(r) ==
    LET s == rpc[r].session
        q == rpc[r].request
    IN
    /\ rpc[r].pc = "gate"
    /\ GateFree(s)
    /\ IF q.kind = "reset" /\ ~MayReserve(s, q.id)
       THEN /\ rpc' = [rpc EXCEPT ![r] = IdleRpc]
            /\ UNCHANGED emptyCommand
       ELSE /\ rpc' = [rpc EXCEPT ![r].pc = "admit"]
            /\ emptyCommand' = [emptyCommand EXCEPT ![s] = Reservation(s, q)]
    /\ UNCHANGED <<lifecycleVars, context, unreconciled, command, reconnect,
                   issued, agentVars>>

\* The context the Agent must report back (expectedContextAfterClear).
Expected(s, q) ==
    CASE q.kind = "set" -> q.flight
      [] q.kind = "reset" -> None
      [] q.kind = "clear" -> IF context[s] \in {None, q.flight} THEN None
                                                               ELSE context[s]

\* The command table after prepareCommandIDAdmissionLocked and
\* makeOperationCommandRoomLocked forgot some completed outcomes.
Retained(s, expired) ==
    [c \in Command |-> IF c \in expired THEN NoCommand ELSE command[s][c]]

\* The call returns: releaseEmptyContextReconciliation, then the gate.
Finish(r) ==
    LET s == rpc[r].session
        q == rpc[r].request
    IN
    /\ rpc' = [rpc EXCEPT ![r] = IdleRpc]
    /\ emptyCommand' =
         IF q.kind = "reset" /\ emptyCommand[s] = q.id /\ unreconciled[s]
         THEN [emptyCommand EXCEPT ![s] = None] ELSE emptyCommand

\* The session is gone before delivery, or the ID was used with another payload.
RefuseAdmission(r, expired) ==
    LET s == rpc[r].session
        q == rpc[r].request
        known == Retained(s, expired)[q.id]
    IN
    /\ \/ grpcSession # s /\ expired = {}
       \/ grpcSession = s /\ known.phase # "absent" /\ known.request # q
    /\ Finish(r)
    /\ command' = [command EXCEPT ![s] = Retained(s, expired)]

\* beginOperationCommand with a retained outcome that is not retryable, or with
\* a pending command: the call only waits for that state.
AttachToKnown(r, expired) ==
    LET s == rpc[r].session
        q == rpc[r].request
        known == Retained(s, expired)[q.id]
    IN
    /\ grpcSession = s
    /\ known.request = q
    /\ known.phase \in {"pending", "applied", "rejected"}
    /\ rpc' = [rpc EXCEPT ![r].pc = "await"]
    /\ command' = [command EXCEPT ![s] = Retained(s, expired)]
    /\ UNCHANGED emptyCommand

\* beginOperationCommand makes the call the owner of a new attempt.
OwnAttempt(r, expired) ==
    LET s == rpc[r].session
        q == rpc[r].request
        known == Retained(s, expired)[q.id]
    IN
    /\ grpcSession = s
    /\ known.phase = "absent" \/ (known.request = q /\ known.phase = "retryable")
    /\ rpc' = [rpc EXCEPT ![r].pc = "send", ![r].owner = TRUE]
    /\ command' = [command EXCEPT ![s] =
                     [Retained(s, expired) EXCEPT ![q.id] =
                        NewCommand(q, Expected(s, q))]]
    /\ UNCHANGED emptyCommand

\* The gated call takes the ownership lease and enters
\* beginOperationCommandDelivery.
Admit(r) ==
    LET s == rpc[r].session IN
    /\ rpc[r].pc = "admit"
    /\ LeaseAvailable(s)
    /\ \E expired \in SUBSET {c \in Command : command[s][c].phase \in Completed} :
          \/ RefuseAdmission(r, expired)
          \/ AttachToKnown(r, expired)
          \/ OwnAttempt(r, expired)
    /\ UNCHANGED <<lifecycleVars, context, unreconciled, reconnect, issued,
                   agentVars>>

\* No stream, or the context ended before Send: the attempt fails unsent.
FailUnsent(r) ==
    /\ rpc[r].pc = "send"
    /\ rpc' = [rpc EXCEPT ![r].pc = "await"]
    /\ SetState(r, Complete(StateOf(r), "retryable"))
    /\ UNCHANGED <<lifecycleVars, context, unreconciled, emptyCommand, reconnect,
                   issued, agentVars>>

\* Send on the accepted binding.  The message reaches the Agent only if that is
\* the Agent's stream, and may be lost with the connection even then; a full
\* flow-control window blocks the write.
WriteCommand(r) ==
    LET b == stream[rpc[r].session] IN
    /\ rpc[r].pc = "send"
    /\ b # None
    /\ rpc' = [rpc EXCEPT ![r].pc = "sent"]
    /\ SetState(r, [StateOf(r) EXCEPT !.on = b])
    /\ \/ UNCHANGED toAgent
       \/ /\ b = agentStream
          /\ Len(toAgent) < Window
          /\ toAgent' = Append(toAgent, rpc[r].request)
    /\ UNCHANGED <<lifecycleVars, context, unreconciled, emptyCommand, reconnect,
                   issued, agentContext, journal, agentStream, toRelay>>

\* Send returned: markOperationCommandDelivered and, after an error,
\* finishOperationCommand, which fences the session.  Both leave a command
\* alone that its ACK has completed already.
WriteReturns(r, failed) ==
    LET s == rpc[r].session
        open == StateOf(r).phase = "pending"
    IN
    /\ rpc[r].pc = "sent"
    /\ rpc' = [rpc EXCEPT ![r].pc = "await"]
    /\ IF open
       THEN SetState(r, IF failed THEN Complete(StateOf(r), "retryable")
                        ELSE [StateOf(r) EXCEPT !.delivered = TRUE])
       ELSE UNCHANGED command
    /\ unreconciled' = [unreconciled EXCEPT ![s] = @ \/ (open /\ failed)]
    /\ UNCHANGED <<lifecycleVars, context, emptyCommand, reconnect, issued,
                   agentVars>>

\* awaitOperationCommand: the owner's deadline passes before the ACK.
Deadline(r) ==
    LET s == rpc[r].session IN
    /\ rpc[r].pc = "await" /\ rpc[r].owner
    /\ StateOf(r).phase = "pending"
    /\ SetState(r, Complete(StateOf(r), "retryable"))
    /\ unreconciled' = [unreconciled EXCEPT ![s] = @ \/ StateOf(r).delivered]
    /\ UNCHANGED <<lifecycleVars, context, emptyCommand, rpc, reconnect, issued,
                   agentVars>>

\* awaitOperationCommand sees the command completed.
Return(r) ==
    /\ rpc[r].pc = "await"
    /\ StateOf(r).phase # "pending"
    /\ Finish(r)
    /\ UNCHANGED <<lifecycleVars, context, unreconciled, command, reconnect,
                   issued, agentVars>>

\* The call reports the Agent's APPLIED acknowledgement to its caller.
ReturnsApplied(r) ==
    /\ rpc[r].pc = "await" /\ rpc'[r].pc = "idle"
    /\ StateOf(r).phase = "applied"
    /\ grpcSession = rpc[r].session /\ UNCHANGED lifecycleVars

----------------------------------------------------------------------------
(* What the stream handlers receive.                                       *)

Received(b) == Head(toRelay[b])
Consume(b) == toRelay' = [toRelay EXCEPT ![b] = Tail(@)]

\* The fence after an ACK with this result; its mutant never lifts it.
FenceStays(s, success, matches) == unreconciled[s]
FenceAfter(s, success, matches) == IF success THEN ~matches ELSE unreconciled[s]

\* handleOperationContextCommandAck, for a pending command c of session s.
CorrelateAck(s, ack) ==
    LET state == command[s][ack.id]
        success == ack.status = "applied"
        matches == ack.active = state.expected
        phase == IF success THEN IF matches THEN "applied" ELSE "retryable"
                 ELSE IF ack.status = "temporary" THEN "retryable" ELSE "rejected"
    IN
    /\ command' = [command EXCEPT ![s][ack.id] = Complete(state, phase)]
    /\ context' = IF success /\ matches
                  THEN [context EXCEPT ![s] = state.expected] ELSE context
    /\ unreconciled' = [unreconciled EXCEPT ![s] = FenceAfter(s, success, matches)]
    /\ emptyCommand' = IF ~(success /\ matches) /\ emptyCommand[s] = ack.id
                       THEN [emptyCommand EXCEPT ![s] = None] ELSE emptyCommand

\* handleOperationContextCommandAckFrom: evidence counts only on the accepted
\* binding and for a pending command.
ReceiveAck(b) ==
    LET s == boundTo[b] IN
    /\ handler[b] = "serving"
    /\ toRelay[b] # <<>>
    /\ Received(b).kind = "ack"
    /\ IF /\ stream[s] = b /\ b \notin closed
          /\ Received(b).id \in PendingCommands(s)
       THEN CorrelateAck(s, Received(b))
       ELSE UNCHANGED <<command, context, unreconciled, emptyCommand>>
    /\ Consume(b)
    /\ UNCHANGED <<lifecycleVars, rpc, reconnect, issued, agentContext, journal,
                   agentStream, toAgent>>

\* Mutant of MayRoute: telemetry is not held back by the fence.
MayRouteFenced(s) == OwnsAgent(s)

\* Telemetry of the session may be routed.
MayRoute(s) == OwnsAgent(s) /\ ~unreconciled[s]

\* A frame that is not valid, or of a session that lost the Agent (PERMANENT_ERROR)
\* or is not reconciled (RETRY_WITH_BACKOFF), is acknowledged without being routed.
\* Validity is not modelled, so any frame may be declined.
DeclineFrame(b) ==
    /\ handler[b] = "serving"
    /\ toRelay[b] # <<>>
    /\ Received(b).kind = "frame"
    /\ LeaseAvailable(boundTo[b])
    /\ Consume(b)
    /\ UNCHANGED <<lifecycleVars, controlVars, agentContext, journal, agentStream,
                   toAgent>>

AdmitFrame(b) ==
    /\ BeginFrame(b)
    /\ toRelay[b] # <<>>
    /\ Received(b).kind = "frame"
    /\ MayRoute(boundTo[b])
    /\ UNCHANGED <<controlVars, agentVars>>

\* buildTelemetryFrameEnvelope reads the session's context after the check, and
\* the envelope is offered to the outputs.
RouteFrame(b) ==
    /\ EndFrame(b)
    /\ Consume(b)
    /\ UNCHANGED <<controlVars, agentContext, journal, agentStream, toAgent>>

----------------------------------------------------------------------------
(* The Agent, as the Relay relies on it (external).  It takes commands in  *)
(* order from the stream it opened last, applies each command ID once      *)
(* (durable journal), and reports its active context with the ACK.         *)

AgentHas == agentStream # None /\ toAgent # <<>>
Gone(b) == handler[b] = "ended"
CanAnswer == Gone(agentStream) \/ Len(toRelay[agentStream]) < Window
Answer(m) ==
    toRelay' = IF Gone(agentStream) THEN toRelay
               ELSE [toRelay EXCEPT ![agentStream] = Append(@, m)]

Effect(q) ==
    CASE q.kind = "set" -> q.flight
      [] q.kind = "reset" -> None
      [] q.kind = "clear" -> IF agentContext = q.flight THEN None ELSE agentContext

\* First sight of the command: its effect and its journal entry are durable.
AgentApplies ==
    LET q == Head(toAgent) IN
    /\ AgentHas /\ CanAnswer
    /\ journal[q.id] = None
    /\ agentContext' = Effect(q)
    /\ journal' = [journal EXCEPT ![q.id] = q]
    /\ Answer(AckMessage(q, "applied", Effect(q)))
    /\ toAgent' = Tail(toAgent)
    /\ UNCHANGED <<lifecycleVars, controlVars, agentStream>>

\* ALREADY_APPLIED for a journalled command, REJECTED for its ID with another
\* payload, and an error without effect for one it cannot apply now.
AgentAnswersOnly ==
    LET q == Head(toAgent)
        known == journal[q.id]
    IN
    /\ AgentHas /\ CanAnswer
    /\ \E status \in IF known = None THEN {"temporary", "rejected"}
                     ELSE IF known = q THEN {"applied"} ELSE {"rejected"} :
          Answer(AckMessage(q, status, agentContext))
    /\ toAgent' = Tail(toAgent)
    /\ UNCHANGED <<lifecycleVars, controlVars, agentContext, journal, agentStream>>

AgentSendsFrame ==
    /\ agentStream # None
    /\ ~Gone(agentStream) /\ CanAnswer
    /\ Cardinality({i \in DOMAIN toRelay[agentStream] :
                      toRelay[agentStream][i].kind = "frame"}) < FrameWindow
    /\ Answer(FrameMessage(agentContext))
    /\ UNCHANGED <<lifecycleVars, controlVars, agentContext, journal, agentStream,
                   toAgent>>

----------------------------------------------------------------------------
RpcStep(r) ==
    \/ AcquireGate(r) \/ Admit(r) \/ FailUnsent(r) \/ WriteCommand(r)
    \/ \E failed \in BOOLEAN : WriteReturns(r, failed)
    \/ Return(r)

StreamStep(b) ==
    \/ UpdateStream(b) \/ Publication(b) \/ SwapStream(b) \/ EndStream(b)
    \/ CleanUp(b) \/ ReceiveAck(b) \/ DeclineFrame(b) \/ AdmitFrame(b)
    \/ RouteFrame(b)

Next ==
    \/ \E s \in Session :
         BeginRegister(s) \/ AbandonRegister(s) \/ RestartRegister(s) \/ Register(s)
    \/ \E b \in Stream, s \in Session : ConnectStream(b, s)
    \/ \E b \in Stream : StreamStep(b)
    \/ ForgetSnapshot
    \/ Crash
    \/ \E r \in Rpc, q \in Request : Call(r, q)
    \/ \E r \in Rpc : GiveUp(r) \/ RpcStep(r) \/ Deadline(r)
    \/ AgentApplies \/ AgentAnswersOnly \/ AgentSendsFrame

Spec == Init /\ [][Next]_vars

(***************************************************************************)
(* Fairness.  As in StreamLifecycle, and a Set/Clear call past the gate    *)
(* goes on: a stream Send returns (the peer reads or the transport fails)  *)
(* and a completed command is reported.  Callers need not have a deadline  *)
(* (no fairness of Deadline or GiveUp) and the Agent need not answer.      *)
(***************************************************************************)
Fairness ==
    /\ \A s \in Session : WF_vars(RestartRegister(s) \/ Register(s))
    /\ \A b \in Stream :
         /\ WF_vars(UpdateStream(b))
         /\ SF_vars(Publication(b))
         /\ WF_vars(SwapStream(b))
         /\ WF_vars(RouteFrame(b))
         /\ WF_vars(CleanUp(b))
    /\ \A r \in Rpc :
         /\ WF_vars(Admit(r) \/ FailUnsent(r) \/ WriteCommand(r))
         /\ WF_vars(\E failed \in BOOLEAN : WriteReturns(r, failed))
         /\ WF_vars(Return(r))

FairSpec == Spec /\ Fairness

----------------------------------------------------------------------------
(* Properties.                                                             *)

\* The session would route telemetry and no command of it is unsettled.
Settled(s) == OwnsAgent(s) /\ ~unreconciled[s] /\ PendingCommands(s) = {}

\* Attribution: whenever the live session admits telemetry and awaits no ACK, the
\* context it stamps on frames is the Agent's durable one; so is a reconciled
\* snapshot waiting in the reconnect cache.  Timeouts, lost ACKs, stream and
\* session replacement, reconnects and restarts must all fence or agree.
AttributionMatchesAgent ==
    Control =>
        /\ \A s \in Session : Settled(s) => context[s] = agentContext
        /\ grpcSession = None /\ reconnect # None /\ ~reconnect.unreconciled
             => reconnect.context = agentContext

\* A command awaits its ACK only on the live session and the binding that
\* carried it, and a call that owns it is there to complete it: replacement and
\* cleanup leave no waiter behind on a stream that can no longer answer.
PendingOnLiveBinding ==
    \A s \in Session : \A c \in PendingCommands(s) :
        /\ OwnsAgent(s)
        /\ command[s][c].on \in {None, stream[s]}
        /\ \E r \in GateHolders(s) : /\ rpc[r].owner
                                     /\ rpc[r].request = command[s][c].request

\* "The authoritative discriminator may be true with an empty flight ID only to
\* reconcile a gated Relay session" (ClearOperationContext): an authoritative clear
\* that the Agent has not seen takes effect only while no session routes telemetry,
\* so it never ends the flight of a session that is in service.  The test of the
\* fence precedes the delivery and its effect by several steps; the operation gate,
\* the reservation and the order of the stream keep every other command out of them.
AuthoritativeClearOnlyReconciles ==
    [][\A q \in Request :
          Control /\ q.kind = "reset" /\ journal[q.id] = None /\ journal'[q.id] = q
          => \A s \in Session : ~MayRoute(s)]_vars

\* A frame received on the accepted binding, while that is the stream the Agent
\* uses, is routed under the context the Agent had when it sent the frame,
\* although routing reads the context after the reconciliation check.
FrameKeepsContext ==
    [][\A b \in Stream :
          /\ Control
          /\ handler[b] = "routing" /\ handler'[b] = "serving"
          /\ stream[boundTo[b]] = b /\ agentStream = b
          => Received(b).active = context[boundTo[b]]]_vars

\* The context is what the request asks for.
Satisfies(flight, q) ==
    CASE q.kind = "set" -> flight = q.flight
      [] q.kind = "clear" -> flight # q.flight
      [] q.kind = "reset" -> flight = None

\* A call that delivered its command itself and reports APPLIED leaves the
\* session reconciled with the context that was asked for.
DeliveredSuccessReconciles ==
    [][\A r \in Rpc :
          ReturnsApplied(r) /\ rpc[r].owner =>
             /\ ~unreconciled[rpc[r].session]
             /\ Satisfies(context[rpc[r].session], rpc[r].request)]_vars

\* What a comment of the ACK handler demands: "Unsolicited and late ACKs must not
\* be allowed to change telemetry attribution".  An ACK that opens the session to
\* telemetry is not out of date: it reports the context the Agent has.
LateAckNeverReopens ==
    [][\A s \in Session :
          /\ OwnsAgent(s) /\ unreconciled[s] /\ ~unreconciled'[s]
          => context'[s] = agentContext]_vars

\* What the comments say of any acknowledged Set/Clear ("Telemetry remains
\* retryable until the API replays an authoritative Set/Clear command"): a call
\* that reports APPLIED leaves the session reconciled.
AppliedReconciles ==
    [][\A r \in Rpc :
          ReturnsApplied(r) => ~unreconciled[rpc[r].session]]_vars

\* A call without a deadline does not wait for ever on a stream that is gone: once
\* the handler of the binding that carried its command leaves its receive loop,
\* the call returns and the gate is free again.
WaiterReleased ==
    \A r \in Rpc :
        (/\ rpc[r].pc = "await"
         /\ StateOf(r).phase = "pending"
         /\ handler[StateOf(r).on] = "closing") ~> rpc[r].pc = "idle"
=============================================================================
