-------------------------- MODULE StreamLifecycle --------------------------
(***************************************************************************)
(* The sessions and telemetry streams of ONE Agent of the Relay            *)
(* (internal/relay/gatewayserver.go and streams.go): Register,             *)
(* TelemetryStream, updateStream, registerActiveAgent and deleteStream.    *)
(*                                                                         *)
(* Each member of Session is one Register call and the DroneSession it     *)
(* would install; each member of Stream is one TelemetryStream call and    *)
(* the telemetryStreamBinding updateStream makes for it, so the identity   *)
(* of the member stands for (SessionID) and for the pointer and            *)
(* streamGeneration the code compares.  Agents share nothing but the map   *)
(* lock sessionsMu, which every operation holds only for the length of     *)
(* one action, so one Agent is enough.                                     *)
(*                                                                         *)
(* Locks.  The write side of session.ownershipMu and sessionsMu are held   *)
(* inside one action.  The read lease on ownershipMu outlives an action in *)
(* three places (Registry publication, the active-binding swap that        *)
(* follows it, and routing of a frame): LeaseHolders derives its holders   *)
(* from the program counters of the handlers.                              *)
(***************************************************************************)
EXTENDS Naturals, FiniteSets

CONSTANTS
    Session,    \* Register calls, and the sessions they create
    Stream,     \* TelemetryStream calls, and the bindings they create
    None,       \* nil
    Registry    \* TRUE iff r.registryReporter # nil

ASSUME NoneAssumption == None \notin Session /\ None \notin Stream
ASSUME RegistryAssumption == Registry \in BOOLEAN

VARIABLES
    grpcSession,    \* r.grpcSessions[agentID], None when there is no entry
    registerCall,   \* program counter of each Register call
    previous,       \* the local "previous" of each Register call
    retired,        \* sessions whose retired flag is set
    stream,         \* session.stream, the accepted binding
    pendingStream,  \* session.pendingStream, the candidate binding
    handler,        \* program counter of each TelemetryStream handler
    boundTo,        \* the session each handler captured
    closed,         \* bindings whose closed flag is set
    agentActive     \* the reporter heartbeats this Agent to the Registry

lifecycleVars == <<grpcSession, registerCall, previous, retired, stream,
                   pendingStream, handler, boundTo, closed, agentActive>>

RegisterPc == {"idle", "waiting", "done"}

HandlerPc == {"idle", "opening", "bound", "publishing", "activating",
              "serving", "routing", "closing", "ended"}

\* What every variable ranges over.
TypeOK ==
    /\ grpcSession \in Session \cup {None}
    /\ registerCall \in [Session -> RegisterPc]
    /\ previous \in [Session -> Session \cup {None}]
    /\ retired \in SUBSET Session
    /\ stream \in [Session -> Stream \cup {None}]
    /\ pendingStream \in [Session -> Stream \cup {None}]
    /\ handler \in [Stream -> HandlerPc]
    /\ boundTo \in [Stream -> Session \cup {None}]
    /\ closed \in SUBSET Stream
    /\ agentActive \in BOOLEAN

LifecycleInit ==
    /\ grpcSession = None
    /\ registerCall = [s \in Session |-> "idle"]
    /\ previous = [s \in Session |-> None]
    /\ retired = {}
    /\ stream = [s \in Session |-> None]
    /\ pendingStream = [s \in Session |-> None]
    /\ handler = [b \in Stream |-> "idle"]
    /\ boundTo = [b \in Stream |-> None]
    /\ closed = {}
    /\ agentActive = FALSE

----------------------------------------------------------------------------
(* Ownership.                                                              *)

\* Handlers that hold the read side of s.ownershipMu between two actions.
LeaseHolders(s) ==
    {b \in Stream : /\ boundTo[b] = s
                    /\ handler[b] \in {"publishing", "activating", "routing"}}

\* Mutant of OwnershipFree: retirement does not wait for the lease.
OwnershipIgnored(s) == TRUE

\* The write side of s.ownershipMu can be taken.
OwnershipFree(s) == LeaseHolders(s) = {}

\* A writer waits for s.ownershipMu: a Register call that read s as the previous
\* session, or a handler of s in deleteStream.
WriterWaiting(s) ==
    \/ \E t \in Session : registerCall[t] = "waiting" /\ previous[t] = s
    \/ \E b \in Stream : handler[b] = "closing" /\ boundTo[b] = s

\* sync.RWMutex: a waiting writer excludes new readers.
LeaseAvailable(s) == ~WriterWaiting(s)

\* session == grpcSessions[agentID] && !session.retired
OwnsAgent(s) == grpcSession = s /\ s \notin retired

----------------------------------------------------------------------------
(* Register.                                                               *)

\* Read the map entry, then wait for the previous session's ownershipMu.
StartRegister(s) ==
    /\ registerCall[s] = "idle"
    /\ registerCall' = [registerCall EXCEPT ![s] = "waiting"]
    /\ previous' = [previous EXCEPT ![s] = grpcSession]
    /\ UNCHANGED <<grpcSession, retired, stream, pendingStream, handler,
                   boundTo, closed, agentActive>>

\* The call holds previous.ownershipMu for writing (or needs no lock).
HoldsPrevious(s) ==
    /\ registerCall[s] = "waiting"
    /\ previous[s] # None => OwnershipFree(previous[s])

\* The caller's context has ended: the live session is left alone, and the
\* session ID of the call was never given to anybody.
CancelRegister(s) ==
    /\ HoldsPrevious(s)
    /\ registerCall' = [registerCall EXCEPT ![s] = "idle"]
    /\ previous' = [previous EXCEPT ![s] = None]
    /\ UNCHANGED <<grpcSession, retired, stream, pendingStream,
                   handler, boundTo, closed, agentActive>>

\* Mutant of RetryRegister: "previous" is not read again.
RetryWithStaleEntry(s) ==
    /\ HoldsPrevious(s)
    /\ grpcSession # previous[s]
    /\ UNCHANGED lifecycleVars

\* The map entry changed while the call waited for the lock: start again.
RetryRegister(s) ==
    /\ HoldsPrevious(s)
    /\ grpcSession # previous[s]
    /\ previous' = [previous EXCEPT ![s] = grpcSession]
    /\ UNCHANGED <<grpcSession, registerCall, retired, stream, pendingStream,
                   handler, boundTo, closed, agentActive>>

\* Sessions the installation of s retires.
RetiredBy(s) == retired \cup ({previous[s]} \ {None})

\* The replacement linearization point: retire the previous session, stop its
\* Registry liveness, install the new session.
InstallSession(s) ==
    /\ HoldsPrevious(s)
    /\ grpcSession = previous[s]
    /\ registerCall' = [registerCall EXCEPT ![s] = "done"]
    /\ grpcSession' = s
    /\ retired' = RetiredBy(s)
    /\ agentActive' = (agentActive /\ previous[s] = None)
    /\ previous' = [previous EXCEPT ![s] = None]
    /\ UNCHANGED <<stream, pendingStream, handler, boundTo, closed>>

----------------------------------------------------------------------------
(* TelemetryStream: attaching.                                             *)

\* The Agent opens a stream with the session ID that Register returned to it.
\* updateStream's first look at the map: any other session is refused.
OpenStream(b, s) ==
    /\ handler[b] = "idle"
    /\ OwnsAgent(s)
    /\ boundTo' = [boundTo EXCEPT ![b] = s]
    /\ handler' = [handler EXCEPT ![b] = "opening"]
    /\ UNCHANGED <<grpcSession, registerCall, previous, retired, stream,
                   pendingStream, closed, agentActive>>

\* updateStream under the ownership read lease: validate again, then make the
\* binding the accepted stream, or with a Registry the candidate.
BindStream(b) ==
    LET s == boundTo[b] IN
    /\ handler[b] = "opening"
    /\ LeaseAvailable(s)
    /\ IF ~OwnsAgent(s)
       THEN /\ handler' = [handler EXCEPT ![b] = "ended"]
            /\ boundTo' = [boundTo EXCEPT ![b] = None]
            /\ UNCHANGED <<stream, pendingStream>>
       ELSE IF Registry
       THEN /\ handler' = [handler EXCEPT ![b] = "bound"]
            /\ pendingStream' = [pendingStream EXCEPT ![s] = b]
            /\ UNCHANGED <<stream, boundTo>>
       ELSE /\ handler' = [handler EXCEPT ![b] = "serving"]
            /\ stream' = [stream EXCEPT ![s] = b]
            /\ UNCHANGED <<pendingStream, boundTo>>
    /\ UNCHANGED <<grpcSession, registerCall, previous, retired, closed,
                   agentActive>>

\* publicationMu: one publication per session at a time.
PublicationFree(s) ==
    \A b \in Stream : ~ /\ boundTo[b] = s
                        /\ handler[b] \in {"publishing", "activating"}

\* registerActiveAgent up to the Registry call.
PublishBegin(b) ==
    LET s == boundTo[b] IN
    /\ handler[b] = "bound"
    /\ PublicationFree(s)
    /\ LeaseAvailable(s)
    /\ handler' = [handler EXCEPT ![b] =
                     IF /\ OwnsAgent(s)
                        /\ pendingStream[s] = b \/ stream[s] = b
                        /\ b \notin closed
                     THEN "publishing" ELSE "closing"]
    /\ UNCHANGED <<grpcSession, registerCall, previous, retired, stream,
                   pendingStream, boundTo, closed, agentActive>>

\* The Registry call failed, timed out, or was superseded in the reporter.
PublishFail(b) ==
    LET s == boundTo[b] IN
    /\ handler[b] = "publishing"
    /\ handler' = [handler EXCEPT ![b] = "closing"]
    /\ pendingStream' = [pendingStream EXCEPT ![s] = IF @ = b THEN None ELSE @]
    /\ UNCHANGED <<grpcSession, registerCall, previous, retired, stream,
                   boundTo, closed, agentActive>>

\* The Registry accepted the placement; the reporter heartbeats the Agent.
PublishOk(b) ==
    /\ handler[b] = "publishing"
    /\ handler' = [handler EXCEPT ![b] = "activating"]
    /\ agentActive' = TRUE
    /\ UNCHANGED <<grpcSession, registerCall, previous, retired, stream,
                   pendingStream, boundTo, closed>>

\* registerActiveAgent after the Registry call: the active-binding swap, unless
\* a later candidate has taken the pending slot meanwhile.
ActivateStream(b) ==
    LET s == boundTo[b] IN
    /\ handler[b] = "activating"
    /\ IF pendingStream[s] # b \/ b \in closed
       THEN /\ handler' = [handler EXCEPT ![b] = "closing"]
            /\ UNCHANGED <<stream, pendingStream>>
       ELSE /\ handler' = [handler EXCEPT ![b] = "serving"]
            /\ stream' = [stream EXCEPT ![s] = b]
            /\ pendingStream' = [pendingStream EXCEPT ![s] = None]
    /\ UNCHANGED <<grpcSession, registerCall, previous, retired, boundTo,
                   closed, agentActive>>

----------------------------------------------------------------------------
(* TelemetryStream: serving and cleaning up.                               *)

\* A valid frame is read and its session owns the Agent: the ownership lease is
\* held from this check until routing is over.
BeginFrame(b) ==
    /\ handler[b] = "serving"
    /\ LeaseAvailable(boundTo[b])
    /\ OwnsAgent(boundTo[b])
    /\ handler' = [handler EXCEPT ![b] = "routing"]
    /\ UNCHANGED <<grpcSession, registerCall, previous, retired, stream,
                   pendingStream, boundTo, closed, agentActive>>

\* Mutant of EndFrame: the lease is not released.
EndFrameKeepingLease(b) ==
    /\ handler[b] = "routing"
    /\ UNCHANGED lifecycleVars

\* Routing returned, the lease is released and the ACK sent on this stream.
EndFrame(b) ==
    /\ handler[b] = "routing"
    /\ handler' = [handler EXCEPT ![b] = "serving"]
    /\ UNCHANGED <<grpcSession, registerCall, previous, retired, stream,
                   pendingStream, boundTo, closed, agentActive>>

\* EOF, a receive error, a failed ACK or the end of the stream's context.
StreamEnds(b) ==
    /\ handler[b] = "serving"
    /\ handler' = [handler EXCEPT ![b] = "closing"]
    /\ UNCHANGED <<grpcSession, registerCall, previous, retired, stream,
                   pendingStream, boundTo, closed, agentActive>>

\* Mutants of IsCurrentStream: any handler of the session removes it; only a
\* handler whose stream was accepted does; only one of a session without streams.
AnyStreamIsCurrent(b) == TRUE
OnlyAcceptedIsCurrent(b) == stream[boundTo[b]] = b
OnlyStreamlessIsCurrent(b) ==
    stream[boundTo[b]] = None /\ pendingStream[boundTo[b]] \in {None, b}

\* deleteStream decides that b is the stream its session lives by: the accepted
\* one, or the last of a session that has neither an accepted nor a candidate.
IsCurrentStream(b) ==
    LET s == boundTo[b] IN
    \/ stream[s] = b
    \/ stream[s] = None /\ pendingStream[s] \in {None, b}

\* deleteStream, under ownershipMu and sessionsMu.
DeleteStream(b) ==
    LET s == boundTo[b] IN
    /\ handler[b] = "closing"
    /\ OwnershipFree(s)
    /\ handler' = [handler EXCEPT ![b] = "ended"]
    /\ boundTo' = [boundTo EXCEPT ![b] = None]
    /\ IF grpcSession # s
       THEN UNCHANGED <<grpcSession, retired, pendingStream, closed, agentActive>>
       ELSE /\ closed' = closed \cup {b}
            /\ pendingStream' = [pendingStream EXCEPT ![s] = IF @ = b THEN None ELSE @]
            /\ IF IsCurrentStream(b)
               THEN /\ retired' = retired \cup {s}
                    /\ grpcSession' = None
                    /\ agentActive' = FALSE
               ELSE UNCHANGED <<grpcSession, retired, agentActive>>
    /\ UNCHANGED <<registerCall, previous, stream>>

----------------------------------------------------------------------------
(* The Relay process crashes and starts again with an empty map: calls in  *)
(* progress are lost with their sessions, and the new process's reporter   *)
(* heartbeats no Agent.  Session IDs are random, so none is issued twice.  *)

Restart ==
    /\ grpcSession' = None
    /\ retired' = retired \cup ({grpcSession} \ {None})
    /\ registerCall' = [s \in Session |->
                          IF registerCall[s] = "waiting" THEN "idle"
                                                         ELSE registerCall[s]]
    /\ handler' = [b \in Stream |-> IF handler[b] = "idle" THEN "idle"
                                                           ELSE "ended"]
    /\ boundTo' = [b \in Stream |-> None]
    /\ previous' = [s \in Session |-> None]
    /\ stream' = [s \in Session |-> None]
    /\ pendingStream' = [s \in Session |-> None]
    /\ closed' = {}
    /\ agentActive' = FALSE

RegisterProceeds(s) == RetryRegister(s) \/ InstallSession(s)

LifecycleNext ==
    \/ \E s \in Session : StartRegister(s) \/ CancelRegister(s) \/ RegisterProceeds(s)
    \/ \E b \in Stream, s \in Session : OpenStream(b, s)
    \/ \E b \in Stream :
         \/ BindStream(b) \/ PublishBegin(b) \/ PublishFail(b) \/ PublishOk(b)
         \/ ActivateStream(b) \/ BeginFrame(b) \/ EndFrame(b) \/ StreamEnds(b)
         \/ DeleteStream(b)
    \/ Restart

LifecycleSpec == LifecycleInit /\ [][LifecycleNext]_lifecycleVars

(***************************************************************************)
(* Fairness.  A Registry call has a request timeout, so it returns.        *)
(* Routing a frame returns while the configured outputs drain: the writer  *)
(* has an enqueue timeout and sinks that drop do not wait; a sink with     *)
(* the block policy is ASSUMED to drain.  A goroutine that can take a lock *)
(* runs on, and publicationMu is a sync.Mutex, which starves nobody.       *)
(* Nothing makes an Agent register, open a stream, send a frame or         *)
(* disconnect, and no caller has to give up.                               *)
(***************************************************************************)
LifecycleFairness ==
    /\ \A s \in Session : WF_lifecycleVars(RegisterProceeds(s))
    /\ \A b \in Stream :
         /\ WF_lifecycleVars(BindStream(b))
         /\ SF_lifecycleVars(PublishBegin(b))
         /\ WF_lifecycleVars(PublishOk(b) \/ PublishFail(b))
         /\ WF_lifecycleVars(ActivateStream(b))
         /\ WF_lifecycleVars(EndFrame(b))
         /\ WF_lifecycleVars(DeleteStream(b))

LifecycleFairSpec == LifecycleSpec /\ LifecycleFairness

----------------------------------------------------------------------------
(* Properties.                                                             *)

\* The handler has work to do for its session, its cleanup included.
Unfinished(b) ==
    handler[b] \in {"bound", "publishing", "activating", "serving", "routing",
                    "closing"}

\* A frame is routed, and a placement published, only for the session that is in
\* the map and not retired: re-registration and cleanup linearize before or
\* after the whole of TelemetryStream's admission (the ownership lease).
LeaseImpliesOwnership ==
    \A b \in Stream : handler[b] \in {"publishing", "activating", "routing"} =>
        OwnsAgent(boundTo[b])

\* The bindings the live session points to have a running handler that has not
\* cleaned up: commands are never addressed to a stream nobody serves, and the
\* session cannot be left in the map with no handler to remove it.
LiveBindings ==
    grpcSession # None =>
        LET a == stream[grpcSession]
            p == pendingStream[grpcSession]
        IN  /\ a # None => /\ boundTo[a] = grpcSession
                           /\ handler[a] \in {"serving", "routing", "closing"}
                           /\ a \notin closed
            /\ p # None => /\ boundTo[p] = grpcSession
                           /\ handler[p] \in {"bound", "publishing", "activating"}
                           /\ p \notin closed

\* Registry liveness follows ownership: the Agent is heartbeated whenever its
\* session has an accepted stream (StopAgent of an old session or handler never
\* hits the new one), and never without a session and an unfinished handler
\* whose cleanup will stop it (a placement is not leaked).
PlacementFollowsOwnership ==
    /\ Registry /\ grpcSession # None /\ stream[grpcSession] # None => agentActive
    /\ agentActive => /\ grpcSession # None
                      /\ \E b \in Stream : boundTo[b] = grpcSession /\ Unfinished(b)

\* A session whose accepted stream is being served leaves the map only because
\* the same Agent registered again (or the process died): the cleanup of an
\* older binding, a failed candidate or an older session cannot remove it.
ServedSessionKept ==
    [][\A s \in Session :
          /\ grpcSession = s /\ grpcSession' # s
          /\ stream[s] # None
          /\ handler[stream[s]] \in {"serving", "routing"}
          => \/ \E t \in Session : registerCall[t] = "waiting"
                                   /\ registerCall'[t] = "done" /\ grpcSession' = t
             \/ handler'[stream[s]] = "ended"]_lifecycleVars

\* A Register call that waits for the previous session's ownership lease always
\* ends, although it may have to start again each time the map entry changes.
RegisterEnds ==
    \A s \in Session : registerCall[s] = "waiting" ~> registerCall[s] # "waiting"

\* Every handler that leaves its receive loop completes deleteStream; when it
\* was the accepted one the Agent stops being heartbeated, or another stream
\* has taken over.
CleanupEnds ==
    \A b \in Stream :
        /\ handler[b] = "closing" ~> handler[b] # "closing"
        /\ (/\ grpcSession # None /\ boundTo[b] = grpcSession
            /\ stream[grpcSession] = b /\ handler[b] = "closing")
           ~> (~agentActive \/ (grpcSession # None /\ stream[grpcSession] # b))
=============================================================================
