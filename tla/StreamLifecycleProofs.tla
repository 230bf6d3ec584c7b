----------------------- MODULE StreamLifecycleProofs -----------------------
(***************************************************************************)
(* Theorems about StreamLifecycle, for any sets of sessions and streams.   *)
(*                                                                         *)
(* The three safety invariants are not inductive by themselves.  Inductive *)
(* adds which program counters go with which bindings (Handlers), that a   *)
(* session is untouched until its Register call has installed it           *)
(* (Registrations), and that the reporter heartbeats the Agent while a     *)
(* handler is between a successful publication and the swap (Activating).  *)
(***************************************************************************)
EXTENDS StreamLifecycle, TLAPS

Registrations ==
    /\ grpcSession # None => /\ grpcSession \notin retired
                             /\ registerCall[grpcSession] = "done"
    /\ \A s \in Session : registerCall[s] # "done" =>
          /\ s \notin retired
          /\ stream[s] = None
          /\ pendingStream[s] = None

Handlers ==
    \A b \in Stream :
        /\ handler[b] \in {"opening", "bound", "publishing", "activating",
                           "serving", "routing", "closing"} => boundTo[b] \in Session
        /\ b \in closed => handler[b] = "ended"

Activating == \A b \in Stream : handler[b] = "activating" => agentActive

Inductive ==
    /\ TypeOK
    /\ Registrations
    /\ Handlers
    /\ Activating
    /\ LeaseImpliesOwnership
    /\ LiveBindings
    /\ PlacementFollowsOwnership

\* The initial states satisfy the inductive invariant.
LEMMA InitInductive == LifecycleInit => Inductive
  BY NoneAssumption
  DEF LifecycleInit, Inductive, TypeOK, Registrations, Handlers, Activating,
      LeaseImpliesOwnership, LiveBindings, PlacementFollowsOwnership,
      RegisterPc, HandlerPc

\* Every step preserves the types.
LEMMA TypeStep == TypeOK /\ Handlers /\ [LifecycleNext]_lifecycleVars => TypeOK'
<1> SUFFICES ASSUME TypeOK, Handlers, [LifecycleNext]_lifecycleVars PROVE TypeOK'
  OBVIOUS
<1> USE NoneAssumption DEF TypeOK, RegisterPc, HandlerPc
<1>1. ASSUME NEW s \in Session, StartRegister(s) PROVE TypeOK'
  BY <1>1 DEF StartRegister
<1>2. ASSUME NEW s \in Session, CancelRegister(s) PROVE TypeOK'
  BY <1>2 DEF CancelRegister
<1>3. ASSUME NEW s \in Session, RetryRegister(s) PROVE TypeOK'
  BY <1>3 DEF RetryRegister
<1>4. ASSUME NEW s \in Session, InstallSession(s) PROVE TypeOK'
  BY <1>4 DEF InstallSession, RetiredBy
<1>5. ASSUME NEW b \in Stream, NEW s \in Session, OpenStream(b, s) PROVE TypeOK'
  BY <1>5 DEF OpenStream
<1>6. ASSUME NEW b \in Stream, BindStream(b) PROVE TypeOK'
  <2>1. boundTo[b] \in Session
    BY <1>6 DEF BindStream, Handlers
  <2> QED BY <1>6, <2>1 DEF BindStream
<1>7. ASSUME NEW b \in Stream, PublishBegin(b) PROVE TypeOK'
  BY <1>7 DEF PublishBegin
<1>8. ASSUME NEW b \in Stream, PublishFail(b) PROVE TypeOK'
  <2>1. boundTo[b] \in Session
    BY <1>8 DEF PublishFail, Handlers
  <2> QED BY <1>8, <2>1 DEF PublishFail
<1>9. ASSUME NEW b \in Stream, PublishOk(b) PROVE TypeOK'
  BY <1>9 DEF PublishOk
<1>10. ASSUME NEW b \in Stream, ActivateStream(b) PROVE TypeOK'
  <2>1. boundTo[b] \in Session
    BY <1>10 DEF ActivateStream, Handlers
  <2> QED BY <1>10, <2>1 DEF ActivateStream
<1>11. ASSUME NEW b \in Stream, BeginFrame(b) \/ EndFrame(b) \/ StreamEnds(b)
       PROVE TypeOK'
  BY <1>11 DEF BeginFrame, EndFrame, StreamEnds
<1>12. ASSUME NEW b \in Stream, DeleteStream(b) PROVE TypeOK'
  <2>1. boundTo[b] \in Session
    BY <1>12 DEF DeleteStream, Handlers
  <2>2. CASE grpcSession # boundTo[b]
    BY <1>12, <2>1, <2>2 DEF DeleteStream
  <2>3. CASE grpcSession = boundTo[b] /\ IsCurrentStream(b)
    <3>1. /\ closed' = closed \cup {b}
          /\ retired' = retired \cup {boundTo[b]}
          /\ grpcSession' = None
          /\ agentActive' = FALSE
      BY <1>12, <2>3 DEF DeleteStream
    <3>2. closed' \in SUBSET Stream /\ retired' \in SUBSET Session
      BY <2>1, <3>1
    <3>3. pendingStream' \in [Session -> Stream \cup {None}]
      BY <1>12, <2>1, <2>3 DEF DeleteStream
    <3> QED BY <1>12, <3>1, <3>2, <3>3 DEF DeleteStream
  <2>4. CASE grpcSession = boundTo[b] /\ ~IsCurrentStream(b)
    BY <1>12, <2>1, <2>4 DEF DeleteStream
  <2> QED BY <2>2, <2>3, <2>4
<1>13. CASE Restart
  BY <1>13 DEF Restart
<1>14. CASE UNCHANGED lifecycleVars
  BY <1>14 DEF lifecycleVars
<1> QED
  BY <1>1, <1>2, <1>3, <1>4, <1>5, <1>6, <1>7, <1>8, <1>9, <1>10, <1>11, <1>12,
     <1>13, <1>14 DEF LifecycleNext, RegisterProceeds

\* A session is untouched until installed, and retirement takes it off the map.
LEMMA RegistrationsStep ==
    Inductive /\ [LifecycleNext]_lifecycleVars => Registrations'
<1> SUFFICES ASSUME Inductive, [LifecycleNext]_lifecycleVars PROVE Registrations'
  OBVIOUS
<1> USE NoneAssumption DEF Inductive, TypeOK, Registrations
<1>1. ASSUME NEW s \in Session,
             StartRegister(s) \/ CancelRegister(s) \/ RetryRegister(s)
      PROVE Registrations'
  BY <1>1 DEF StartRegister, CancelRegister, RetryRegister, HoldsPrevious
<1>2. ASSUME NEW s \in Session, InstallSession(s) PROVE Registrations'
  BY <1>2 DEF InstallSession, HoldsPrevious, RetiredBy
<1>3. ASSUME NEW b \in Stream, NEW s \in Session, OpenStream(b, s)
      PROVE Registrations'
  BY <1>3 DEF OpenStream
<1>4. ASSUME NEW b \in Stream, BindStream(b) PROVE Registrations'
  BY <1>4 DEF BindStream, Handlers, OwnsAgent
<1>5. ASSUME NEW b \in Stream, PublishBegin(b) \/ PublishFail(b) \/ PublishOk(b)
      PROVE Registrations'
  BY <1>5 DEF PublishBegin, PublishFail, PublishOk, Handlers
<1>6. ASSUME NEW b \in Stream, ActivateStream(b) PROVE Registrations'
  BY <1>6 DEF ActivateStream, Handlers, LeaseImpliesOwnership, OwnsAgent
<1>7. ASSUME NEW b \in Stream, BeginFrame(b) \/ EndFrame(b) \/ StreamEnds(b)
      PROVE Registrations'
  BY <1>7 DEF BeginFrame, EndFrame, StreamEnds
<1>8. ASSUME NEW b \in Stream, DeleteStream(b) PROVE Registrations'
  BY <1>8 DEF DeleteStream, Handlers
<1>9. CASE Restart
  BY <1>9 DEF Restart
<1>10. CASE UNCHANGED lifecycleVars
  BY <1>10 DEF lifecycleVars
<1> QED
  BY <1>1, <1>2, <1>3, <1>4, <1>5, <1>6, <1>7, <1>8, <1>9, <1>10
  DEF LifecycleNext, RegisterProceeds

\* The ownership lease does its work: no step retires a session under a holder.
LEMMA LeaseStep ==
    Inductive /\ [LifecycleNext]_lifecycleVars => LeaseImpliesOwnership'
<1> SUFFICES ASSUME Inductive, [LifecycleNext]_lifecycleVars
             PROVE LeaseImpliesOwnership'
  OBVIOUS
<1> USE NoneAssumption DEF Inductive, TypeOK, LeaseImpliesOwnership, OwnsAgent
<1>1. ASSUME NEW s \in Session,
             StartRegister(s) \/ CancelRegister(s) \/ RetryRegister(s)
      PROVE LeaseImpliesOwnership'
  BY <1>1 DEF StartRegister, CancelRegister, RetryRegister
<1>2. ASSUME NEW s \in Session, InstallSession(s) PROVE LeaseImpliesOwnership'
  <2>1. \A b \in Stream : handler[b] \notin {"publishing", "activating", "routing"}
    BY <1>2 DEF InstallSession, HoldsPrevious, OwnershipFree, LeaseHolders, Handlers
  <2> QED BY <1>2, <2>1 DEF InstallSession
<1>3. ASSUME NEW b \in Stream, NEW s \in Session, OpenStream(b, s)
      PROVE LeaseImpliesOwnership'
  BY <1>3 DEF OpenStream
<1>4. ASSUME NEW b \in Stream, BindStream(b) PROVE LeaseImpliesOwnership'
  BY <1>4 DEF BindStream
<1>5. ASSUME NEW b \in Stream, PublishBegin(b) \/ PublishFail(b) \/ PublishOk(b)
      PROVE LeaseImpliesOwnership'
  BY <1>5 DEF PublishBegin, PublishFail, PublishOk
<1>6. ASSUME NEW b \in Stream, ActivateStream(b) PROVE LeaseImpliesOwnership'
  BY <1>6 DEF ActivateStream
<1>7. ASSUME NEW b \in Stream, BeginFrame(b) \/ EndFrame(b) \/ StreamEnds(b)
      PROVE LeaseImpliesOwnership'
  BY <1>7 DEF BeginFrame, EndFrame, StreamEnds
<1>8. ASSUME NEW b \in Stream, DeleteStream(b) PROVE LeaseImpliesOwnership'
  <2>1. CASE grpcSession # boundTo[b]
    BY <1>8, <2>1 DEF DeleteStream
  <2>2. CASE grpcSession = boundTo[b]
    <3>1. \A c \in Stream : handler[c] \notin {"publishing", "activating", "routing"}
      BY <1>8, <2>2 DEF DeleteStream, OwnershipFree, LeaseHolders
    <3> QED BY <1>8, <3>1 DEF DeleteStream
  <2> QED BY <2>1, <2>2
<1>9. CASE Restart
  BY <1>9 DEF Restart
<1>10. CASE UNCHANGED lifecycleVars
  BY <1>10 DEF lifecycleVars
<1> QED
  BY <1>1, <1>2, <1>3, <1>4, <1>5, <1>6, <1>7, <1>8, <1>9, <1>10
  DEF LifecycleNext, RegisterProceeds

\* Handlers keep the session they captured; a closed binding's handler has ended.
LEMMA HandlersStep ==
    Inductive /\ [LifecycleNext]_lifecycleVars => Handlers'
<1> SUFFICES ASSUME Inductive, [LifecycleNext]_lifecycleVars PROVE Handlers'
  OBVIOUS
<1> USE NoneAssumption DEF Inductive, TypeOK, Handlers
<1>1. ASSUME NEW s \in Session,
             StartRegister(s) \/ CancelRegister(s) \/ RetryRegister(s) \/ InstallSession(s)
      PROVE Handlers'
  BY <1>1 DEF StartRegister, CancelRegister, RetryRegister, InstallSession
<1>2. ASSUME NEW b \in Stream, NEW s \in Session, OpenStream(b, s) PROVE Handlers'
  BY <1>2 DEF OpenStream
<1>3. ASSUME NEW b \in Stream, BindStream(b) PROVE Handlers'
  BY <1>3 DEF BindStream
<1>4. ASSUME NEW b \in Stream, PublishBegin(b) \/ PublishFail(b) \/ PublishOk(b)
      PROVE Handlers'
  BY <1>4 DEF PublishBegin, PublishFail, PublishOk
<1>5. ASSUME NEW b \in Stream, ActivateStream(b) PROVE Handlers'
  BY <1>5 DEF ActivateStream
<1>6. ASSUME NEW b \in Stream, BeginFrame(b) \/ EndFrame(b) \/ StreamEnds(b)
      PROVE Handlers'
  BY <1>6 DEF BeginFrame, EndFrame, StreamEnds
<1>7. ASSUME NEW b \in Stream, DeleteStream(b) PROVE Handlers'
  BY <1>7 DEF DeleteStream
<1>8. CASE Restart
  BY <1>8 DEF Restart
<1>9. CASE UNCHANGED lifecycleVars
  BY <1>9 DEF lifecycleVars
<1> QED
  BY <1>1, <1>2, <1>3, <1>4, <1>5, <1>6, <1>7, <1>8, <1>9
  DEF LifecycleNext, RegisterProceeds

\* Heartbeats are stopped only when no handler is between publication and swap.
LEMMA ActivatingStep ==
    Inductive /\ [LifecycleNext]_lifecycleVars => Activating'
<1> SUFFICES ASSUME Inductive, [LifecycleNext]_lifecycleVars PROVE Activating'
  OBVIOUS
<1> USE NoneAssumption DEF Inductive, TypeOK, Activating
<1>1. ASSUME NEW s \in Session,
             StartRegister(s) \/ CancelRegister(s) \/ RetryRegister(s)
      PROVE Activating'
  BY <1>1 DEF StartRegister, CancelRegister, RetryRegister
<1>2. ASSUME NEW s \in Session, InstallSession(s) PROVE Activating'
  <2>1. \A b \in Stream : handler[b] # "activating"
    BY <1>2 DEF InstallSession, HoldsPrevious, OwnershipFree, LeaseHolders, Handlers,
                LeaseImpliesOwnership, OwnsAgent
  <2> QED BY <1>2, <2>1 DEF InstallSession
<1>3. ASSUME NEW b \in Stream, NEW s \in Session, OpenStream(b, s) PROVE Activating'
  BY <1>3 DEF OpenStream
<1>4. ASSUME NEW b \in Stream, BindStream(b) PROVE Activating'
  BY <1>4 DEF BindStream
<1>5. ASSUME NEW b \in Stream, PublishBegin(b) \/ PublishFail(b) \/ PublishOk(b)
      PROVE Activating'
  BY <1>5 DEF PublishBegin, PublishFail, PublishOk
<1>6. ASSUME NEW b \in Stream, ActivateStream(b) PROVE Activating'
  BY <1>6 DEF ActivateStream
<1>7. ASSUME NEW b \in Stream, BeginFrame(b) \/ EndFrame(b) \/ StreamEnds(b)
      PROVE Activating'
  BY <1>7 DEF BeginFrame, EndFrame, StreamEnds
<1>8. ASSUME NEW b \in Stream, DeleteStream(b) PROVE Activating'
  <2>1. CASE grpcSession # boundTo[b]
    BY <1>8, <2>1 DEF DeleteStream
  <2>2. CASE grpcSession = boundTo[b]
    <3>1. \A c \in Stream : handler[c] # "activating"
      BY <1>8, <2>2 DEF DeleteStream, OwnershipFree, LeaseHolders,
                        LeaseImpliesOwnership, OwnsAgent
    <3> QED BY <1>8, <3>1 DEF DeleteStream
  <2> QED BY <2>1, <2>2
<1>9. CASE Restart
  BY <1>9 DEF Restart
<1>10. CASE UNCHANGED lifecycleVars
  BY <1>10 DEF lifecycleVars
<1> QED
  BY <1>1, <1>2, <1>3, <1>4, <1>5, <1>6, <1>7, <1>8, <1>9, <1>10
  DEF LifecycleNext, RegisterProceeds

\* The live session points only to bindings whose handlers have not cleaned up.
LEMMA LiveBindingsStep ==
    Inductive /\ [LifecycleNext]_lifecycleVars => LiveBindings'
<1> SUFFICES ASSUME Inductive, [LifecycleNext]_lifecycleVars PROVE LiveBindings'
  OBVIOUS
<1> USE NoneAssumption DEF Inductive, TypeOK, LiveBindings
<1>1. ASSUME NEW s \in Session,
             StartRegister(s) \/ CancelRegister(s) \/ RetryRegister(s)
      PROVE LiveBindings'
  BY <1>1 DEF StartRegister, CancelRegister, RetryRegister
<1>2. ASSUME NEW s \in Session, InstallSession(s) PROVE LiveBindings'
  BY <1>2 DEF InstallSession, HoldsPrevious, Registrations
<1>3. ASSUME NEW b \in Stream, NEW s \in Session, OpenStream(b, s) PROVE LiveBindings'
  BY <1>3 DEF OpenStream
<1>4. ASSUME NEW b \in Stream, BindStream(b) PROVE LiveBindings'
  BY <1>4 DEF BindStream, Handlers, OwnsAgent
<1>5. ASSUME NEW b \in Stream, PublishBegin(b) PROVE LiveBindings'
  BY <1>5 DEF PublishBegin, Registrations, OwnsAgent
<1>6. ASSUME NEW b \in Stream, PublishFail(b) PROVE LiveBindings'
  BY <1>6 DEF PublishFail, Handlers
<1>7. ASSUME NEW b \in Stream, PublishOk(b) PROVE LiveBindings'
  BY <1>7 DEF PublishOk
<1>8. ASSUME NEW b \in Stream, ActivateStream(b) PROVE LiveBindings'
  BY <1>8 DEF ActivateStream, Handlers, LeaseImpliesOwnership, OwnsAgent
<1>9. ASSUME NEW b \in Stream, BeginFrame(b) \/ EndFrame(b) \/ StreamEnds(b)
      PROVE LiveBindings'
  BY <1>9 DEF BeginFrame, EndFrame, StreamEnds
<1>10. ASSUME NEW b \in Stream, DeleteStream(b) PROVE LiveBindings'
  BY <1>10 DEF DeleteStream, IsCurrentStream, Handlers
<1>11. CASE Restart
  BY <1>11 DEF Restart
<1>12. CASE UNCHANGED lifecycleVars
  BY <1>12 DEF lifecycleVars
<1> QED
  BY <1>1, <1>2, <1>3, <1>4, <1>5, <1>6, <1>7, <1>8, <1>9, <1>10, <1>11, <1>12
  DEF LifecycleNext, RegisterProceeds

\* Registry liveness starts and stops with ownership in every step.
LEMMA PlacementStep ==
    Inductive /\ [LifecycleNext]_lifecycleVars => PlacementFollowsOwnership'
<1> SUFFICES ASSUME Inductive, [LifecycleNext]_lifecycleVars
             PROVE PlacementFollowsOwnership'
  OBVIOUS
<1> USE NoneAssumption DEF Inductive, TypeOK, PlacementFollowsOwnership, Unfinished
<1>1. ASSUME NEW s \in Session,
             StartRegister(s) \/ CancelRegister(s) \/ RetryRegister(s)
      PROVE PlacementFollowsOwnership'
  BY <1>1 DEF StartRegister, CancelRegister, RetryRegister
<1>2. ASSUME NEW s \in Session, InstallSession(s) PROVE PlacementFollowsOwnership'
  BY <1>2 DEF InstallSession, HoldsPrevious, Registrations
<1>3. ASSUME NEW b \in Stream, NEW s \in Session, OpenStream(b, s)
      PROVE PlacementFollowsOwnership'
  BY <1>3 DEF OpenStream
<1>4. ASSUME NEW b \in Stream, BindStream(b) PROVE PlacementFollowsOwnership'
  BY <1>4 DEF BindStream
<1>5. ASSUME NEW b \in Stream, PublishBegin(b) \/ PublishFail(b)
      PROVE PlacementFollowsOwnership'
  BY <1>5 DEF PublishBegin, PublishFail
<1>6. ASSUME NEW b \in Stream, PublishOk(b) PROVE PlacementFollowsOwnership'
  BY <1>6 DEF PublishOk, Handlers, LeaseImpliesOwnership, OwnsAgent
<1>7. ASSUME NEW b \in Stream, ActivateStream(b) PROVE PlacementFollowsOwnership'
  BY <1>7 DEF ActivateStream, Activating
<1>8. ASSUME NEW b \in Stream, BeginFrame(b) \/ EndFrame(b) \/ StreamEnds(b)
      PROVE PlacementFollowsOwnership'
  BY <1>8 DEF BeginFrame, EndFrame, StreamEnds
<1>9. ASSUME NEW b \in Stream, DeleteStream(b) PROVE PlacementFollowsOwnership'
  <2>1. CASE grpcSession # boundTo[b]
    BY <1>9, <2>1 DEF DeleteStream
  <2>2. CASE grpcSession = boundTo[b] /\ IsCurrentStream(b)
    BY <1>9, <2>2 DEF DeleteStream
  <2>3. CASE grpcSession = boundTo[b] /\ ~IsCurrentStream(b)
    <3>1. PICK c \in Stream : c # b /\ boundTo[c] = grpcSession /\ Unfinished(c)
      BY <1>9, <2>3 DEF DeleteStream, IsCurrentStream, LiveBindings, Handlers
    <3> QED BY <1>9, <2>3, <3>1 DEF DeleteStream
  <2> QED BY <2>1, <2>2, <2>3
<1>10. CASE Restart
  BY <1>10 DEF Restart
<1>11. CASE UNCHANGED lifecycleVars
  BY <1>11 DEF lifecycleVars
<1> QED
  BY <1>1, <1>2, <1>3, <1>4, <1>5, <1>6, <1>7, <1>8, <1>9, <1>10, <1>11
  DEF LifecycleNext, RegisterProceeds

\* Every step preserves the inductive invariant.
LEMMA InductiveStep == Inductive /\ [LifecycleNext]_lifecycleVars => Inductive'
  BY TypeStep, RegistrationsStep, HandlersStep, ActivatingStep, LeaseStep,
     LiveBindingsStep, PlacementStep DEF Inductive

\* The inductive invariant holds in every reachable state.
THEOREM InductiveInvariant == LifecycleSpec => []Inductive
  BY InitInductive, InductiveStep, PTL DEF LifecycleSpec

\* Type correctness of the session and stream tables.
THEOREM TypeCorrect == LifecycleSpec => []TypeOK
  BY InductiveInvariant, PTL DEF Inductive

\* Frames are routed and placements published only for the session in the map:
\* the ownership lease of TelemetryStream and registerActiveAgent.
THEOREM LeaseSafety == LifecycleSpec => []LeaseImpliesOwnership
  BY InductiveInvariant, PTL DEF Inductive

\* The live session never points to a binding whose handler ran deleteStream.
THEOREM BindingSafety == LifecycleSpec => []LiveBindings
  BY InductiveInvariant, PTL DEF Inductive

\* Registry heartbeats follow ownership: not stopped under an accepted stream by
\* an old session's StopAgent, and not leaked when the last handler is gone.
THEOREM PlacementSafety == LifecycleSpec => []PlacementFollowsOwnership
  BY InductiveInvariant, PTL DEF Inductive

\* Cleanup of anything but the served stream cannot take its session away.
THEOREM ServedSessionSafety == LifecycleSpec => ServedSessionKept
<1> DEFINE Kept ==
      \A s \in Session :
          /\ grpcSession = s /\ grpcSession' # s
          /\ stream[s] # None
          /\ handler[stream[s]] \in {"serving", "routing"}
          => \/ \E t \in Session : registerCall[t] = "waiting"
                                   /\ registerCall'[t] = "done" /\ grpcSession' = t
             \/ handler'[stream[s]] = "ended"
<1>1. Inductive /\ [LifecycleNext]_lifecycleVars => [Kept]_lifecycleVars
  <2> SUFFICES ASSUME Inductive, LifecycleNext,
                      NEW s \in Session,
                      grpcSession = s, grpcSession' # s, stream[s] # None,
                      handler[stream[s]] \in {"serving", "routing"}
               PROVE \/ \E t \in Session : registerCall[t] = "waiting"
                                   /\ registerCall'[t] = "done" /\ grpcSession' = t
                     \/ handler'[stream[s]] = "ended"
    OBVIOUS
  <2> USE DEF Inductive, TypeOK
  <2>1. ASSUME NEW t \in Session, InstallSession(t)
        PROVE registerCall[t] = "waiting" /\ registerCall'[t] = "done"
              /\ grpcSession' = t
    BY <2>1 DEF InstallSession, HoldsPrevious
  <2>2. ASSUME NEW b \in Stream, DeleteStream(b) PROVE FALSE
    BY <2>2 DEF DeleteStream, IsCurrentStream
  <2>3. CASE Restart
    BY <2>3, NoneAssumption DEF Restart
  <2> QED
    BY <2>1, <2>2, <2>3
    DEF LifecycleNext, RegisterProceeds, StartRegister, CancelRegister,
        RetryRegister, OpenStream, BindStream, PublishBegin, PublishFail, PublishOk,
        ActivateStream, BeginFrame, EndFrame, StreamEnds
<1> QED BY InductiveInvariant, <1>1, PTL DEF LifecycleSpec, ServedSessionKept
=============================================================================
