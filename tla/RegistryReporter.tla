-------------------------- MODULE RegistryReporter --------------------------
(***************************************************************************)
(* The Registry reporter (internal/registryreporter/reporter.go) for one   *)
(* Agent: admissions by RegisterAgent, StopAgent, the heartbeat worker of  *)
(* each generation, the Relay's own heartbeat, Start and Close.  Agents    *)
(* share only r.mu, which is never held across a call.                     *)
(*                                                                         *)
(* Each member of Admission is one RegisterAgent call with the admission   *)
(* and the generation it creates.  A Registry call is answered, refused or *)
(* runs into its timeout at any time; cancelling its context has no other  *)
(* effect.  Calls may come before Start, and after Close too: a stopped    *)
(* gRPC server does not wait for its handlers.                             *)
(***************************************************************************)
EXTENDS Naturals

CONSTANTS
    Admission,  \* RegisterAgent calls
    None        \* no admission, no generation

ASSUME ReporterAssumption == None \notin Admission

VARIABLES
    call,           \* program counter of each RegisterAgent call
    overtaken,      \* admission.cancel was called by a newer call or StopAgent
    admission,      \* agentAdmissions[agentID]
    active,         \* activeAgents[agentID]
    registered,     \* registeredAgents[agentID]
    lastReported,   \* agentLastReported[agentID]: missing, or how long ago
    cancelled,      \* generation.cancel was called
    beat,           \* program counter of each generation's heartbeat worker
    started,        \* r.started
    starter,        \* program counter of Start, which holds startMu
    snapshot,       \* the generation start found in activeAgents
    relayBeat,      \* program counter of the Relay's heartbeat worker
    stopped,        \* r.workerCtx is done
    closer          \* program counter of Close

agentVars == <<call, overtaken, admission, active, registered, lastReported, cancelled>>
startVars == <<started, starter, snapshot>>
closeVars == <<stopped, closer>>
vars == <<agentVars, beat, startVars, relayBeat, closeVars>>

CallPc == {"idle", "calling", "starting", "done", "failed"}
Calling == {"heartbeat", "register"}
Running == {"select"} \cup Calling
BeatPc == {"none", "done"} \cup Running

\* What every variable ranges over.
TypeOK ==
    /\ call \in [Admission -> CallPc]
    /\ overtaken \in [Admission -> BOOLEAN]
    /\ admission \in Admission \cup {None}
    /\ active \in Admission \cup {None}
    /\ registered \in Admission \cup {None}
    /\ lastReported \in {"none", "recent", "old"}
    /\ cancelled \in [Admission -> BOOLEAN]
    /\ beat \in [Admission -> BeatPc]
    /\ started \in BOOLEAN
    /\ starter \in {"idle", "calling", "spawning"}
    /\ snapshot \in Admission \cup {None}
    /\ relayBeat \in BeatPc
    /\ stopped \in BOOLEAN
    /\ closer \in {"idle", "waiting"}

Init ==
    /\ call = [a \in Admission |-> "idle"]
    /\ overtaken = [a \in Admission |-> FALSE]
    /\ admission = None
    /\ active = None
    /\ registered = None
    /\ lastReported = "none"
    /\ cancelled = [a \in Admission |-> FALSE]
    /\ beat = [a \in Admission |-> "none"]
    /\ started = FALSE
    /\ starter = "idle"
    /\ snapshot = None
    /\ relayBeat = "none"
    /\ stopped = FALSE
    /\ closer = "idle"

\* flags with the one of g set, if g is a generation or an admission at all.
Marked(flags, g) == [a \in Admission |-> flags[a] \/ a = g]

----------------------------------------------------------------------------
(* RegisterAgent and StopAgent.                                            *)

\* The call becomes the Agent's admission and cancels the one before it.
BeginAdmission(a) ==
    /\ call[a] = "idle"
    /\ call' = [call EXCEPT ![a] = "calling"]
    /\ admission' = a
    /\ overtaken' = Marked(overtaken, admission)
    /\ UNCHANGED <<active, registered, lastReported, cancelled, beat, startVars,
                   relayBeat, closeVars>>

AdmissionFails(a) ==
    /\ call[a] = "calling"
    /\ call' = [call EXCEPT ![a] = "failed"]
    /\ admission' = IF admission = a THEN None ELSE admission
    /\ cancelled' = Marked(cancelled, a)
    /\ UNCHANGED <<overtaken, active, registered, lastReported, beat, startVars,
                   relayBeat, closeVars>>

\* The admission is still the Agent's; its mutant does not look.
AnyAdmission(a) == TRUE
StillAdmitted(a) == admission = a

\* The generations an installed one cancels; its mutant cancels none.
NoPrevious == None
Previous == active

InstallGeneration(a) ==
    /\ call[a] = "calling"
    /\ StillAdmitted(a)
    /\ call' = [call EXCEPT ![a] = "starting"]
    /\ admission' = IF admission = a THEN None ELSE admission
    /\ active' = a
    /\ registered' = a
    /\ lastReported' = "recent"
    /\ cancelled' = Marked(cancelled, Previous)
    /\ UNCHANGED <<overtaken, beat, startVars, relayBeat, closeVars>>

Superseded(a) ==
    /\ call[a] = "calling"
    /\ ~StillAdmitted(a)
    /\ call' = [call EXCEPT ![a] = "failed"]
    /\ cancelled' = Marked(cancelled, a)
    /\ UNCHANGED <<overtaken, admission, active, registered, lastReported, beat,
                   startVars, relayBeat, closeVars>>

\* startAgentHeartbeat has something to start.
StartsWorker(g) == g # None /\ started /\ active = g /\ beat[g] = "none"

StartAgentHeartbeat(g) ==
    beat' = IF StartsWorker(g) THEN [beat EXCEPT ![g] = "select"] ELSE beat

AdmissionReturns(a) ==
    /\ call[a] = "starting"
    /\ call' = [call EXCEPT ![a] = "done"]
    /\ StartAgentHeartbeat(a)
    /\ UNCHANGED <<overtaken, admission, active, registered, lastReported, cancelled,
                   startVars, relayBeat, closeVars>>

\* With nothing to remove the call changes nothing.
StopAgent ==
    /\ admission # None \/ active # None
    /\ admission' = None
    /\ overtaken' = Marked(overtaken, admission)
    /\ active' = None
    /\ registered' = None
    /\ lastReported' = "none"
    /\ cancelled' = Marked(cancelled, active)
    /\ UNCHANGED <<call, beat, startVars, relayBeat, closeVars>>

----------------------------------------------------------------------------
(* The heartbeat worker of a generation: reportAgent on every tick.        *)

\* A heartbeat interval passes since the last report.
TimePasses ==
    /\ lastReported = "recent"
    /\ lastReported' = "old"
    /\ UNCHANGED <<call, overtaken, admission, active, registered, cancelled, beat,
                   startVars, relayBeat, closeVars>>

\* reportAgent goes on: its generation is the active one and is due.
Due(a) == active = a /\ ~(registered = a /\ lastReported = "recent")

\* The interval is reserved before the call.  A tick may win against the end of
\* the generation's context in the worker's select.
Report(a) ==
    /\ beat[a] = "select"
    /\ Due(a)
    /\ beat' = [beat EXCEPT ![a] = IF registered = a THEN "heartbeat" ELSE "register"]
    /\ lastReported' = "recent"
    /\ UNCHANGED <<call, overtaken, admission, active, registered, cancelled, startVars,
                   relayBeat, closeVars>>

\* The Registry does not know the Agent any more.
NotFound(a) ==
    /\ beat[a] = "heartbeat"
    /\ beat' = [beat EXCEPT ![a] = "register"]
    /\ UNCHANGED <<agentVars, startVars, relayBeat, closeVars>>

\* reportAgent looks again before it writes; its mutant does not.
WhateverIsActive(a) == TRUE
StillActive(a) == active = a

ReportOk(a) ==
    /\ beat[a] \in Calling
    /\ beat' = [beat EXCEPT ![a] = "select"]
    /\ registered' = IF StillActive(a) THEN a ELSE registered
    /\ UNCHANGED <<call, overtaken, admission, active, lastReported, cancelled, startVars,
                   relayBeat, closeVars>>

\* A failed report gives the interval back.
ReportFails(a) ==
    /\ beat[a] \in Calling
    /\ beat' = [beat EXCEPT ![a] = "select"]
    /\ lastReported' = IF StillActive(a) THEN "none" ELSE lastReported
    /\ UNCHANGED <<call, overtaken, admission, active, registered, cancelled, startVars,
                   relayBeat, closeVars>>

\* generation.ctx is done, by itself or with workerCtx; its mutant was not derived
\* from workerCtx.
OwnCancelOnly(a) == cancelled[a]
ContextDone(a) == cancelled[a] \/ stopped

WorkerEnds(a) ==
    /\ beat[a] = "select"
    /\ ContextDone(a)
    /\ beat' = [beat EXCEPT ![a] = "done"]
    /\ UNCHANGED <<agentVars, startVars, relayBeat, closeVars>>

----------------------------------------------------------------------------
(* Start, with the Relay's own heartbeat.                                  *)

\* A started or a closed reporter makes Start return at once.
BeginStart ==
    /\ starter = "idle"
    /\ ~started /\ ~stopped
    /\ starter' = "calling"
    /\ UNCHANGED <<agentVars, beat, started, snapshot, relayBeat, closeVars>>

\* The Relay is not registered; Start may be called again.
StartFails ==
    /\ starter = "calling"
    /\ starter' = "idle"
    /\ UNCHANGED <<agentVars, beat, started, snapshot, relayBeat, closeVars>>

\* Mutant of MarkStarted: the generations installed before are forgotten.
MarkStartedOnly ==
    /\ starter = "calling"
    /\ starter' = "spawning"
    /\ started' = TRUE
    /\ UNCHANGED <<agentVars, beat, snapshot, relayBeat, closeVars>>

\* The Relay is registered: start marks the reporter and takes its snapshot.
MarkStarted ==
    /\ starter = "calling"
    /\ starter' = "spawning"
    /\ started' = TRUE
    /\ snapshot' = active
    /\ UNCHANGED <<agentVars, beat, relayBeat, closeVars>>

Spawn ==
    /\ starter = "spawning"
    /\ starter' = "idle"
    /\ StartAgentHeartbeat(snapshot)
    /\ relayBeat' = "select"
    /\ UNCHANGED <<agentVars, started, snapshot, closeVars>>

\* The Relay's heartbeat, repeated as a registration when it is not found.
RelayStep ==
    /\ \/ relayBeat = "select" /\ relayBeat' = "heartbeat"
       \/ relayBeat = "heartbeat" /\ relayBeat' \in {"select", "register"}
       \/ relayBeat = "register" /\ relayBeat' = "select"
    /\ UNCHANGED <<agentVars, beat, startVars, closeVars>>

RelayWorkerEnds ==
    /\ relayBeat = "select" /\ stopped
    /\ relayBeat' = "done"
    /\ UNCHANGED <<agentVars, beat, startVars, closeVars>>

----------------------------------------------------------------------------
(* Close.                                                                  *)

\* startMu is free; the first call cancels workerCtx.
BeginClose ==
    /\ closer = "idle"
    /\ starter = "idle"
    /\ closer' = "waiting"
    /\ stopped' = TRUE
    /\ UNCHANGED <<agentVars, beat, startVars, relayBeat>>

\* Mutant of WorkersDone: the Relay's worker is expected to have run.
RelayWorkerDone ==
    /\ relayBeat = "done"
    /\ \A a \in Admission : beat[a] \notin Running

\* wg.Wait returns.
WorkersDone ==
    /\ relayBeat \notin Running
    /\ \A a \in Admission : beat[a] \notin Running

CloseReturns ==
    /\ closer = "waiting"
    /\ WorkersDone
    /\ closer' = "idle"
    /\ UNCHANGED <<agentVars, beat, startVars, relayBeat, stopped>>

\* The caller's context ends first.
CloseTimesOut ==
    /\ closer = "waiting"
    /\ closer' = "idle"
    /\ UNCHANGED <<agentVars, beat, startVars, relayBeat, stopped>>

----------------------------------------------------------------------------
CallStep(a) ==
    \/ AdmissionFails(a) \/ InstallGeneration(a) \/ Superseded(a) \/ AdmissionReturns(a)

WorkerStep(a) ==
    Report(a) \/ NotFound(a) \/ ReportOk(a) \/ ReportFails(a)

Next ==
    \/ \E a \in Admission :
        BeginAdmission(a) \/ CallStep(a) \/ WorkerStep(a) \/ WorkerEnds(a)
    \/ StopAgent \/ TimePasses
    \/ BeginStart \/ StartFails \/ MarkStarted \/ Spawn \/ RelayStep \/ RelayWorkerEnds
    \/ BeginClose \/ CloseReturns \/ CloseTimesOut

Spec == Init /\ [][Next]_vars

(***************************************************************************)
(* Fairness.  Every Registry call has the request timeout, so calls and    *)
(* the reports that make them end.  A worker whose context is done may     *)
(* serve a tick first, but select does not choose the tick for ever:       *)
(* strong fairness of the two ends.  Time passes.  Nobody has to admit,    *)
(* stop, start or close, and Close's caller need not give up.              *)
(***************************************************************************)
Fairness ==
    /\ \A a \in Admission : WF_vars(CallStep(a)) /\ WF_vars(WorkerStep(a))
    /\ \A a \in Admission : SF_vars(WorkerEnds(a))
    /\ WF_vars(RelayStep) /\ SF_vars(RelayWorkerEnds)
    /\ WF_vars(TimePasses)
    /\ WF_vars(StartFails \/ MarkStarted) /\ WF_vars(Spawn)
    /\ WF_vars(CloseReturns)

FairSpec == Spec /\ Fairness

----------------------------------------------------------------------------
(* Properties.                                                             *)

\* An admission that a newer RegisterAgent or a StopAgent overtook while its call was
\* in progress never becomes the active generation and never heartbeats, however
\* late the Registry's answer comes.
OvertakenStaysOut ==
    \A a \in Admission : overtaken[a] => active # a /\ beat[a] = "none"

\* The active generation is not cancelled, by a failed or a superseded replacement in
\* particular, and every other generation with a worker is: there is one live
\* heartbeat, and it is that of the newest successful admission.
OneLiveHeartbeat ==
    /\ \A a \in Admission : active = a => ~cancelled[a]
    /\ \A a \in Admission : beat[a] \in Running /\ active # a => cancelled[a]

\* The three maps of the reporter agree, whatever a report that was in flight across
\* StopAgent or a replacement writes afterwards: nothing remains of a stopped Agent.
MapsAgree ==
    /\ registered = active
    /\ lastReported # "none" => active # None

\* The active generation of a started reporter calls the Registry again and again,
\* also when RegisterAgent and Start raced to start its worker and when calls fail.
ActiveIsReported ==
    \A a \in Admission :
        active = a /\ started ~> beat[a] \in Calling \/ active # a \/ stopped

\* The worker of a generation that was stopped, replaced or closed ends, and with it
\* its calls, also when it was started after Close had cancelled the workers.
StaleWorkerEnds ==
    \A a \in Admission :
        beat[a] \in Running /\ (active # a \/ stopped) ~> beat[a] = "done"

\* Close returns, with a deadline or without.
CloseEnds == closer = "waiting" ~> closer = "idle"
=============================================================================
