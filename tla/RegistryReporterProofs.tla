----------------------- MODULE RegistryReporterProofs -----------------------
(***************************************************************************)
(* Safety of the Registry reporter for any number of RegisterAgent calls:  *)
(* overtaken admissions stay out, one generation heartbeats, and the maps  *)
(* of the reporter agree.                                                  *)
(***************************************************************************)
EXTENDS RegistryReporter, TLAPS

\* What the progress of a RegisterAgent call says of its admission, its generation
\* and its worker.  A call that installed its generation has either the active one
\* or a cancelled one.
Progress(a) ==
    /\ admission = a => call[a] = "calling"
    /\ overtaken[a] => call[a] \in {"calling", "failed"} /\ admission # a
    /\ active = a => call[a] \in {"starting", "done"}
    /\ beat[a] # "none" => call[a] \in {"starting", "done"}
    /\ call[a] \in {"idle", "calling"} => ~cancelled[a]
    /\ call[a] \in {"starting", "done"} => (cancelled[a] <=> active # a)

Progresses == \A a \in Admission : Progress(a)

ReporterInductive == TypeOK /\ Progresses /\ MapsAgree

----------------------------------------------------------------------------
\* Before the first call there is neither an admission nor a generation.
LEMMA ReporterInit == Init => ReporterInductive
<1> SUFFICES ASSUME Init PROVE ReporterInductive
  OBVIOUS
<1>1. TypeOK
  BY DEF Init, TypeOK, CallPc, BeatPc
<1>2. Progresses
  BY ReporterAssumption DEF Init, Progresses, Progress
<1>3. MapsAgree
  BY DEF Init, MapsAgree
<1> QED
  BY <1>1, <1>2, <1>3 DEF ReporterInductive

\* Marking a flag keeps the type of the flags.
LEMMA MarkedType ==
    ASSUME NEW flags \in [Admission -> BOOLEAN], NEW g
    PROVE  Marked(flags, g) \in [Admission -> BOOLEAN]
<1>1. ASSUME NEW a \in Admission PROVE (flags[a] \/ a = g) \in BOOLEAN
  OBVIOUS
<1> QED
  BY <1>1 DEF Marked

\* startAgentHeartbeat changes the program counter of one worker, if any.
LEMMA HeartbeatType ==
    ASSUME TypeOK, NEW g \in Admission \cup {None}, StartAgentHeartbeat(g)
    PROVE  /\ beat' \in [Admission -> BeatPc]
           /\ \A a \in Admission : beat'[a] = beat[a] \/ (a = g /\ active = a)
<1>1. CASE StartsWorker(g)
  BY <1>1 DEF TypeOK, StartAgentHeartbeat, StartsWorker, BeatPc, Running
<1>2. CASE ~StartsWorker(g)
  BY <1>2 DEF TypeOK, StartAgentHeartbeat
<1> QED
  BY <1>1, <1>2

----------------------------------------------------------------------------
\* Every step keeps the types.
LEMMA ReporterTypeStep == TypeOK /\ [Next]_vars => TypeOK'
<1> SUFFICES ASSUME TypeOK, [Next]_vars PROVE TypeOK'
  OBVIOUS
<1> USE DEF TypeOK, CallPc, BeatPc, Running, Calling, agentVars, startVars, closeVars
<1>1. ASSUME NEW a \in Admission, BeginAdmission(a) PROVE TypeOK'
  <2>1. Marked(overtaken, admission) \in [Admission -> BOOLEAN]
    BY MarkedType
  <2> QED
    BY <1>1, <2>1 DEF BeginAdmission
<1>2. ASSUME NEW a \in Admission, AdmissionFails(a) PROVE TypeOK'
  <2>1. Marked(cancelled, a) \in [Admission -> BOOLEAN]
    BY MarkedType
  <2> QED
    BY <1>2, <2>1 DEF AdmissionFails
<1>3. ASSUME NEW a \in Admission, InstallGeneration(a) PROVE TypeOK'
  <2>1. Marked(cancelled, Previous) \in [Admission -> BOOLEAN]
    BY MarkedType
  <2> QED
    BY <1>3, <2>1 DEF InstallGeneration, StillAdmitted
<1>4. ASSUME NEW a \in Admission, Superseded(a) PROVE TypeOK'
  <2>1. Marked(cancelled, a) \in [Admission -> BOOLEAN]
    BY MarkedType
  <2>2. call' \in [Admission -> CallPc] /\ cancelled' \in [Admission -> BOOLEAN]
    BY <1>4, <2>1 DEF Superseded
  <2>3. UNCHANGED <<overtaken, admission, active, registered, lastReported, beat,
                    startVars, relayBeat, closeVars>>
    BY <1>4 DEF Superseded
  <2> QED
    BY <2>2, <2>3
<1>5. ASSUME NEW a \in Admission, AdmissionReturns(a) PROVE TypeOK'
  <2>1. beat' \in [Admission -> BeatPc]
    BY <1>5, HeartbeatType DEF AdmissionReturns
  <2>2. call' \in [Admission -> CallPc]
    BY <1>5 DEF AdmissionReturns
  <2>3. UNCHANGED <<overtaken, admission, active, registered, lastReported, cancelled,
                    startVars, relayBeat, closeVars>>
    BY <1>5 DEF AdmissionReturns
  <2> QED
    BY <2>1, <2>2, <2>3
<1>6. ASSUME StopAgent PROVE TypeOK'
  <2>1. /\ Marked(overtaken, admission) \in [Admission -> BOOLEAN]
        /\ Marked(cancelled, active) \in [Admission -> BOOLEAN]
    BY MarkedType
  <2> QED
    BY <1>6, <2>1 DEF StopAgent
<1>7. ASSUME NEW a \in Admission, WorkerStep(a) \/ WorkerEnds(a) PROVE TypeOK'
  BY <1>7 DEF WorkerStep, Report, Due, NotFound, ReportOk, ReportFails, StillActive,
              WorkerEnds, ContextDone
<1>8. ASSUME Spawn PROVE TypeOK'
  <2>1. beat' \in [Admission -> BeatPc]
    BY <1>8, HeartbeatType DEF Spawn
  <2> QED
    BY <1>8, <2>1 DEF Spawn
<1>9. ASSUME TimePasses \/ BeginStart \/ StartFails \/ MarkStarted PROVE TypeOK'
  BY <1>9 DEF TimePasses, BeginStart, StartFails, MarkStarted
<1>10. ASSUME RelayStep \/ RelayWorkerEnds PROVE TypeOK'
  <2>1. relayBeat' \in BeatPc
    BY <1>10 DEF RelayStep, RelayWorkerEnds
  <2>2. UNCHANGED <<agentVars, beat, startVars, closeVars>>
    BY <1>10 DEF RelayStep, RelayWorkerEnds
  <2> QED
    BY <2>1, <2>2
<1>11. ASSUME BeginClose \/ CloseReturns \/ CloseTimesOut PROVE TypeOK'
  BY <1>11 DEF BeginClose, CloseReturns, CloseTimesOut
<1>12. CASE UNCHANGED vars
  BY <1>12 DEF vars
<1> QED
  BY <1>1, <1>2, <1>3, <1>4, <1>5, <1>6, <1>7, <1>8, <1>9, <1>10, <1>11, <1>12
     DEF Next, CallStep

\* Every step keeps what the progress of the calls says.  The new generation and the
\* one it replaces change sides in the same step.
LEMMA ProgressStep == TypeOK /\ Progresses /\ [Next]_vars => Progresses'
<1> SUFFICES ASSUME TypeOK, Progresses, [Next]_vars, NEW b \in Admission
             PROVE  Progress(b)'
  BY DEF Progresses
<1>0. Progress(b)
  BY DEF Progresses
<1> USE <1>0, ReporterAssumption DEF TypeOK, Progress, agentVars, startVars, closeVars
<1>1. ASSUME NEW a \in Admission, BeginAdmission(a) PROVE Progress(b)'
  BY <1>1 DEF BeginAdmission, Marked
<1>2. ASSUME NEW a \in Admission, AdmissionFails(a) PROVE Progress(b)'
  BY <1>2 DEF AdmissionFails, Marked
<1>3. ASSUME NEW a \in Admission, InstallGeneration(a) PROVE Progress(b)'
  <2>1. CASE b = a
    BY <1>3, <2>1 DEF InstallGeneration, Marked, Previous, StillAdmitted
  <2>2. CASE b # a
    BY <1>3, <2>2 DEF InstallGeneration, Marked, Previous, StillAdmitted
  <2> QED
    BY <2>1, <2>2
<1>4. ASSUME NEW a \in Admission, Superseded(a) PROVE Progress(b)'
  BY <1>4 DEF Superseded, Marked, StillAdmitted
<1>5. ASSUME NEW a \in Admission, AdmissionReturns(a) PROVE Progress(b)'
  <2>1. beat'[b] = beat[b] \/ (a = b /\ active = b)
    BY <1>5, HeartbeatType DEF AdmissionReturns
  <2> QED
    BY <1>5, <2>1 DEF AdmissionReturns
<1>6. ASSUME StopAgent PROVE Progress(b)'
  BY <1>6 DEF StopAgent, Marked
<1>7. ASSUME NEW a \in Admission, WorkerStep(a) \/ WorkerEnds(a) PROVE Progress(b)'
  BY <1>7 DEF WorkerStep, Report, NotFound, ReportOk, ReportFails, WorkerEnds, Calling
<1>8. ASSUME Spawn PROVE Progress(b)'
  <2>1. beat'[b] = beat[b] \/ active = b
    BY <1>8, HeartbeatType DEF Spawn
  <2> QED
    BY <1>8, <2>1 DEF Spawn
<1>9. ASSUME TimePasses \/ BeginStart \/ StartFails \/ MarkStarted PROVE Progress(b)'
  BY <1>9 DEF TimePasses, BeginStart, StartFails, MarkStarted
<1>10. ASSUME RelayStep \/ RelayWorkerEnds \/ BeginClose \/ CloseReturns \/ CloseTimesOut
       PROVE  Progress(b)'
  BY <1>10 DEF RelayStep, RelayWorkerEnds, BeginClose, CloseReturns, CloseTimesOut
<1>11. CASE UNCHANGED vars
  BY <1>11 DEF vars
<1> QED
  BY <1>1, <1>2, <1>3, <1>4, <1>5, <1>6, <1>7, <1>8, <1>9, <1>10, <1>11
     DEF Next, CallStep

\* Every step keeps the maps in agreement.  A report that comes back writes only if
\* its generation is still the active one.
LEMMA MapsStep == TypeOK /\ MapsAgree /\ [Next]_vars => MapsAgree'
<1> SUFFICES ASSUME TypeOK, MapsAgree, [Next]_vars PROVE MapsAgree'
  OBVIOUS
<1> USE ReporterAssumption DEF MapsAgree, agentVars, startVars, closeVars
<1>1. ASSUME NEW a \in Admission, BeginAdmission(a) PROVE MapsAgree'
  BY <1>1 DEF BeginAdmission
<1>2. ASSUME NEW a \in Admission, CallStep(a) PROVE MapsAgree'
  BY <1>2 DEF CallStep, AdmissionFails, InstallGeneration, Superseded, AdmissionReturns
<1>3. ASSUME StopAgent PROVE MapsAgree'
  BY <1>3 DEF StopAgent
<1>4. ASSUME NEW a \in Admission, WorkerStep(a) \/ WorkerEnds(a) PROVE MapsAgree'
  BY <1>4 DEF WorkerStep, Report, Due, NotFound, ReportOk, ReportFails, StillActive,
              WorkerEnds
<1>5. ASSUME TimePasses PROVE MapsAgree'
  BY <1>5 DEF TimePasses
<1>6. ASSUME BeginStart \/ StartFails \/ MarkStarted \/ Spawn \/ RelayStep \/ RelayWorkerEnds
      PROVE  MapsAgree'
  BY <1>6 DEF BeginStart, StartFails, MarkStarted, Spawn, RelayStep, RelayWorkerEnds
<1>7. ASSUME BeginClose \/ CloseReturns \/ CloseTimesOut PROVE MapsAgree'
  BY <1>7 DEF BeginClose, CloseReturns, CloseTimesOut
<1>8. CASE UNCHANGED vars
  BY <1>8 DEF vars
<1> QED
  BY <1>1, <1>2, <1>3, <1>4, <1>5, <1>6, <1>7, <1>8 DEF Next

----------------------------------------------------------------------------
\* The inductive invariant holds of every behaviour of the reporter.
THEOREM ReporterInvariant == Spec => []ReporterInductive
<1>1. Init => ReporterInductive
  BY ReporterInit
<1>2. ReporterInductive /\ [Next]_vars => ReporterInductive'
  BY ReporterTypeStep, ProgressStep, MapsStep DEF ReporterInductive
<1> QED
  BY <1>1, <1>2, PTL DEF Spec

\* Type correctness of the reporter's maps, calls and workers.
THEOREM ReporterTypeCorrect == Spec => []TypeOK
<1>1. ReporterInductive => TypeOK
  BY DEF ReporterInductive
<1> QED
  BY <1>1, ReporterInvariant, PTL

\* RegisterAgent's check of its admission after the Registry's answer keeps every
\* overtaken call from installing its generation.
THEOREM OvertakenSafety == Spec => []OvertakenStaysOut
<1>1. ReporterInductive => OvertakenStaysOut
  BY DEF ReporterInductive, TypeOK, Progresses, Progress, OvertakenStaysOut
<1> QED
  BY <1>1, ReporterInvariant, PTL

\* The active generation is the only one whose heartbeats are not cancelled.
THEOREM HeartbeatSafety == Spec => []OneLiveHeartbeat
<1>1. ReporterInductive => OneLiveHeartbeat
  BY DEF ReporterInductive, Progresses, Progress, OneLiveHeartbeat, Running, Calling
<1> QED
  BY <1>1, ReporterInvariant, PTL

\* activeAgents, registeredAgents and agentLastReported agree.
THEOREM MapsSafety == Spec => []MapsAgree
<1>1. ReporterInductive => MapsAgree
  BY DEF ReporterInductive
<1> QED
  BY <1>1, ReporterInvariant, PTL
=============================================================================
