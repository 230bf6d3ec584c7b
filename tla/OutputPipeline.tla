--------------------------- MODULE OutputPipeline ---------------------------
(***************************************************************************)
(* The way of a telemetry envelope through the outputs, and the shutdown   *)
(* of the relay (internal/outputs/router.go and internal/relay/relay.go).  *)
(*                                                                         *)
(* A stream handler passes each envelope to every configured consumer      *)
(* concurrently and waits for all of them.  Shutdown drains the gRPC       *)
(* server, cuts it off after ten seconds and closes the consumers one      *)
(* after the other.  A cut off server does not wait for its handlers       *)
(* (google.golang.org/grpc, Server.Stop), so a handler may still write to  *)
(* a consumer that is being closed.                                        *)
(*                                                                         *)
(* Every record comes from a stream of its own.  The Kafka sink is part of *)
(* this module: a queue whose worker waits five seconds for a delivery     *)
(* report.                                                                 *)
(***************************************************************************)
EXTENDS UploadSink

CONSTANT Scenario   \* what may be configured, and how many records arrive

\* The file sink is an output of its own, or the one the upload sink embeds.
ASSUME ScenarioAssumption ==
    /\ Scenario \subseteq [routes : SUBSET Sink, records : 0 .. MaxRecord]
    /\ \A c \in Scenario : ~({"upload", "file"} \subseteq c.routes)

VARIABLES
    routes,         \* the sinks of router.routes
    server,         \* the gRPC server and the shutdown function
    forced,         \* GracefulStop timed out
    phase,          \* where the handler of the record is
    writing,        \* consumers whose WriteEnvelope has not returned
    accepted,       \* records for which WriteEnvelope returned nil, by sink
    published,      \* external: records the Kafka broker has
    crashed         \* a send on a closed channel panicked

pipeVars == <<routes, server, forced, phase, writing, accepted, crashed>>

vars == <<asyncVars, fileVars, uploadVars, closeVars, pipeVars, published>>

TypeOK ==
    /\ AsyncTypeOK /\ FileTypeOK /\ UploadTypeOK
    /\ routes \in SUBSET Sink
    /\ server \in {"serving", "draining", "closing", "closed"}
    /\ forced \in BOOLEAN
    /\ phase \in [Record -> {"idle", "routing", "returned"}]
    /\ writing \in [Record -> SUBSET Sink]
    /\ accepted \in [Sink -> SUBSET Record]
    /\ published \in SUBSET Record
    /\ crashed \in BOOLEAN

Init ==
    /\ AsyncInit /\ FileInit /\ UploadInit
    /\ \E c \in Scenario :
          /\ routes = c.routes
          /\ phase = [r \in Record |->
                        IF r <= c.records THEN "idle" ELSE "returned"]
    /\ server = "serving"
    /\ forced = FALSE
    /\ writing = [r \in Record |-> {}]
    /\ accepted = [s \in Sink |-> {}]
    /\ published = {}
    /\ crashed = FALSE

sinkVars == <<asyncVars, fileVars, uploadVars, closeVars, published>>

----------------------------------------------------------------------------
(* The handlers.                                                           *)

\* A handler has read a frame; a draining server still serves its open streams,
\* and a handler that was cut off may have read one before.  Route starts a
\* goroutine for every consumer whose filter allows the record.
Route(r) ==
    /\ phase[r] = "idle"
    /\ \A q \in 1 .. r - 1 : phase[q] # "idle"
    /\ server \in {"serving", "draining"} \/ (forced /\ server = "closing")
    /\ phase' = [phase EXCEPT ![r] = "routing"]
    /\ \E allowed \in SUBSET routes : writing' = [writing EXCEPT ![r] = allowed]
    /\ UNCHANGED <<sinkVars, routes, server, forced, accepted, crashed>>

\* WriteEnvelope returns nil.
Accepted(r, s) ==
    /\ s \in writing[r]
    /\ Enqueue(s, r)
    /\ writing' = [writing EXCEPT ![r] = @ \ {s}]
    /\ accepted' = [accepted EXCEPT ![s] = @ \cup {r}]
    /\ UNCHANGED <<policy, closed, hand, counted, fileVars, uploadVars,
                   closeVars, published, routes, server, forced, phase,
                   crashed>>

\* WriteEnvelope returns an error: the queue is full and the policy is to drop,
\* or the policy is to wait and the stream's context ends, which it may any time.
Refused(r, s) ==
    /\ s \in writing[r]
    /\ \/ policy = "drop" /\ Full(s) /\ s \notin closed
       \/ policy = "block"
    /\ writing' = [writing EXCEPT ![r] = @ \ {s}]
    /\ UNCHANGED <<sinkVars, routes, server, forced, phase, accepted,
                   crashed>>

\* A send on a closed channel ends the process.
Panics(r, s) ==
    /\ s \in writing[r]
    /\ s \in closed
    /\ crashed' = TRUE
    /\ UNCHANGED <<sinkVars, routes, server, forced, phase, writing,
                   accepted>>

\* Mutant of RouteReturns: Route does not wait for its goroutines.
RouteReturnsEarly(r) ==
    /\ phase[r] = "routing"
    /\ phase' = [phase EXCEPT ![r] = "returned"]
    /\ UNCHANGED <<sinkVars, routes, server, forced, writing, accepted,
                   crashed>>

\* wg.Wait: every consumer has returned.
RouteReturns(r) ==
    /\ phase[r] = "routing"
    /\ writing[r] = {}
    /\ phase' = [phase EXCEPT ![r] = "returned"]
    /\ UNCHANGED <<sinkVars, routes, server, forced, writing, accepted,
                   crashed>>

----------------------------------------------------------------------------
(* The Kafka sink.                                                         *)

kafkaIdle == <<fileVars, uploadVars, pipeVars>>

\* handleMessage: the delivery report says yes; or Produce fails, the report says
\* no, or it does not come within five seconds.
Produce ==
    /\ hand["kafka"] # None
    /\ \/ Handled("kafka", FALSE) /\ published' = published \cup {hand["kafka"]}
       \/ Handled("kafka", TRUE) /\ UNCHANGED published
    /\ UNCHANGED <<policy, queue, closed, closeVars, kafkaIdle>>

CloseKafkaQueue ==
    /\ closer["kafka"] = "idle"
    /\ CloseQueue("kafka")
    /\ At("kafka", "queue")
    /\ UNCHANGED <<policy, queue, hand, counted, closeFailed, published,
                   kafkaIdle>>

\* Flush waits fifteen seconds for records whose report came too late.
KafkaClosed ==
    /\ closer["kafka"] = "queue"
    /\ Drained("kafka")
    /\ At("kafka", "ended")
    /\ UNCHANGED <<asyncVars, closeFailed, published, kafkaIdle>>

----------------------------------------------------------------------------
(* Shutdown.                                                               *)

\* A signal: GracefulStop is called.
Shutdown ==
    /\ server = "serving"
    /\ server' = "draining"
    /\ UNCHANGED <<sinkVars, routes, forced, phase, writing, accepted,
                   crashed>>

\* Every handler has returned.
HandlersDone == \A r \in Record : phase[r] # "routing"

Stopped ==
    /\ server = "draining"
    /\ HandlersDone
    /\ server' = "closing"
    /\ UNCHANGED <<sinkVars, routes, forced, phase, writing, accepted,
                   crashed>>

\* Ten seconds have passed: Stop ends the context of every stream and returns.
StopForced ==
    /\ server = "draining"
    /\ forced' = TRUE
    /\ server' = "closing"
    /\ UNCHANGED <<sinkVars, routes, phase, writing, accepted, crashed>>

\* The order in which initializeSinks adds consumers to the router.
Earlier(s) ==
    CASE s = "upload" -> {}
      [] s = "kafka" -> {"upload"}
      [] s = "file" -> {"upload", "kafka"}

\* Router.Close comes to the consumer when those before it have been closed.
MayClose(s) ==
    /\ server = "closing"
    /\ s \in routes
    /\ \A t \in Earlier(s) \cap routes : closer[t] = "ended"

\* Relay.Close returns.
Closed ==
    /\ server = "closing"
    /\ \A s \in routes : closer[s] = "ended"
    /\ server' = "closed"
    /\ UNCHANGED <<sinkVars, routes, forced, phase, writing, accepted,
                   crashed>>

----------------------------------------------------------------------------
\* Steps of the sinks' own goroutines, and of their Close.
SinkStep(A) == A /\ ~crashed /\ UNCHANGED <<pipeVars, published>>

TakeNext(s) == Take(s) /\ UNCHANGED <<fileVars, uploadVars, closeVars>>

HandleMessage == (WriteRecord \/ RotateAndWrite) /\ UNCHANGED <<uploadVars, closeVars>>

Closing ==
    \/ CloseUploadQueue \/ UploadQueueDrained \/ LastUpload \/ LastUploadEnds
    \/ UploadClosed \/ FileClosed
    \/ MayClose("upload") /\ StopTicker
    \/ MayClose("file") /\ CloseFileQueue

KafkaClosing == (MayClose("kafka") /\ CloseKafkaQueue) \/ KafkaClosed

Handler(r) ==
    \/ Route(r) \/ RouteReturns(r)
    \/ \E s \in Sink : Accepted(r, s) \/ Refused(r, s) \/ Panics(r, s)

Next ==
    \/ \E s \in Sink : SinkStep(TakeNext(s))
    \/ SinkStep(HandleMessage \/ PassOn \/ PassedOn \/ Closing)
    \/ SinkStep("upload" \in routes /\ TickStarts)
    \/ SinkStep(TickLocks \/ TickEnds \/ TickerExits)
    \/ /\ ~crashed
       /\ \/ \E r \in Record : Handler(r)
          \/ Produce \/ KafkaClosing
          \/ Shutdown \/ Stopped \/ StopForced \/ Closed

Spec == Init /\ [][Next]_vars

\* The goroutines run and network calls end.  Go's mutexes are starvation-free:
\* a worker that waits for s.mu or f.mu gets it although the ticker keeps coming.
\* Ten seconds pass; no stream need ever end.
FairSpec ==
    /\ Spec
    /\ \A s \in Sink : WF_vars(SinkStep(TakeNext(s)))
    /\ SF_vars(SinkStep(HandleMessage))
    /\ SF_vars(SinkStep(PassOn))
    /\ WF_vars(SinkStep(PassedOn))
    /\ WF_vars(SinkStep(TickLocks \/ TickEnds))
    /\ SF_vars(SinkStep(TickerExits))
    /\ WF_vars(SinkStep(Closing))
    /\ WF_vars(~crashed /\ (Produce \/ KafkaClosing))
    /\ WF_vars(~crashed /\ (Stopped \/ StopForced \/ Closed))
    /\ \A r \in Record :
          /\ WF_vars(~crashed /\ RouteReturns(r))
          /\ \A s \in Sink :
                WF_vars(/\ ~crashed
                        /\ \/ Accepted(r, s) \/ Panics(r, s)
                           \/ policy = "drop" /\ Refused(r, s))

----------------------------------------------------------------------------
(* Properties.                                                             *)

\* The records in the files, and in the objects of the bucket.
Written == UNION {Range(content[f]) : f \in 1 .. MaxFile}

Stored == UNION {Range(bucket[f]) : f \in 1 .. MaxFile}

\* The sink's Close has returned without an error.
ClosedWell(s) == closer[s] = "ended" /\ s \notin closeFailed

\* A Close that reports no error has drained the queue, and the queue behind it:
\* a record the sink accepted is in a file, or at the broker, or was counted by
\* aero_sink_worker_errors_total, however shutdown, ticker and workers interleave.
CloseDrains ==
    /\ ClosedWell("upload") =>
          accepted["upload"] \subseteq
              Written \cup counted["upload"] \cup counted["file"]
    /\ ClosedWell("file") => accepted["file"] \subseteq Written \cup counted["file"]
    /\ ClosedWell("kafka") =>
          accepted["kafka"] \subseteq published \cup counted["kafka"]

\* The send of EnqueueContext meets a closed channel only when GracefulStop timed
\* out: a handler that was waited for has finished all its writes.
PanicOnlyAfterForcedStop == crashed => forced

\* An object in the bucket is replaced only by one that continues it, although a
\* file is uploaded again after an error and a rotation may meet its own name.
ObjectsOnlyGrow ==
    [][\A f \in 1 .. MaxFile :
          /\ Len(bucket[f]) <= Len(bucket'[f])
          /\ \A i \in 1 .. Len(bucket[f]) : bucket[f][i] = bucket'[f][i]]_vars

\* Shutdown ends, in a process that has closed its outputs or has crashed: no
\* wait of Close is for somebody who waits for Close.
ShutdownEnds == server = "draining" ~> server = "closed" \/ crashed

\* Route returns although it waits for every consumer, and so gives back the
\* ownership lease its handler holds.
RouteEnds ==
    \A r \in Record : phase[r] = "routing" ~> phase[r] = "returned" \/ crashed

\* What the comments of Relay.Close and of the sinks' Close say: it drains the
\* outputs and flushes the remaining data.  A record that the upload sink
\* accepted and did not count as an error is in the bucket.
CloseUploads ==
    ClosedWell("upload") =>
        accepted["upload"] \ (counted["upload"] \cup counted["file"])
            \subseteq Stored
=============================================================================
