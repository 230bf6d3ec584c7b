----------------------- MODULE OutputPipelineProofs -----------------------
(***************************************************************************)
(* Proofs about the outputs and their shutdown, for any number of records  *)
(* and files, any queue capacity and any configuration.                    *)
(***************************************************************************)
EXTENDS OutputPipeline, SequenceTheorems, TLAPS

\* Records on their way through a sink.
InFlight(s) == Range(queue[s]) \cup {hand[s]}

\* Consumers are closed only after the server was stopped; unless it was cut
\* off, no handler is left then, and only a handler in Route has open writes.
ServerInv ==
    /\ (\E s \in Sink : closer[s] # "idle") \/ closed # {} =>
          server \in {"closing", "closed"}
    /\ server \in {"closing", "closed"} /\ ~forced =>
          \A r \in Record : phase[r] # "routing"
    /\ \A r \in Record : writing[r] # {} => phase[r] = "routing"
    /\ PanicOnlyAfterForcedStop

\* A queue that Close has drained is closed and stays empty.
DrainInv ==
    /\ closer["upload"] \in {"queue", "locked", "putting", "file", "ended"} =>
          "upload" \in closed
    /\ closer["upload"] \in {"locked", "putting", "file", "ended"} =>
          Drained("upload")
    /\ closer["upload"] = "file" \/ ClosedWell("upload") => "file" \in closed
    /\ ClosedWell("upload") => Drained("file")
    /\ \A s \in {"file", "kafka"} :
          /\ closer[s] \in {"queue", "ended"} => s \in closed
          /\ closer[s] = "ended" => Drained(s)

\* The worker that holds s.mu has a record.
HoldingInv == uploadMu = "worker" => hand["upload"] # None

\* Where a record is while it is with a sink, and after.
KafkaHas == InFlight("kafka") \cup published \cup counted["kafka"]

FileHas == InFlight("file") \cup Written \cup counted["file"]

UploadHas == InFlight("upload") \cup counted["upload"]

\* An accepted record is in a queue, in a worker's hand, at its destination or
\* counted as an error.
FlowInv ==
    /\ accepted["kafka"] \subseteq KafkaHas
    /\ accepted["file"] \subseteq FileHas
    /\ accepted["upload"] \subseteq UploadHas \cup FileHas

\* An object holds the beginning of its file.
BucketInv ==
    \A f \in 1 .. MaxFile :
        /\ Len(bucket[f]) <= Len(content[f])
        /\ \A i \in 1 .. Len(bucket[f]) : bucket[f][i] = content[f][i]

\* What was written stays in its place.
FilesGrow ==
    /\ Written \subseteq Written'
    /\ \A f \in 1 .. MaxFile :
          /\ Len(content[f]) <= Len(content'[f])
          /\ \A i \in 1 .. Len(content[f]) : content'[f][i] = content[f][i]

\* The inductive invariant.
Inv ==
    /\ TypeOK
    /\ ServerInv
    /\ DrainInv
    /\ HoldingInv
    /\ FlowInv
    /\ BucketInv

----------------------------------------------------------------------------
USE RecordAssumption, QueueAssumption, FileAssumption, ScenarioAssumption

USE DEF Sink, Stage, None, vars, asyncVars, fileVars, uploadVars, closeVars,
        pipeVars, sinkVars, kafkaIdle

\* Appending to a channel or to a file adds what is appended.
LEMMA RangeAppend ==
    ASSUME NEW S, NEW q \in Seq(S), NEW e \in S
    PROVE  Range(Append(q, e)) = Range(q) \cup {e}
<1>1. <<e>> \in Seq(S) /\ Append(q, e) = q \o <<e>>
  OBVIOUS
<1>2. Range(<<e>>) = {e}
  <2>1. Range(<<e>>) = {<<e>>[i] : i \in 1 .. Len(<<e>>)}
    BY <1>1, RangeEquality
  <2>2. Len(<<e>>) = 1 /\ <<e>>[1] = e
    OBVIOUS
  <2> QED BY <2>1, <2>2
<1>3. ASSUME NEW t \in Seq(S) PROVE Range(q \o t) = Range(q) \cup Range(t)
  BY RangeConcatenation
<1> QED BY <1>1, <1>2, <1>3

\* Receiving from a channel takes out its first record.
LEMMA RangeTail ==
    ASSUME NEW S, NEW q \in Seq(S), q # <<>>
    PROVE  /\ Head(q) \in S /\ Tail(q) \in Seq(S) /\ Len(Tail(q)) = Len(q) - 1
           /\ Range(q) \subseteq {Head(q)} \cup Range(Tail(q))
<1>1. /\ Head(q) \in S /\ Tail(q) \in Seq(S) /\ Len(Tail(q)) = Len(q) - 1
      /\ Head(q) = q[1]
      /\ \A i \in 1 .. Len(q) - 1 : Tail(q)[i] = q[i + 1]
  BY HeadTailProperties
<1>2. Range(q) = {q[i] : i \in 1 .. Len(q)}
  BY RangeEquality
<1>3. ASSUME NEW t \in Seq(S), NEW j \in 1 .. Len(t) PROVE t[j] \in Range(t)
  BY RangeEquality
<1>4. ASSUME NEW i \in 1 .. Len(q), i # 1
      PROVE  q[i] \in Range(Tail(q))
  <2>1. i - 1 \in 1 .. Len(Tail(q)) /\ Tail(q)[i - 1] = q[i]
    BY <1>1, <1>4, LenProperties
  <2>2. PICK j \in 1 .. Len(Tail(q)) : Tail(q)[j] = q[i]
    BY <2>1
  <2>3. Tail(q)[j] \in Range(Tail(q))
    BY <1>1, <1>3, Zenon
  <2> QED BY <2>2, <2>3, Zenon
<1> QED BY <1>1, <1>2, <1>4

\* Files are only appended to.
LEMMA AppendGrows ==
    ASSUME FileTypeOK, NEW f \in 1 .. MaxFile, NEW w \in Seq(Record),
           content' = [content EXCEPT ![f] = @ \o w]
    PROVE  /\ content' \in [1 .. MaxFile -> Seq(Record)]
           /\ FilesGrow /\ Range(w) \subseteq Written'
<1> DEFINE c == content[f]
<1>1. c \in Seq(Record) /\ content'[f] = c \o w
  BY DEF FileTypeOK
<1>2. /\ c \o w \in Seq(Record) /\ Len(c \o w) = Len(c) + Len(w)
      /\ \A i \in 1 .. Len(c) : (c \o w)[i] = c[i]
  BY <1>1, ConcatProperties
<1>3. Range(c \o w) = Range(c) \cup Range(w)
  BY <1>1, RangeConcatenation
<1>4. \A g \in 1 .. MaxFile : g # f => content'[g] = content[g]
  BY DEF FileTypeOK
<1>5. content' \in [1 .. MaxFile -> Seq(Record)]
  BY <1>2 DEF FileTypeOK
<1>6. Written \subseteq Written' /\ Range(w) \subseteq Written'
  <2>1. \A g \in 1 .. MaxFile : Range(content[g]) \subseteq Range(content'[g])
    BY <1>1, <1>3, <1>4
  <2>2. Range(w) \subseteq Range(content'[f])
    BY <1>1, <1>3
  <2> QED BY <2>1, <2>2 DEF Written
<1>7. ASSUME NEW g \in 1 .. MaxFile
      PROVE  /\ Len(content[g]) <= Len(content'[g])
             /\ \A i \in 1 .. Len(content[g]) : content'[g][i] = content[g][i]
  <2>1. CASE g = f
    BY <2>1, <1>1, <1>2, LenProperties
  <2>2. CASE g # f
    <3>1. content[g] \in Seq(Record) /\ content'[g] = content[g]
      BY <2>2, <1>4 DEF FileTypeOK
    <3> QED BY <3>1, LenProperties
  <2> QED BY <2>1, <2>2
<1> QED BY <1>5, <1>6, <1>7 DEF FilesGrow

\* A file that is not written to has not changed either.
LEMMA SameGrows == ASSUME FileTypeOK, UNCHANGED content PROVE FilesGrow
<1>1. Written' = Written
  BY DEF Written
<1>2. \A g \in 1 .. MaxFile : content[g] \in Seq(Record)
  BY DEF FileTypeOK
<1> QED BY <1>1, <1>2, LenProperties DEF FilesGrow

\* A rotation opens a new file, or the last one again.
LEMMA RotatedGrows ==
    ASSUME FileTypeOK, NEW w \in Seq(Record), Rotated(w)
    PROVE  /\ content' \in [1 .. MaxFile -> Seq(Record)] /\ current' \in 1 .. MaxFile
           /\ FilesGrow /\ Range(w) \subseteq Written'
<1> PICK f \in 1 .. MaxFile : OpenFile(f, w)
  BY DEF Rotated
<1>1. current' = f /\ content' = [content EXCEPT ![f] = @ \o w]
  BY DEF OpenFile
<1> QED BY <1>1, AppendGrows

----------------------------------------------------------------------------
(* Types.                                                                  *)

\* A send that goes through keeps the channels within their capacity.
LEMMA EnqueueTypes ==
    ASSUME AsyncTypeOK, NEW s \in Sink, NEW r \in Record, Enqueue(s, r)
    PROVE  /\ queue' \in [Sink -> Seq(Record)]
           /\ \A t \in Sink : Len(queue'[t]) <= QueueSize
           /\ queue'[s] = Append(queue[s], r)
           /\ \A t \in Sink : t # s => queue'[t] = queue[t]
<1>1. queue[s] \in Seq(Record) /\ Len(queue[s]) \in Nat /\ ~(Len(queue[s]) >= QueueSize)
  BY DEF AsyncTypeOK, Enqueue, Full
<1>2. /\ Append(queue[s], r) \in Seq(Record)
      /\ Len(Append(queue[s], r)) = Len(queue[s]) + 1
  BY <1>1, AppendProperties
<1>3. queue' = [queue EXCEPT ![s] = Append(queue[s], r)]
  BY DEF Enqueue
<1>4. /\ queue'[s] = Append(queue[s], r)
      /\ \A t \in Sink : t # s => queue'[t] = queue[t]
      /\ queue' \in [Sink -> Seq(Record)]
  BY <1>2, <1>3 DEF AsyncTypeOK
<1>5. \A t \in Sink : Len(queue'[t]) <= QueueSize
  BY <1>1, <1>2, <1>4 DEF AsyncTypeOK
<1> QED BY <1>4, <1>5

\* A worker that is done with its record, whether it counts an error or not.
LEMMA HandledTypes ==
    ASSUME AsyncTypeOK, NEW s \in Sink, NEW failed \in BOOLEAN,
           hand[s] # None, Handled(s, failed)
    PROVE  /\ hand' \in [Sink -> Record \cup {None}]
           /\ counted' \in [Sink -> SUBSET Record]
           /\ hand'[s] = None /\ \A t \in Sink : t # s => hand'[t] = hand[t]
           /\ \A t \in Sink : counted[t] \subseteq counted'[t]
           /\ failed => hand[s] \in counted'[s]
  BY DEF AsyncTypeOK, Handled

\* The worker that receives a record.
LEMMA TakeTypes ==
    ASSUME AsyncTypeOK, NEW s \in Sink, Take(s)
    PROVE  /\ AsyncTypeOK'
           /\ hand[s] = None /\ hand'[s] = Head(queue[s]) /\ queue'[s] = Tail(queue[s])
           /\ \A t \in Sink : t # s => hand'[t] = hand[t] /\ queue'[t] = queue[t]
           /\ Range(queue[s]) \subseteq Range(queue'[s]) \cup {hand'[s]}
<1>1. queue[s] \in Seq(Record) /\ queue[s] # <<>>
  BY DEF AsyncTypeOK, Take
<1>2. /\ Head(queue[s]) \in Record /\ Tail(queue[s]) \in Seq(Record)
      /\ Len(Tail(queue[s])) = Len(queue[s]) - 1
      /\ Range(queue[s]) \subseteq {Head(queue[s])} \cup Range(Tail(queue[s]))
  BY <1>1, RangeTail
<1>3. /\ hand' = [hand EXCEPT ![s] = Head(queue[s])] /\ hand[s] = None
      /\ queue' = [queue EXCEPT ![s] = Tail(queue[s])]
      /\ UNCHANGED <<policy, closed, counted>>
  BY DEF Take
<1>4. /\ hand'[s] = Head(queue[s]) /\ queue'[s] = Tail(queue[s])
      /\ \A t \in Sink : t # s => hand'[t] = hand[t] /\ queue'[t] = queue[t]
      /\ hand' \in [Sink -> Record \cup {None}] /\ queue' \in [Sink -> Seq(Record)]
  BY <1>2, <1>3 DEF AsyncTypeOK
<1>5. \A t \in Sink : Len(queue'[t]) <= QueueSize
  <2>1. Len(queue[s]) \in Nat /\ Len(queue[s]) <= QueueSize
    BY <1>1, LenProperties DEF AsyncTypeOK
  <2>2. Len(queue'[s]) <= QueueSize
    BY <2>1, <1>2, <1>4
  <2> QED BY <2>2, <1>4 DEF AsyncTypeOK
<1> QED BY <1>2, <1>3, <1>4, <1>5 DEF AsyncTypeOK

\* A step of the sinks' goroutines or of their Close, without what it leaves
\* alone outside the sinks.
SinkAction ==
    \/ \E s \in Sink : TakeNext(s)
    \/ HandleMessage \/ PassOn \/ PassedOn \/ Closing
    \/ TickStarts \/ TickLocks \/ TickEnds \/ TickerExits

\* The steps of Next by who takes them.
LEMMA NextCases ==
    ASSUME [Next]_vars
    PROVE  \/ SinkAction /\ UNCHANGED <<pipeVars, published>>
           \/ \E r \in Record : Handler(r)
           \/ Produce \/ KafkaClosing
           \/ Shutdown \/ Stopped \/ StopForced \/ Closed
           \/ UNCHANGED vars
  BY DEF Next, SinkStep, SinkAction

\* The file worker with its record: it ends in a file or is counted, and what
\* was written stays.
LEMMA HandleMessageEffect ==
    ASSUME AsyncTypeOK, FileTypeOK, HandleMessage
    PROVE  /\ AsyncTypeOK' /\ FileTypeOK' /\ FilesGrow
           /\ hand["file"] \in Written' \cup counted'["file"]
           /\ hand'["file"] = None
           /\ hand'["upload"] = hand["upload"] /\ hand'["kafka"] = hand["kafka"]
           /\ \A t \in Sink : counted[t] \subseteq counted'[t]
           /\ UNCHANGED <<policy, queue, closed, fileMu, uploadVars, closeVars>>
<1> USE DEF Handling
<1>0. /\ hand["file"] # None /\ hand["file"] \in Record
      /\ UNCHANGED <<policy, queue, closed, fileMu, uploadVars, closeVars>>
  BY DEF HandleMessage, WriteRecord, RotateAndWrite, AsyncTypeOK
<1>1. PICK failed \in BOOLEAN : Handled("file", failed)
  BY DEF HandleMessage, WriteRecord, RotateAndWrite
<1>2. /\ AsyncTypeOK' /\ hand'["file"] = None
      /\ hand'["upload"] = hand["upload"] /\ hand'["kafka"] = hand["kafka"]
      /\ \A t \in Sink : counted[t] \subseteq counted'[t]
  BY <1>0, <1>1, HandledTypes DEF AsyncTypeOK
<1>3. ASSUME Handled("file", TRUE) PROVE hand["file"] \in counted'["file"]
  BY <1>0, <1>3, HandledTypes
<1> DEFINE w == <<hand["file"]>>
<1>4. w \in Seq(Record) /\ <<>> \in Seq(Record) /\ hand["file"] \in Range(w)
  <2>1. w \in Seq(Record) /\ <<>> \in Seq(Record) /\ Len(w) = 1 /\ w[1] = hand["file"]
    BY <1>0
  <2>2. Range(w) = {w[i] : i \in 1 .. Len(w)}
    BY <2>1, RangeEquality
  <2> QED BY <2>1, <2>2
<1>5. CASE WriteRecord
  <2>1. UNCHANGED <<current, fileOpen, fileMu>>
    BY <1>5 DEF WriteRecord
  <2>2. CASE content' = [content EXCEPT ![current] = Append(@, hand["file"])]
    <3>0. Append(content[current], hand["file"]) = content[current] \o w
      BY <1>0, AppendIsConcat DEF FileTypeOK
    <3>1. content' = [content EXCEPT ![current] = content[current] \o w]
      BY <2>2, <3>0, Zenon
    <3>2. /\ content' \in [1 .. MaxFile -> Seq(Record)] /\ FilesGrow
          /\ Range(w) \subseteq Written'
      BY <3>1, <1>4, AppendGrows DEF FileTypeOK
    <3> QED BY <3>2, <2>1, <1>0, <1>2, <1>4 DEF FileTypeOK
  <2>3. CASE UNCHANGED content /\ Handled("file", TRUE)
    BY <2>1, <2>3, <1>0, <1>2, <1>3, SameGrows DEF FileTypeOK
  <2> QED BY <1>5, <2>2, <2>3 DEF WriteRecord
<1>6. CASE RotateAndWrite
  <2>1. CASE Rotated(w)
    <3>1. /\ content' \in [1 .. MaxFile -> Seq(Record)] /\ current' \in 1 .. MaxFile
          /\ FilesGrow /\ Range(w) \subseteq Written'
      BY <2>1, <1>4, RotatedGrows
    <3>2. UNCHANGED fileOpen
      BY <2>1 DEF Rotated
    <3> QED BY <3>1, <3>2, <1>0, <1>2, <1>4 DEF FileTypeOK
  <2>2. CASE Rotated(<<>>) /\ Handled("file", TRUE)
    <3>1. /\ content' \in [1 .. MaxFile -> Seq(Record)] /\ current' \in 1 .. MaxFile
          /\ FilesGrow
      BY <2>2, <1>4, RotatedGrows
    <3>2. UNCHANGED fileOpen
      BY <2>2 DEF Rotated
    <3> QED BY <3>1, <3>2, <2>2, <1>0, <1>2, <1>3 DEF FileTypeOK
  <2>3. CASE RotationFails /\ Handled("file", TRUE)
    <3>1. UNCHANGED <<content, current>> /\ fileOpen' \in BOOLEAN
      BY <2>3 DEF RotationFails, FileTypeOK
    <3> QED BY <3>1, <2>3, <1>0, <1>2, <1>3, SameGrows DEF FileTypeOK
  <2> QED BY <1>6, <2>1, <2>2, <2>3 DEF RotateAndWrite
<1> QED BY <1>5, <1>6 DEF HandleMessage

\* An upload of the ticker: what was written stays.
LEMMA TickEndsEffect ==
    ASSUME AsyncTypeOK, FileTypeOK, UploadTypeOK, TickEnds
    PROVE  /\ FileTypeOK' /\ UploadTypeOK' /\ FilesGrow
           /\ bucket' = [bucket EXCEPT ![current] = content[current]] \/ UNCHANGED bucket
           /\ uploadMu' = "free"
           /\ UNCHANGED <<asyncVars, closeVars>>
<1>1. bucket' = [bucket EXCEPT ![current] = content[current]] \/ UNCHANGED bucket
  BY DEF TickEnds, Put
<1>2. bucket' \in [1 .. MaxFile -> Seq(Record)]
  BY <1>1 DEF FileTypeOK, UploadTypeOK
<1>3. /\ uploadMu' = "free" /\ ticker' = "idle" /\ fileMu' = "free"
      /\ UNCHANGED <<asyncVars, stopping, closeVars>>
  BY DEF TickEnds
<1>4. UploadTypeOK'
  BY <1>2, <1>3 DEF UploadTypeOK
<1>5. /\ content' \in [1 .. MaxFile -> Seq(Record)] /\ current' \in 1 .. MaxFile
      /\ fileOpen' \in BOOLEAN /\ FilesGrow
  <2>1. CASE Rotated(<<>>)
    <3>1. <<>> \in Seq(Record) /\ UNCHANGED fileOpen
      BY <2>1 DEF Rotated
    <3> QED BY <2>1, <3>1, RotatedGrows DEF FileTypeOK
  <2>2. CASE RotationFails \/ UNCHANGED <<content, current, fileOpen>>
    <3>1. UNCHANGED <<content, current>> /\ fileOpen' \in BOOLEAN
      BY <2>2 DEF RotationFails, FileTypeOK
    <3> QED BY <3>1, SameGrows DEF FileTypeOK
  <2> QED BY <2>1, <2>2 DEF TickEnds
<1>6. FileTypeOK'
  BY <1>3, <1>5 DEF FileTypeOK
<1> QED BY <1>1, <1>3, <1>4, <1>5, <1>6

\* The worker of the upload sink passes its record on, or counts it.
LEMMA PassedOnEffect ==
    ASSUME AsyncTypeOK, HoldingInv, PassedOn
    PROVE  /\ AsyncTypeOK'
           /\ hand'["upload"] = None /\ hand["upload"] # None
           /\ hand'["file"] = hand["file"] /\ hand'["kafka"] = hand["kafka"]
           /\ queue'["upload"] = queue["upload"] /\ queue'["kafka"] = queue["kafka"]
           /\ \A t \in Sink : counted[t] \subseteq counted'[t]
           /\ \/ UNCHANGED queue /\ hand["upload"] \in counted'["upload"]
              \/ /\ "file" \notin closed
                 /\ Range(queue'["file"]) = Range(queue["file"]) \cup {hand["upload"]}
           /\ uploadMu' = "free"
           /\ UNCHANGED <<policy, closed, fileVars, ticker, stopping, bucket, closeVars>>
<1>1. /\ hand["upload"] # None /\ hand["upload"] \in Record /\ uploadMu' = "free"
      /\ UNCHANGED <<policy, closed, fileVars, ticker, stopping, bucket, closeVars>>
  BY DEF PassedOn, HoldingInv, AsyncTypeOK
<1>2. CASE Enqueue("file", hand["upload"]) /\ Handled("upload", FALSE)
  <2>1. /\ queue' \in [Sink -> Seq(Record)]
        /\ \A t \in Sink : Len(queue'[t]) <= QueueSize
        /\ queue'["file"] = Append(queue["file"], hand["upload"])
        /\ queue'["upload"] = queue["upload"] /\ queue'["kafka"] = queue["kafka"]
    BY <1>1, <1>2, EnqueueTypes
  <2>2. /\ hand' \in [Sink -> Record \cup {None}]
        /\ counted' \in [Sink -> SUBSET Record]
        /\ hand'["upload"] = None
        /\ hand'["file"] = hand["file"] /\ hand'["kafka"] = hand["kafka"]
        /\ \A t \in Sink : counted[t] \subseteq counted'[t]
    BY <1>1, <1>2, HandledTypes
  <2>3. Range(Append(queue["file"], hand["upload"]))
            = Range(queue["file"]) \cup {hand["upload"]}
    <3>1. queue["file"] \in Seq(Record)
      BY DEF AsyncTypeOK
    <3> QED BY <1>1, <3>1, RangeAppend
  <2>4. "file" \notin closed
    BY <1>2 DEF Enqueue
  <2> QED BY <1>1, <2>1, <2>2, <2>3, <2>4 DEF AsyncTypeOK
<1>3. CASE Handled("upload", TRUE) /\ UNCHANGED queue
  BY <1>1, <1>3, HandledTypes DEF AsyncTypeOK
<1> QED BY <1>2, <1>3 DEF PassedOn

\* Every step of Close keeps the types.
LEMMA ClosingTypes ==
    ASSUME AsyncTypeOK, FileTypeOK, UploadTypeOK, Closing
    PROVE  AsyncTypeOK' /\ FileTypeOK' /\ UploadTypeOK' /\ UNCHANGED <<queue, hand>>
<1> USE DEF AsyncTypeOK, FileTypeOK, UploadTypeOK, At, CloseQueue, CloseFile, Put
<1>1. CASE CloseUploadQueue
  BY <1>1 DEF CloseUploadQueue
<1>2. CASE UploadQueueDrained
  BY <1>2 DEF UploadQueueDrained
<1>3. CASE LastUpload
  <2>1. AsyncTypeOK' /\ UNCHANGED <<queue, hand>>
    BY <1>3 DEF LastUpload
  <2>2. FileTypeOK'
    BY <1>3 DEF LastUpload
  <2>3. /\ closer' \in [Sink -> Stage] /\ closeFailed' \in SUBSET Sink
        /\ uploadMu' \in {uploadMu, "free"}
    <3>1. PICK stage \in Stage : closer' = [closer EXCEPT !["upload"] = stage]
      BY <1>3 DEF LastUpload
    <3>2. closer' \in [Sink -> Stage]
      BY <3>1
    <3>3. closeFailed' \in {closeFailed, closeFailed \cup {"upload"}}
      BY <1>3 DEF LastUpload
    <3>4. uploadMu' \in {uploadMu, "free"}
      BY <1>3 DEF LastUpload
    <3> QED BY <3>2, <3>3, <3>4
  <2>4. UploadTypeOK'
    BY <1>3, <2>3 DEF LastUpload
  <2> QED BY <2>1, <2>2, <2>4
<1>4. CASE LastUploadEnds
  <2>1. AsyncTypeOK' /\ UNCHANGED <<queue, hand>>
    BY <1>4 DEF LastUploadEnds
  <2>2. FileTypeOK'
    BY <1>4 DEF LastUploadEnds
  <2>3. bucket' \in [1 .. MaxFile -> Seq(Record)]
    <3>1. bucket' = [bucket EXCEPT ![current] = content[current]] \/ UNCHANGED bucket
      BY <1>4 DEF LastUploadEnds
    <3> QED BY <3>1
  <2>4. /\ closer' \in [Sink -> Stage] /\ closeFailed' \in SUBSET Sink
        /\ uploadMu' \in {uploadMu, "free"} /\ UNCHANGED <<ticker, stopping>>
    <3>1. PICK stage \in Stage : closer' = [closer EXCEPT !["upload"] = stage]
      BY <1>4 DEF LastUploadEnds
    <3>2. closer' \in [Sink -> Stage]
      BY <3>1
    <3>3. closeFailed' \in {closeFailed, closeFailed \cup {"upload"}}
      BY <1>4 DEF LastUploadEnds
    <3>4. uploadMu' \in {uploadMu, "free"} /\ UNCHANGED <<ticker, stopping>>
      BY <1>4 DEF LastUploadEnds
    <3> QED BY <3>2, <3>3, <3>4
  <2>5. UploadTypeOK'
    BY <2>3, <2>4
  <2> QED BY <2>1, <2>2, <2>5
<1>5. CASE UploadClosed
  BY <1>5 DEF UploadClosed
<1>6. CASE FileClosed
  BY <1>6 DEF FileClosed
<1>7. CASE StopTicker
  BY <1>7 DEF StopTicker
<1>8. CASE CloseFileQueue
  BY <1>8 DEF CloseFileQueue
<1> QED BY <1>1, <1>2, <1>3, <1>4, <1>5, <1>6, <1>7, <1>8 DEF Closing

\* Every step keeps the types.
LEMMA TypeStep == TypeOK /\ HoldingInv /\ [Next]_vars => TypeOK'
<1> SUFFICES ASSUME TypeOK, HoldingInv, [Next]_vars PROVE TypeOK'
  OBVIOUS
<1>0. AsyncTypeOK /\ FileTypeOK /\ UploadTypeOK
  BY DEF TypeOK
<1>1. CASE SinkAction /\ UNCHANGED <<pipeVars, published>>
  <2> SUFFICES AsyncTypeOK' /\ FileTypeOK' /\ UploadTypeOK'
    BY <1>1 DEF TypeOK
  <2>1. CASE \E s \in Sink : TakeNext(s)
    BY <2>1, <1>0, TakeTypes DEF TakeNext, FileTypeOK, UploadTypeOK
  <2>2. CASE HandleMessage
    BY <2>2, <1>0, HandleMessageEffect DEF UploadTypeOK
  <2>3. CASE PassOn
    BY <2>3, <1>0 DEF PassOn, AsyncTypeOK, FileTypeOK, UploadTypeOK
  <2>4. CASE PassedOn
    BY <2>4, <1>0, PassedOnEffect DEF FileTypeOK, UploadTypeOK
  <2>5. CASE Closing
    BY <2>5, <1>0, ClosingTypes
  <2>6. CASE TickStarts \/ TickLocks \/ TickerExits
    BY <2>6, <1>0 DEF TickStarts, TickLocks, TickerExits, AsyncTypeOK, FileTypeOK,
        UploadTypeOK
  <2>7. CASE TickEnds
    BY <2>7, <1>0, TickEndsEffect DEF AsyncTypeOK
  <2> QED BY <1>1, <2>1, <2>2, <2>3, <2>4, <2>5, <2>6, <2>7 DEF SinkAction
<1>2. ASSUME NEW r \in Record, Handler(r) PROVE TypeOK'
  <2>1. CASE Route(r)
    BY <2>1 DEF Route, TypeOK, AsyncTypeOK, FileTypeOK, UploadTypeOK
  <2>2. CASE RouteReturns(r)
    BY <2>2 DEF RouteReturns, TypeOK, AsyncTypeOK, FileTypeOK, UploadTypeOK
  <2>3. ASSUME NEW s \in Sink, Accepted(r, s) PROVE TypeOK'
    <3>1. AsyncTypeOK'
      BY <2>3, <1>0, EnqueueTypes DEF Accepted, AsyncTypeOK
    <3>2. FileTypeOK' /\ UploadTypeOK'
      BY <2>3, <1>0 DEF Accepted, FileTypeOK, UploadTypeOK
    <3> QED BY <2>3, <3>1, <3>2 DEF Accepted, TypeOK
  <2>4. ASSUME NEW s \in Sink, Refused(r, s) PROVE TypeOK'
    BY <2>4 DEF Refused, TypeOK, AsyncTypeOK, FileTypeOK, UploadTypeOK
  <2>5. ASSUME NEW s \in Sink, Panics(r, s) PROVE TypeOK'
    BY <2>5 DEF Panics, TypeOK, AsyncTypeOK, FileTypeOK, UploadTypeOK
  <2> QED BY <1>2, <2>1, <2>2, <2>3, <2>4, <2>5 DEF Handler
<1>3. CASE Produce
  <2>1. AsyncTypeOK'
    BY <1>3, <1>0, HandledTypes DEF Produce, AsyncTypeOK
  <2>2. FileTypeOK' /\ UploadTypeOK'
    BY <1>3, <1>0 DEF Produce, FileTypeOK, UploadTypeOK
  <2>3. published' \in SUBSET Record
    <3>1. hand["kafka"] \in Record \cup {None} /\ hand["kafka"] # None
      BY <1>3, <1>0 DEF Produce, AsyncTypeOK
    <3> QED BY <1>3, <3>1 DEF Produce, TypeOK
  <2> QED BY <1>3, <2>1, <2>2, <2>3 DEF Produce, TypeOK
<1>4. CASE KafkaClosing
  <2>1. AsyncTypeOK'
    BY <1>4, <1>0 DEF KafkaClosing, CloseKafkaQueue, KafkaClosed, CloseQueue, AsyncTypeOK
  <2>2. FileTypeOK' /\ UploadTypeOK'
    BY <1>4, <1>0 DEF KafkaClosing, CloseKafkaQueue, KafkaClosed, At, FileTypeOK,
        UploadTypeOK
  <2> QED BY <1>4, <2>1, <2>2 DEF KafkaClosing, CloseKafkaQueue, KafkaClosed, TypeOK
<1>5. CASE Shutdown \/ Stopped \/ StopForced \/ Closed
  <2>1. AsyncTypeOK' /\ FileTypeOK' /\ UploadTypeOK'
    <3>1. UNCHANGED sinkVars
      BY <1>5 DEF Shutdown, Stopped, StopForced, Closed
    <3> QED BY <3>1, <1>0 DEF AsyncTypeOK, FileTypeOK, UploadTypeOK
  <2> QED BY <1>5, <2>1 DEF Shutdown, Stopped, StopForced, Closed, TypeOK
<1>6. CASE UNCHANGED vars
  BY <1>6 DEF TypeOK, AsyncTypeOK, FileTypeOK, UploadTypeOK
<1> QED BY <1>1, <1>2, <1>3, <1>4, <1>5, <1>6, NextCases

\* The worker that has s.mu keeps its record until it is done with it.
LEMMA HoldingStep == TypeOK /\ HoldingInv /\ [Next]_vars => HoldingInv'
<1> SUFFICES ASSUME TypeOK, HoldingInv, [Next]_vars PROVE HoldingInv'
  OBVIOUS
<1> USE DEF HoldingInv
<1>0. AsyncTypeOK /\ FileTypeOK /\ UploadTypeOK
  BY DEF TypeOK
<1>1. CASE SinkAction
  <2>1. CASE \E s \in Sink : TakeNext(s)
    BY <2>1, <1>0, TakeTypes DEF TakeNext
  <2>2. CASE HandleMessage
    BY <2>2, <1>0, HandleMessageEffect
  <2>3. CASE PassOn
    BY <2>3 DEF PassOn
  <2>4. CASE PassedOn
    BY <2>4 DEF PassedOn
  <2>5. CASE Closing
    <3>1. uploadMu' = "worker" => uploadMu = "worker"
      BY <2>5 DEF Closing, CloseUploadQueue, UploadQueueDrained, LastUpload,
          LastUploadEnds, UploadClosed, FileClosed, StopTicker, CloseFileQueue
    <3> QED BY <2>5, <3>1, <1>0, ClosingTypes
  <2>6. CASE TickStarts \/ TickLocks \/ TickerExits
    BY <2>6 DEF TickStarts, TickLocks, TickerExits
  <2>7. CASE TickEnds
    BY <2>7 DEF TickEnds
  <2> QED BY <1>1, <2>1, <2>2, <2>3, <2>4, <2>5, <2>6, <2>7 DEF SinkAction
<1>2. ASSUME NEW r \in Record, Handler(r) PROVE HoldingInv'
  BY <1>2 DEF Handler, Route, RouteReturns, Accepted, Refused, Panics
<1>3. CASE Produce
  BY <1>3, <1>0 DEF Produce, Handled, AsyncTypeOK
<1>4. CASE KafkaClosing
  BY <1>4 DEF KafkaClosing, CloseKafkaQueue, KafkaClosed
<1>5. CASE Shutdown \/ Stopped \/ StopForced \/ Closed
  BY <1>5 DEF Shutdown, Stopped, StopForced, Closed
<1>6. CASE UNCHANGED vars
  BY <1>6
<1> QED BY <1>1, <1>2, <1>3, <1>4, <1>5, <1>6, NextCases

----------------------------------------------------------------------------
(* The server and the handlers.                                            *)

\* Consumers are closed once the server has stopped, and without a forced stop
\* no handler writes by then.
LEMMA ServerStep == TypeOK /\ ServerInv /\ [Next]_vars => ServerInv'
<1> SUFFICES ASSUME TypeOK, ServerInv, [Next]_vars PROVE ServerInv'
  OBVIOUS
<1> USE DEF ServerInv, PanicOnlyAfterForcedStop
<1>0. AsyncTypeOK /\ FileTypeOK /\ UploadTypeOK
  BY DEF TypeOK
<1>1. CASE SinkAction /\ UNCHANGED <<pipeVars, published>>
  <2>1. CASE \E s \in Sink : TakeNext(s)
    BY <1>1, <2>1 DEF TakeNext, Take
  <2>2. CASE HandleMessage
    BY <1>1, <2>2, <1>0, HandleMessageEffect
  <2>3. CASE PassOn \/ PassedOn
    BY <1>1, <2>3 DEF PassOn, PassedOn
  <2>4. CASE TickStarts \/ TickLocks \/ TickEnds \/ TickerExits
    BY <1>1, <2>4 DEF TickStarts, TickLocks, TickEnds, TickerExits
  <2>5. CASE Closing
    <3>1. (\E s \in Sink : closer[s] # "idle") \/ server = "closing"
      BY <2>5 DEF Closing, CloseUploadQueue, UploadQueueDrained, LastUpload,
          LastUploadEnds, UploadClosed, FileClosed, MayClose
    <3>2. server \in {"closing", "closed"}
      BY <3>1
    <3> QED BY <1>1, <3>2
  <2> QED BY <1>1, <2>1, <2>2, <2>3, <2>4, <2>5 DEF SinkAction
<1>2. ASSUME NEW r \in Record, Handler(r) PROVE ServerInv'
  <2>1. CASE Route(r)
    BY <2>1 DEF Route, TypeOK
  <2>2. CASE RouteReturns(r)
    BY <2>2 DEF RouteReturns, TypeOK
  <2>3. ASSUME NEW s \in Sink, Accepted(r, s) PROVE ServerInv'
    BY <2>3 DEF Accepted, TypeOK
  <2>4. ASSUME NEW s \in Sink, Refused(r, s) PROVE ServerInv'
    BY <2>4 DEF Refused, TypeOK
  <2>5. ASSUME NEW s \in Sink, Panics(r, s) PROVE ServerInv'
    <3>1. phase[r] = "routing" /\ server \in {"closing", "closed"}
      BY <2>5 DEF Panics
    <3> QED BY <2>5, <3>1 DEF Panics
  <2> QED BY <1>2, <2>1, <2>2, <2>3, <2>4, <2>5 DEF Handler
<1>3. CASE Produce
  BY <1>3 DEF Produce
<1>4. CASE KafkaClosing
  <2>1. (\E s \in Sink : closer[s] # "idle") \/ server = "closing"
    BY <1>4 DEF KafkaClosing, KafkaClosed, MayClose
  <2>2. server \in {"closing", "closed"} /\ UNCHANGED pipeVars
    BY <1>4, <2>1 DEF KafkaClosing, KafkaClosed, CloseKafkaQueue
  <2> QED BY <2>2
<1>5. CASE Shutdown \/ Stopped \/ StopForced \/ Closed
  BY <1>5 DEF Shutdown, Stopped, HandlersDone, StopForced, Closed
<1>6. CASE UNCHANGED vars
  BY <1>6
<1> QED BY <1>1, <1>2, <1>3, <1>4, <1>5, <1>6, NextCases

----------------------------------------------------------------------------
(* Close and its queues.                                                   *)

\* What DrainInv says is kept by a step that leaves Close where it is and puts
\* nothing in a closed queue.
LEMMA DrainKept ==
    ASSUME DrainInv, closed \subseteq closed', UNCHANGED <<closer, closeFailed>>,
           \A s \in closed : Drained(s) => Drained(s)'
    PROVE  DrainInv'
<1>1. \A s \in Sink : ClosedWell(s)' <=> ClosedWell(s)
  BY DEF ClosedWell
<1> QED BY <1>1 DEF DrainInv

\* Close goes on only with a queue that is closed and empty.
LEMMA DrainStep == TypeOK /\ HoldingInv /\ DrainInv /\ [Next]_vars => DrainInv'
<1> SUFFICES ASSUME TypeOK, HoldingInv, DrainInv, [Next]_vars PROVE DrainInv'
  OBVIOUS
<1>0. AsyncTypeOK /\ FileTypeOK /\ UploadTypeOK
  BY DEF TypeOK
<1>1. CASE SinkAction
  <2>1. CASE \E s \in Sink : TakeNext(s)
    <3> PICK s \in Sink : TakeNext(s)
      BY <2>1
    <3>1. \A t \in Sink : Drained(t) => Drained(t)'
      <4>1. ~Drained(s)
        BY DEF TakeNext, Take, Drained
      <4> QED BY <4>1, <1>0, TakeTypes DEF TakeNext, Drained
    <3> QED BY <3>1, <1>0, DrainKept DEF TakeNext, Take, AsyncTypeOK
  <2>2. CASE HandleMessage
    <3>1. \A t \in Sink : Drained(t) => Drained(t)'
      BY <2>2, <1>0, HandleMessageEffect DEF Drained
    <3>2. UNCHANGED <<closed, closer, closeFailed>>
      BY <2>2, <1>0, HandleMessageEffect
    <3> QED BY <3>1, <3>2, <1>0, DrainKept DEF AsyncTypeOK
  <2>3. CASE PassOn
    BY <2>3, <1>0, DrainKept DEF PassOn, Drained, AsyncTypeOK
  <2>4. CASE PassedOn
    <3>1. \A t \in closed : Drained(t) => Drained(t)'
      BY <2>4, <1>0, PassedOnEffect DEF Drained, AsyncTypeOK
    <3>2. UNCHANGED <<closed, closer, closeFailed>>
      BY <2>4 DEF PassedOn
    <3> QED BY <3>1, <3>2, DrainKept
  <2>5. CASE TickStarts \/ TickLocks \/ TickEnds \/ TickerExits
    <3>1. UNCHANGED <<asyncVars, closeVars>>
      BY <2>5 DEF TickStarts, TickLocks, TickEnds, TickerExits
    <3> QED BY <3>1, DrainKept DEF Drained
  <2>6. CASE Closing
    <3> USE <1>0 DEF DrainInv, Drained, ClosedWell, At, CloseQueue, AsyncTypeOK, UploadTypeOK
    <3>1. CASE CloseUploadQueue
      BY <3>1 DEF CloseUploadQueue
    <3>2. CASE UploadQueueDrained
      BY <3>2 DEF UploadQueueDrained
    <3>3. CASE LastUpload
      BY <3>3 DEF LastUpload
    <3>4. CASE LastUploadEnds
      BY <3>4 DEF LastUploadEnds
    <3>5. CASE UploadClosed
      BY <3>5 DEF UploadClosed
    <3>6. CASE FileClosed
      BY <3>6 DEF FileClosed
    <3>7. CASE StopTicker
      BY <3>7 DEF StopTicker
    <3>8. CASE CloseFileQueue
      BY <3>8 DEF CloseFileQueue
    <3> QED BY <2>6, <3>1, <3>2, <3>3, <3>4, <3>5, <3>6, <3>7, <3>8 DEF Closing
  <2> QED BY <1>1, <2>1, <2>2, <2>3, <2>4, <2>5, <2>6 DEF SinkAction
<1>2. ASSUME NEW r \in Record, Handler(r) PROVE DrainInv'
  <2>1. CASE \E s \in Sink : Accepted(r, s)
    <3> PICK s \in Sink : Accepted(r, s)
      BY <2>1
    <3>1. /\ s \notin closed /\ UNCHANGED <<closed, hand, closer, closeFailed>>
          /\ \A t \in Sink : t # s => queue'[t] = queue[t]
      BY <1>0, EnqueueTypes DEF Accepted, Enqueue
    <3>2. \A t \in closed : Drained(t) => Drained(t)'
      BY <3>1, <1>0 DEF Drained, AsyncTypeOK
    <3> QED BY <3>1, <3>2, DrainKept
  <2>2. CASE Route(r) \/ RouteReturns(r) \/ \E s \in Sink : Refused(r, s) \/ Panics(r, s)
    <3>1. UNCHANGED sinkVars
      BY <2>2 DEF Route, RouteReturns, Refused, Panics
    <3> QED BY <3>1, DrainKept DEF Drained
  <2> QED BY <1>2, <2>1, <2>2 DEF Handler
<1>3. CASE Produce
  <2>1. \A t \in Sink : Drained(t) => Drained(t)'
    BY <1>3, <1>0 DEF Produce, Handled, Drained, AsyncTypeOK
  <2>2. UNCHANGED <<closed, closer, closeFailed>>
    BY <1>3 DEF Produce
  <2> QED BY <2>1, <2>2, <1>0, DrainKept DEF AsyncTypeOK
<1>4. CASE KafkaClosing
  BY <1>4, <1>0 DEF KafkaClosing, CloseKafkaQueue, KafkaClosed, DrainInv, Drained,
      ClosedWell, At, CloseQueue, AsyncTypeOK, UploadTypeOK
<1>5. CASE Shutdown \/ Stopped \/ StopForced \/ Closed
  <2>1. UNCHANGED sinkVars
    BY <1>5 DEF Shutdown, Stopped, StopForced, Closed
  <2> QED BY <2>1, DrainKept DEF Drained
<1>6. CASE UNCHANGED vars
  BY <1>6, DrainKept DEF Drained
<1> QED BY <1>1, <1>2, <1>3, <1>4, <1>5, <1>6, NextCases

----------------------------------------------------------------------------
(* The way of an accepted record.                                          *)

\* A step that accepts nothing keeps FlowInv if no record gets lost.
LEMMA FlowKept ==
    ASSUME TypeOK, FlowInv, UNCHANGED accepted,
           \A r \in Record : /\ r \in KafkaHas => r \in KafkaHas'
                             /\ r \in FileHas => r \in FileHas'
                             /\ r \in UploadHas => r \in UploadHas' \cup FileHas'
    PROVE  FlowInv'
<1>1. \A s \in Sink : accepted[s] \subseteq Record
  BY DEF TypeOK
<1> QED BY <1>1 DEF FlowInv

\* A step that leaves the queues, the workers and the destinations alone.
LEMMA FlowSame ==
    ASSUME TypeOK, FlowInv, UNCHANGED <<accepted, queue, hand, counted, content, published>>
    PROVE  FlowInv'
<1>1. KafkaHas' = KafkaHas /\ FileHas' = FileHas /\ UploadHas' = UploadHas
  BY DEF KafkaHas, FileHas, UploadHas, InFlight, Written
<1> QED BY <1>1, FlowKept

\* No step loses an accepted record.
LEMMA FlowStep == TypeOK /\ HoldingInv /\ FlowInv /\ [Next]_vars => FlowInv'
<1> SUFFICES ASSUME TypeOK, HoldingInv, FlowInv, [Next]_vars PROVE FlowInv'
  OBVIOUS
<1> USE DEF InFlight
<1>0. AsyncTypeOK /\ FileTypeOK /\ UploadTypeOK /\ None \notin Record
  BY DEF TypeOK, Record
<1>1. CASE SinkAction /\ UNCHANGED <<pipeVars, published>>
  <2>1. CASE \E s \in Sink : TakeNext(s)
    <3> PICK s \in Sink : TakeNext(s)
      BY <2>1
    <3>1. UNCHANGED <<counted, Written, published, accepted>>
      BY <1>1 DEF TakeNext, Take, Written
    <3>2. \A t \in Sink : \A r \in Record : r \in InFlight(t) => r \in InFlight(t)'
      <4>1. Take(s)
        BY DEF TakeNext
      <4>2. \A r \in Record : r \in InFlight(s) => r \in InFlight(s)'
        BY <4>1, <1>0, TakeTypes
      <4>3. \A t \in Sink : t # s => InFlight(t)' = InFlight(t)
        BY <4>1, <1>0, TakeTypes
      <4> QED BY <4>2, <4>3
    <3> HIDE DEF InFlight
    <3> QED BY <3>1, <3>2, FlowKept DEF KafkaHas, FileHas, UploadHas
  <2>2. CASE HandleMessage
    <3>1. /\ Written \subseteq Written' /\ hand["file"] \in Written' \cup counted'["file"]
          /\ hand'["upload"] = hand["upload"] /\ hand'["kafka"] = hand["kafka"]
          /\ \A t \in Sink : counted[t] \subseteq counted'[t]
          /\ UNCHANGED queue
      BY <2>2, <1>0, HandleMessageEffect DEF FilesGrow
    <3>2. UNCHANGED <<accepted, published>>
      BY <1>1
    <3>3. KafkaHas \subseteq KafkaHas' /\ UploadHas \subseteq UploadHas'
      BY <3>1, <3>2 DEF KafkaHas, UploadHas
    <3>4. FileHas \subseteq FileHas'
      BY <3>1 DEF FileHas
    <3> QED BY <3>2, <3>3, <3>4, FlowKept
  <2>3. CASE PassOn
    BY <1>1, <2>3, FlowSame DEF PassOn
  <2>4. CASE PassedOn
    <3>1. UNCHANGED <<accepted, published, Written>>
      BY <1>1, <2>4 DEF PassedOn, Written
    <3>2. /\ hand'["file"] = hand["file"] /\ hand'["kafka"] = hand["kafka"]
          /\ queue'["upload"] = queue["upload"] /\ queue'["kafka"] = queue["kafka"]
          /\ \A t \in Sink : counted[t] \subseteq counted'[t]
          /\ \/ UNCHANGED queue /\ hand["upload"] \in counted'["upload"]
             \/ Range(queue'["file"]) = Range(queue["file"]) \cup {hand["upload"]}
      BY <2>4, <1>0, PassedOnEffect
    <3>3. KafkaHas \subseteq KafkaHas'
      BY <3>1, <3>2 DEF KafkaHas
    <3>4. FileHas \subseteq FileHas'
      BY <3>1, <3>2 DEF FileHas
    <3>5. UploadHas \subseteq UploadHas' \cup FileHas'
      BY <3>1, <3>2 DEF UploadHas, FileHas
    <3> QED BY <3>1, <3>3, <3>4, <3>5, FlowKept
  <2>5. CASE TickStarts \/ TickLocks \/ TickerExits
    BY <1>1, <2>5, FlowSame DEF TickStarts, TickLocks, TickerExits
  <2>6. CASE TickEnds
    <3>1. Written \subseteq Written' /\ UNCHANGED <<accepted, published, asyncVars>>
      BY <1>1, <2>6, <1>0, TickEndsEffect DEF FilesGrow
    <3>2. /\ KafkaHas \subseteq KafkaHas' /\ UploadHas \subseteq UploadHas'
          /\ FileHas \subseteq FileHas'
      BY <3>1 DEF KafkaHas, UploadHas, FileHas
    <3> QED BY <3>1, <3>2, FlowKept
  <2>7. CASE Closing
    <3>1. UNCHANGED <<queue, hand, counted, content>>
      BY <2>7 DEF Closing, CloseUploadQueue, UploadQueueDrained, LastUpload, CloseFile,
          LastUploadEnds, UploadClosed, FileClosed, StopTicker, CloseFileQueue
    <3> QED BY <1>1, <3>1, FlowSame
  <2> QED BY <1>1, <2>1, <2>2, <2>3, <2>4, <2>5, <2>6, <2>7 DEF SinkAction
<1>2. ASSUME NEW r \in Record, Handler(r) PROVE FlowInv'
  <2>1. CASE \E s \in Sink : Accepted(r, s)
    <3> PICK s \in Sink : Accepted(r, s)
      BY <2>1
    <3>1. /\ queue'[s] = Append(queue[s], r)
          /\ \A t \in Sink : t # s => queue'[t] = queue[t]
      BY <1>0, EnqueueTypes DEF Accepted
    <3>2. Range(queue'[s]) = Range(queue[s]) \cup {r}
      BY <3>1, <1>0, RangeAppend DEF AsyncTypeOK
    <3>3. /\ accepted'[s] = accepted[s] \cup {r}
          /\ \A t \in Sink : t # s => accepted'[t] = accepted[t]
          /\ UNCHANGED <<hand, counted, published, Written>>
      BY DEF Accepted, TypeOK, Written
    <3>4. /\ \A t \in Sink : InFlight(t) \subseteq InFlight(t)'
          /\ r \in InFlight(s)'
      BY <3>1, <3>2, <3>3
    <3> HIDE DEF InFlight
    <3> QED BY <3>3, <3>4 DEF FlowInv, KafkaHas, FileHas, UploadHas
  <2>2. CASE Route(r) \/ RouteReturns(r) \/ \E s \in Sink : Refused(r, s) \/ Panics(r, s)
    <3>1. UNCHANGED <<sinkVars, accepted>>
      BY <2>2 DEF Route, RouteReturns, Refused, Panics
    <3> QED BY <3>1, FlowSame
  <2> QED BY <1>2, <2>1, <2>2 DEF Handler
<1>3. CASE Produce
  <2>1. /\ hand["kafka"] # None
        /\ \/ Handled("kafka", FALSE) /\ hand["kafka"] \in published'
           \/ Handled("kafka", TRUE)
        /\ published \subseteq published' /\ UNCHANGED <<queue, content, accepted>>
    BY <1>3 DEF Produce
  <2>2. /\ hand'["file"] = hand["file"] /\ hand'["upload"] = hand["upload"]
        /\ \A t \in Sink : counted[t] \subseteq counted'[t]
        /\ hand["kafka"] \in published' \cup counted'["kafka"]
    BY <2>1, <1>0, HandledTypes
  <2>3. Written' = Written
    BY <2>1 DEF Written
  <2>4. /\ KafkaHas \subseteq KafkaHas' /\ UploadHas \subseteq UploadHas'
        /\ FileHas \subseteq FileHas'
    BY <2>1, <2>2, <2>3 DEF KafkaHas, UploadHas, FileHas
  <2> QED BY <2>1, <2>4, FlowKept
<1>4. CASE KafkaClosing
  BY <1>4, FlowSame DEF KafkaClosing, CloseKafkaQueue, KafkaClosed
<1>5. CASE Shutdown \/ Stopped \/ StopForced \/ Closed
  BY <1>5, FlowSame DEF Shutdown, Stopped, StopForced, Closed
<1>6. CASE UNCHANGED vars
  BY <1>6, FlowSame
<1> QED BY <1>1, <1>2, <1>3, <1>4, <1>5, <1>6, NextCases

----------------------------------------------------------------------------
(* The objects.                                                            *)

\* The objects of the bucket are only continued, and none gets ahead of its file.
ObjectsContinue ==
    \A f \in 1 .. MaxFile :
        /\ Len(bucket[f]) <= Len(bucket'[f])
        /\ \A i \in 1 .. Len(bucket[f]) : bucket[f][i] = bucket'[f][i]

\* A step that does not upload: files that grow keep their objects' beginnings.
LEMMA NoPut ==
    ASSUME TypeOK, TypeOK', BucketInv, FilesGrow, UNCHANGED bucket
    PROVE  BucketInv' /\ ObjectsContinue
<1>1. ASSUME NEW f \in 1 .. MaxFile
      PROVE  /\ Len(bucket[f]) \in Nat /\ Len(content[f]) \in Nat
             /\ Len(content'[f]) \in Nat
  <2>1. /\ bucket[f] \in Seq(Record) /\ content[f] \in Seq(Record)
        /\ content'[f] \in Seq(Record)
    BY DEF TypeOK, FileTypeOK, UploadTypeOK
  <2> QED BY <2>1, LenProperties
<1>2. BucketInv'
  BY <1>1 DEF BucketInv, FilesGrow
<1> QED BY <1>1, <1>2 DEF ObjectsContinue

\* An upload sends the whole file, of which the object held the beginning.
LEMMA PutWhole ==
    ASSUME TypeOK, TypeOK', BucketInv, FilesGrow,
           bucket' = [bucket EXCEPT ![current] = content[current]]
    PROVE  BucketInv' /\ ObjectsContinue
<1>1. ASSUME NEW f \in 1 .. MaxFile
      PROVE  /\ Len(bucket[f]) \in Nat /\ Len(content[f]) \in Nat
             /\ Len(content'[f]) \in Nat
  <2>1. /\ bucket[f] \in Seq(Record) /\ content[f] \in Seq(Record)
        /\ content'[f] \in Seq(Record)
    BY DEF TypeOK, FileTypeOK, UploadTypeOK
  <2> QED BY <2>1, LenProperties
<1>2. \A f \in 1 .. MaxFile : bucket'[f] = IF f = current THEN content[f] ELSE bucket[f]
  BY DEF TypeOK, FileTypeOK, UploadTypeOK
<1>3. BucketInv'
  <2> SUFFICES ASSUME NEW f \in 1 .. MaxFile
               PROVE  /\ Len(bucket'[f]) <= Len(content'[f])
                      /\ \A i \in 1 .. Len(bucket'[f]) : bucket'[f][i] = content'[f][i]
    BY DEF BucketInv
  <2>1. /\ Len(content[f]) <= Len(content'[f])
        /\ \A i \in 1 .. Len(content[f]) : content'[f][i] = content[f][i]
    BY DEF FilesGrow
  <2>2. CASE f = current
    BY <1>2, <2>1, <2>2
  <2>3. CASE f # current
    <3>1. /\ bucket'[f] = bucket[f] /\ Len(bucket[f]) <= Len(content[f])
          /\ \A i \in 1 .. Len(bucket[f]) : bucket[f][i] = content[f][i]
      BY <1>2, <2>3 DEF BucketInv
    <3> QED BY <1>1, <2>1, <3>1
  <2> QED BY <2>2, <2>3
<1>4. ObjectsContinue
  BY <1>1, <1>2 DEF BucketInv, ObjectsContinue
<1> QED BY <1>3, <1>4

\* Uploads and rotations keep the objects the beginnings of their files.
LEMMA BucketStep ==
    TypeOK /\ TypeOK' /\ BucketInv /\ [Next]_vars => BucketInv' /\ ObjectsContinue
<1> SUFFICES ASSUME TypeOK, TypeOK', BucketInv, [Next]_vars
             PROVE  BucketInv' /\ ObjectsContinue
  OBVIOUS
<1>0. AsyncTypeOK /\ FileTypeOK /\ UploadTypeOK
  BY DEF TypeOK
<1>1. CASE UNCHANGED <<content, bucket>>
  BY <1>0, <1>1, SameGrows, NoPut
<1>2. CASE SinkAction
  <2>1. CASE HandleMessage
    BY <2>1, <1>0, HandleMessageEffect, NoPut
  <2>2. CASE TickEnds
    BY <2>2, <1>0, TickEndsEffect, NoPut, PutWhole
  <2>3. CASE Closing
    <3>1. CASE LastUploadEnds
      <4>1. /\ UNCHANGED content
            /\ bucket' = [bucket EXCEPT ![current] = content[current]] \/ UNCHANGED bucket
        BY <3>1 DEF LastUploadEnds, Put
      <4> QED BY <4>1, <1>0, SameGrows, NoPut, PutWhole
    <3>2. CASE ~LastUploadEnds
      <4>1. UNCHANGED <<content, bucket>>
        BY <2>3, <3>2 DEF Closing, CloseUploadQueue, UploadQueueDrained, LastUpload,
            CloseFile, UploadClosed, FileClosed, StopTicker, CloseFileQueue
      <4> QED BY <4>1, <1>1
    <3> QED BY <3>1, <3>2
  <2>4. CASE ~(HandleMessage \/ TickEnds \/ Closing)
    <3>1. UNCHANGED <<content, bucket>>
      BY <1>2, <2>4 DEF SinkAction, TakeNext, PassOn, PassedOn, TickStarts, TickLocks,
          TickerExits
    <3> QED BY <3>1, <1>1
  <2> QED BY <2>1, <2>2, <2>3, <2>4
<1>3. ASSUME NEW r \in Record, Handler(r) PROVE UNCHANGED <<content, bucket>>
  BY <1>3 DEF Handler, Route, RouteReturns, Accepted, Refused, Panics
<1>4. CASE Produce \/ KafkaClosing \/ Shutdown \/ Stopped \/ StopForced \/ Closed
  <2>1. UNCHANGED <<content, bucket>>
    BY <1>4 DEF Produce, KafkaClosing, CloseKafkaQueue, KafkaClosed, Shutdown, Stopped,
        StopForced, Closed
  <2> QED BY <2>1, <1>1
<1>5. CASE UNCHANGED vars
  BY <1>5, <1>1
<1> QED BY <1>1, <1>2, <1>3, <1>4, <1>5, NextCases

----------------------------------------------------------------------------
(* Theorems.                                                               *)

\* Nothing has arrived, and every queue is open and empty.
LEMMA InitInv == Init => Inv
<1> SUFFICES ASSUME Init PROVE Inv
  OBVIOUS
<1> USE DEF Init, AsyncInit, FileInit, UploadInit
<1>0. <<>> \in Seq(Record) /\ Len(<<>>) = 0 /\ QueueSize \in Nat /\ 1 \in 1 .. MaxFile
  OBVIOUS
<1>1. TypeOK
  <2>1. AsyncTypeOK
    BY <1>0 DEF AsyncTypeOK
  <2>2. FileTypeOK
    BY <1>0 DEF FileTypeOK
  <2>3. UploadTypeOK
    BY <1>0 DEF UploadTypeOK
  <2>4. routes \in SUBSET Sink
    <3> PICK c \in Scenario : routes = c.routes
      OBVIOUS
    <3> QED OBVIOUS
  <2>5. /\ phase \in [Record -> {"idle", "routing", "returned"}]
        /\ \A r \in Record : phase[r] # "routing"
    <3> PICK c \in Scenario :
            phase = [r \in Record |-> IF r <= c.records THEN "idle" ELSE "returned"]
      OBVIOUS
    <3> QED OBVIOUS
  <2> QED BY <2>1, <2>2, <2>3, <2>4, <2>5 DEF TypeOK
<1>2. ServerInv
  BY DEF ServerInv, PanicOnlyAfterForcedStop
<1>3. DrainInv /\ HoldingInv
  BY DEF DrainInv, HoldingInv, ClosedWell
<1>4. FlowInv
  BY DEF FlowInv
<1>5. BucketInv
  BY <1>0 DEF BucketInv
<1> QED BY <1>1, <1>2, <1>3, <1>4, <1>5 DEF Inv

\* The inductive invariant of the outputs: types, the order of shutdown, what Close
\* has drained and where every accepted record is.
THEOREM OutputsInvariant == Spec => []Inv
<1>1. Inv /\ [Next]_vars => Inv'
  BY TypeStep, ServerStep, DrainStep, HoldingStep, FlowStep, BucketStep DEF Inv
<1> QED BY InitInv, <1>1, PTL DEF Spec

\* Every variable of the outputs keeps its type; the channels keep their capacity.
THEOREM OutputTypes == Spec => []TypeOK
<1>1. Inv => TypeOK
  BY DEF Inv
<1> QED BY <1>1, OutputsInvariant, PTL

\* Only a stop that was forced lets a handler send on a closed channel.
THEOREM PanicSafety == Spec => []PanicOnlyAfterForcedStop
<1>1. Inv => PanicOnlyAfterForcedStop
  BY DEF Inv, ServerInv
<1> QED BY <1>1, OutputsInvariant, PTL

\* A Close that reports no error has handled all that its sink accepted.
THEOREM DrainSafety == Spec => []CloseDrains
<1>1. Inv => CloseDrains
  <2> SUFFICES ASSUME Inv PROVE CloseDrains
    OBVIOUS
  <2>1. \A s \in Sink : Drained(s) => InFlight(s) = {None}
    <3>1. Range(<<>>) = {}
      <4>1. <<>> \in Seq(Record)
        OBVIOUS
      <4>2. Range(<<>>) = {<<>>[i] : i \in 1 .. Len(<<>>)}
        BY <4>1, RangeEquality
      <4> QED BY <4>2
    <3> QED BY <3>1 DEF Drained, InFlight
  <2>2. \A s \in Sink : None \notin accepted[s]
    BY DEF Inv, TypeOK, Record
  <2>3. /\ ClosedWell("upload") => Drained("upload") /\ Drained("file")
        /\ ClosedWell("file") => Drained("file")
        /\ ClosedWell("kafka") => Drained("kafka")
    BY DEF Inv, DrainInv, ClosedWell
  <2> QED BY <2>1, <2>2, <2>3 DEF Inv, FlowInv, KafkaHas, FileHas, UploadHas, CloseDrains
<1> QED BY <1>1, OutputsInvariant, PTL

\* An object in the bucket is only replaced by one that continues it.
THEOREM ObjectSafety == Spec => ObjectsOnlyGrow
<1>1. Inv /\ Inv' /\ [Next]_vars => [ObjectsContinue]_vars
  BY BucketStep DEF Inv
<1>2. [][ObjectsContinue]_vars => ObjectsOnlyGrow
  BY PTL DEF ObjectsContinue, ObjectsOnlyGrow
<1> QED BY <1>1, <1>2, OutputsInvariant, PTL DEF Spec
=============================================================================
