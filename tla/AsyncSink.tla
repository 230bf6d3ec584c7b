------------------------------ MODULE AsyncSink ------------------------------
(***************************************************************************)
(* BaseAsyncSink (internal/sinks/base.go): a bounded channel, a worker and *)
(* a backpressure policy, which the file, upload (S3 and GCS) and Kafka    *)
(* sinks embed.  A record stands for a telemetry envelope; records are     *)
(* numbered in the order in which the stream handlers read them.           *)
(***************************************************************************)
EXTENDS Naturals, Sequences, Functions

CONSTANTS
    MaxRecord,      \* bound: envelopes
    QueueSize       \* capacity of the channels

ASSUME RecordAssumption == MaxRecord \in Nat
ASSUME QueueAssumption == QueueSize \in Nat \ {0}

Record == 1 .. MaxRecord

\* No record.
None == 0

\* The upload sink keeps its records in a file sink of its own.
Sink == {"upload", "kafka", "file"}

VARIABLES
    policy,         \* "block" or "drop", the same for every queue
    queue,          \* the channel of each sink
    closed,         \* sinks whose channel is closed
    hand,           \* the record the worker of the sink is handling
    counted         \* records whose worker returned an error, by sink

asyncVars == <<policy, queue, closed, hand, counted>>

AsyncTypeOK ==
    /\ policy \in {"block", "drop"}
    /\ queue \in [Sink -> Seq(Record)]
    /\ \A s \in Sink : Len(queue[s]) <= QueueSize
    /\ closed \in SUBSET Sink
    /\ hand \in [Sink -> Record \cup {None}]
    /\ counted \in [Sink -> SUBSET Record]

AsyncInit ==
    /\ policy \in {"block", "drop"}
    /\ queue = [s \in Sink |-> <<>>]
    /\ closed = {}
    /\ hand = [s \in Sink |-> None]
    /\ counted = [s \in Sink |-> {}]

\* The channel has no room.
Full(s) == Len(queue[s]) >= QueueSize

\* The send of EnqueueContext goes through.
Enqueue(s, r) ==
    /\ s \notin closed
    /\ ~Full(s)
    /\ queue' = [queue EXCEPT ![s] = Append(@, r)]

\* Mutant of Take: the worker returns with the first error.
TakeUntilError(s) ==
    /\ counted[s] = {}
    /\ hand[s] = None
    /\ queue[s] # <<>>
    /\ hand' = [hand EXCEPT ![s] = Head(queue[s])]
    /\ queue' = [queue EXCEPT ![s] = Tail(@)]
    /\ UNCHANGED <<policy, closed, counted>>

\* The worker goroutine receives the next record.
Take(s) ==
    /\ hand[s] = None
    /\ queue[s] # <<>>
    /\ hand' = [hand EXCEPT ![s] = Head(queue[s])]
    /\ queue' = [queue EXCEPT ![s] = Tail(@)]
    /\ UNCHANGED <<policy, closed, counted>>

\* The worker is done with its record, and counts an error.
Handled(s, failed) ==
    /\ hand' = [hand EXCEPT ![s] = None]
    /\ counted' = [counted EXCEPT ![s] = IF failed THEN @ \cup {hand[s]} ELSE @]

\* Close, first half: close(b.queue).
CloseQueue(s) == closed' = closed \cup {s}

\* Mutant of Drained: Close does not wait for the worker.
DrainedEarly(s) == TRUE

\* Close, second half: wg.Wait returns.
Drained(s) == queue[s] = <<>> /\ hand[s] = None
=============================================================================
