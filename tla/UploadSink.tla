----------------------------- MODULE UploadSink -----------------------------
(***************************************************************************)
(* The object-store sinks (internal/sinks/s3.go and gcs.go, which differ   *)
(* in the client only).  The worker of the sink's own queue passes records *)
(* on to the queue of an embedded file sink; a ticker uploads the current  *)
(* file under its name and rotates it; Close stops the ticker, drains the  *)
(* queue, uploads the current file and closes the file sink.               *)
(*                                                                         *)
(* The mutex s.mu is held over whole uploads and over the wait for room in *)
(* the file queue, so it is a variable; an upload holds f.mu as well.      *)
(***************************************************************************)
EXTENDS FileSink

VARIABLES
    uploadMu,       \* who holds s.mu between steps
    ticker,         \* program counter of the ticker goroutine
    stopping,       \* closeChan is closed
    bucket,         \* external: the objects of the bucket, by file
    closer,         \* how far Close has come, by sink
    closeFailed     \* sinks whose Close returned an error

uploadVars == <<uploadMu, ticker, stopping, bucket>>

closeVars == <<closer, closeFailed>>

Stage == {"idle", "ticker", "queue", "locked", "putting", "file",
          "ended"}

UploadTypeOK ==
    /\ uploadMu \in {"free", "worker", "ticker", "closer"}
    /\ ticker \in {"idle", "locked", "putting", "exited"}
    /\ stopping \in BOOLEAN
    /\ bucket \in [1 .. MaxFile -> Seq(Record)]
    /\ closer \in [Sink -> Stage]
    /\ closeFailed \in SUBSET Sink

UploadInit ==
    /\ uploadMu = "free"
    /\ ticker = "idle"
    /\ stopping = FALSE
    /\ bucket = [f \in 1 .. MaxFile |-> <<>>]
    /\ closer = [s \in Sink |-> "idle"]
    /\ closeFailed = {}

At(s, stage) == closer' = [closer EXCEPT ![s] = stage]

----------------------------------------------------------------------------
(* The worker.                                                             *)

\* handleMessage takes s.mu ...
PassOn ==
    /\ hand["upload"] # None
    /\ uploadMu = "free"
    /\ uploadMu' = "worker"
    /\ UNCHANGED <<asyncVars, fileVars, ticker, stopping, bucket, closeVars>>

\* ... and enqueues the record with a background context: under the block policy
\* it waits with s.mu, under the drop policy a full queue is an error.
PassedOn ==
    /\ uploadMu = "worker"
    /\ \/ Enqueue("file", hand["upload"]) /\ Handled("upload", FALSE)
       \/ /\ policy = "drop" /\ Full("file")
          /\ Handled("upload", TRUE) /\ UNCHANGED queue
    /\ uploadMu' = "free"
    /\ UNCHANGED <<policy, closed, fileVars, ticker, stopping, bucket,
                   closeVars>>

----------------------------------------------------------------------------
(* uploadAndMaybeRotateLocked.                                             *)

\* The file can be read and is not empty.
Uploadable == fileOpen /\ content[current] # <<>>

\* Mutant of Put: the file is not rewound, so a second upload starts where the
\* first one ended.
PutFromOffset(ok) ==
    \/ bucket' = [bucket EXCEPT ![current] =
                    SubSeq(content[current], Len(@) + 1, Len(content[current]))]
    \/ ~ok /\ UNCHANGED bucket

\* The whole file is sent, whatever was sent of it before: the object is stored,
\* or the request fails before or after that.
Put(ok) ==
    \/ bucket' = [bucket EXCEPT ![current] = content[current]]
    \/ ~ok /\ UNCHANGED bucket

\* RotateAndUpload takes s.mu, ...
TickStarts ==
    /\ ticker = "idle"
    /\ uploadMu = "free"
    /\ uploadMu' = "ticker"
    /\ ticker' = "locked"
    /\ UNCHANGED <<asyncVars, fileVars, stopping, bucket, closeVars>>

\* ... then f.mu, and returns when there is nothing to upload.
TickLocks ==
    /\ ticker = "locked"
    /\ fileMu = "free"
    /\ IF Uploadable
       THEN /\ fileMu' = "ticker" /\ ticker' = "putting"
            /\ UNCHANGED uploadMu
       ELSE /\ uploadMu' = "free" /\ ticker' = "idle"
            /\ UNCHANGED fileMu
    /\ UNCHANGED <<asyncVars, content, current, fileOpen, stopping, bucket,
                   closeVars>>

\* Mutant of TickEnds: the error return leaves s.mu locked.
TickEndsLocked ==
    /\ ticker = "putting"
    /\ \/ /\ Put(TRUE) /\ (Rotated(<<>>) \/ RotationFails)
          /\ uploadMu' = "free"
       \/ /\ Put(FALSE) /\ UNCHANGED <<content, current, fileOpen>>
          /\ UNCHANGED uploadMu
    /\ ticker' = "idle"
    /\ fileMu' = "free"
    /\ UNCHANGED <<asyncVars, stopping, closeVars>>

\* A file that was uploaded is rotated; one that was not stays current.
TickEnds ==
    /\ ticker = "putting"
    /\ \/ Put(TRUE) /\ (Rotated(<<>>) \/ RotationFails)
       \/ Put(FALSE) /\ UNCHANGED <<content, current, fileOpen>>
    /\ ticker' = "idle"
    /\ uploadMu' = "free"
    /\ fileMu' = "free"
    /\ UNCHANGED <<asyncVars, stopping, closeVars>>

TickerExits ==
    /\ ticker = "idle"
    /\ stopping
    /\ ticker' = "exited"
    /\ UNCHANGED <<asyncVars, fileVars, uploadMu, stopping, bucket, closeVars>>

----------------------------------------------------------------------------
(* Close of the upload sink, and of a file sink.                           *)

\* close(closeChan), then wg.Wait for the ticker.
StopTicker ==
    /\ closer["upload"] = "idle"
    /\ stopping' = TRUE
    /\ At("upload", "ticker")
    /\ UNCHANGED <<asyncVars, fileVars, uploadMu, ticker, bucket, closeFailed>>

\* BaseAsyncSink.Close closes the queue ...
CloseUploadQueue ==
    /\ closer["upload"] = "ticker"
    /\ ticker = "exited"
    /\ CloseQueue("upload")
    /\ At("upload", "queue")
    /\ UNCHANGED <<policy, queue, hand, counted, fileVars, uploadVars,
                   closeFailed>>

\* ... and waits for the worker; then s.mu is taken.
UploadQueueDrained ==
    /\ closer["upload"] = "queue"
    /\ Drained("upload")
    /\ uploadMu = "free"
    /\ uploadMu' = "closer"
    /\ At("upload", "locked")
    /\ UNCHANGED <<asyncVars, fileVars, ticker, stopping, bucket, closeFailed>>

\* The current file is uploaded without a rotation.  An empty file is skipped; a
\* file that cannot be read ends Close with an error.
LastUpload ==
    /\ closer["upload"] = "locked"
    /\ fileMu = "free"
    /\ IF Uploadable
       THEN At("upload", "putting") /\ fileMu' = "closer"
            /\ UNCHANGED <<uploadMu, closeFailed, closed>>
       ELSE IF fileOpen
       THEN At("upload", "file") /\ CloseQueue("file")
            /\ UNCHANGED <<fileMu, uploadMu, closeFailed>>
       ELSE At("upload", "ended") /\ uploadMu' = "free"
            /\ closeFailed' = closeFailed \cup {"upload"}
            /\ UNCHANGED <<fileMu, closed>>
    /\ UNCHANGED <<policy, queue, hand, counted, content, current, fileOpen,
                   ticker, stopping, bucket>>

\* An upload that failed ends Close; the file sink is left as it is.
LastUploadEnds ==
    /\ closer["upload"] = "putting"
    /\ fileMu' = "free"
    /\ \/ /\ Put(TRUE)
          /\ At("upload", "file") /\ CloseQueue("file")
          /\ UNCHANGED <<uploadMu, closeFailed>>
       \/ /\ Put(FALSE)
          /\ At("upload", "ended")
          /\ uploadMu' = "free"
          /\ closeFailed' = closeFailed \cup {"upload"}
          /\ UNCHANGED closed
    /\ UNCHANGED <<policy, queue, hand, counted, content, current, fileOpen,
                   ticker, stopping>>

\* fileSink.Close returns.
UploadClosed ==
    /\ closer["upload"] = "file"
    /\ Drained("file")
    /\ \E failed \in BOOLEAN :
          /\ CloseFile(failed)
          /\ closeFailed' = IF failed THEN closeFailed \cup {"upload"}
                            ELSE closeFailed
    /\ At("upload", "ended")
    /\ uploadMu' = "free"
    /\ UNCHANGED <<asyncVars, ticker, stopping, bucket>>

\* Close of a file sink that is an output of its own.
CloseFileQueue ==
    /\ closer["file"] = "idle"
    /\ CloseQueue("file")
    /\ At("file", "queue")
    /\ UNCHANGED <<policy, queue, hand, counted, fileVars, uploadVars,
                   closeFailed>>

FileClosed ==
    /\ closer["file"] = "queue"
    /\ Drained("file")
    /\ \E failed \in BOOLEAN :
          /\ CloseFile(failed)
          /\ closeFailed' = IF failed THEN closeFailed \cup {"file"}
                            ELSE closeFailed
    /\ At("file", "ended")
    /\ UNCHANGED <<asyncVars, uploadVars>>
=============================================================================
