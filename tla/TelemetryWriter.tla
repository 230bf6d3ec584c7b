--------------------------- MODULE TelemetryWriter ---------------------------
(***************************************************************************)
(* The normalized telemetry writer (internal/telemetrywriter/writer.go):   *)
(* WriteEnvelope admits a record to a bounded queue, workers collect       *)
(* batches and write them to the backend with retries, and Close drains    *)
(* the queue or, at its deadline, cancels the workers.                     *)
(*                                                                         *)
(* Each member of Record is one WriteEnvelope call and the record it       *)
(* normalizes; place says where the record is, a worker's name when it is  *)
(* in that worker's batch.  Records are told apart by nothing else, so the *)
(* order inside the queue and inside a batch is left out.  Close is called *)
(* once: its callers hold Relay.closeOnce.                                 *)
(***************************************************************************)
EXTENDS Naturals, FiniteSets

CONSTANTS
    Record,         \* WriteEnvelope calls
    Worker,         \* config.Workers goroutines
    QueueCapacity,  \* config.QueueCapacity
    BatchSize,      \* config.BatchSize
    MaxRetries      \* config.MaxRetries

\* "offered" waits at the queue, "declined" was never admitted, "lost" was given up
\* after an unsuccessful write.
Outside == {"new", "offered", "queued", "declined", "stored", "lost"}

ASSUME WriterAssumption ==
    /\ Worker # {} /\ Worker \cap Outside = {}
    /\ QueueCapacity \in Nat \ {0} /\ BatchSize \in Nat \ {0}
    /\ MaxRetries \in Nat

VARIABLES
    place,      \* where each record is
    worker,     \* program counter of each worker
    attempt,    \* writeBatch's retry counter of each worker
    final,      \* the worker returns after the flush in progress
    backendErr, \* w.backendErr # nil
    closed,     \* w.closed, and the queue is closed
    cancelled,  \* w.workerCtx is done
    closer,     \* program counter of Close
    closeErr,   \* closeErr # nil in Close
    result      \* what Close returned

vars == <<place, worker, attempt, final, backendErr, closed, cancelled, closer,
          closeErr, result>>

WorkerPc == {"select", "writing", "backoff", "done"}
CloserPc == {"idle", "locking", "draining", "drained", "returned"}

\* What every variable ranges over.
TypeOK ==
    /\ place \in [Record -> Outside \cup Worker]
    /\ worker \in [Worker -> WorkerPc]
    /\ attempt \in [Worker -> 0 .. MaxRetries]
    /\ final \in [Worker -> BOOLEAN]
    /\ backendErr \in BOOLEAN
    /\ closed \in BOOLEAN
    /\ cancelled \in BOOLEAN
    /\ closer \in CloserPc
    /\ closeErr \in BOOLEAN
    /\ result \in {"none", "ok", "error"}

Init ==
    /\ place = [r \in Record |-> "new"]
    /\ worker = [w \in Worker |-> "select"]
    /\ attempt = [w \in Worker |-> 0]
    /\ final = [w \in Worker |-> FALSE]
    /\ backendErr = FALSE
    /\ closed = FALSE
    /\ cancelled = FALSE
    /\ closer = "idle"
    /\ closeErr = FALSE
    /\ result = "none"

Queue == {r \in Record : place[r] = "queued"}
Batch(w) == {r \in Record : place[r] = w}

----------------------------------------------------------------------------
(* WriteEnvelope.                                                          *)

\* An unsupported message, or one that cannot be normalized.
Skip(r) ==
    /\ place[r] = "new"
    /\ place' = [place EXCEPT ![r] = "declined"]
    /\ UNCHANGED <<worker, attempt, final, backendErr, closed, cancelled, closer,
                   closeErr, result>>

\* The call takes stateMu for reading, which a waiting Close prevents, and
\* either finds the writer closed or waits for the queue holding the lock.
Offer(r) ==
    /\ place[r] = "new"
    /\ closer # "locking"
    /\ place' = [place EXCEPT ![r] = IF closed THEN "declined" ELSE "offered"]
    /\ UNCHANGED <<worker, attempt, final, backendErr, closed, cancelled, closer,
                   closeErr, result>>

Enqueue(r) ==
    /\ place[r] = "offered"
    /\ Cardinality(Queue) < QueueCapacity
    /\ place' = [place EXCEPT ![r] = "queued"]
    /\ UNCHANGED <<worker, attempt, final, backendErr, closed, cancelled, closer,
                   closeErr, result>>

\* The enqueue timeout or the end of the caller's context.
Withdraw(r) ==
    /\ place[r] = "offered"
    /\ place' = [place EXCEPT ![r] = "declined"]
    /\ UNCHANGED <<worker, attempt, final, backendErr, closed, cancelled, closer,
                   closeErr, result>>

----------------------------------------------------------------------------
(* runWorker and writeBatch.                                               *)

\* flush: an empty batch needs no write.
Flush(w, last) ==
    /\ worker' = [worker EXCEPT ![w] = IF Batch(w) # {} THEN "writing"
                                       ELSE IF last THEN "done" ELSE "select"]
    /\ attempt' = [attempt EXCEPT ![w] = 0]
    /\ final' = [final EXCEPT ![w] = last]
    /\ UNCHANGED <<place, backendErr, closed, cancelled, closer, closeErr, result>>

\* The batch is full with one record more.
Fills(w) == Cardinality(Batch(w)) + 1 >= BatchSize

Take(w, r) ==
    /\ worker[w] = "select"
    /\ place[r] = "queued"
    /\ place' = [place EXCEPT ![r] = w]
    /\ worker' = [worker EXCEPT ![w] = IF Fills(w) THEN "writing" ELSE "select"]
    /\ attempt' = [attempt EXCEPT ![w] = 0]
    /\ UNCHANGED <<final, backendErr, closed, cancelled, closer, closeErr, result>>

\* Mutant of Tick: a batch that is not full is not written.
TickWhenFull(w) ==
    /\ worker[w] = "select"
    /\ Cardinality(Batch(w)) >= BatchSize
    /\ Flush(w, FALSE)

\* The flush interval is over.
Tick(w) ==
    /\ worker[w] = "select"
    /\ Batch(w) # {}
    /\ Flush(w, FALSE)

\* Mutant of QueueEnds: the worker flushes and waits on.
QueueEndsUnnoticed(w) ==
    /\ worker[w] = "select"
    /\ closed /\ Queue = {}
    /\ Flush(w, FALSE)

\* The queue is closed and empty.
QueueEnds(w) ==
    /\ worker[w] = "select"
    /\ closed /\ Queue = {}
    /\ Flush(w, TRUE)

\* The worker context is done, whatever is still queued.
SeeCancelled(w) ==
    /\ worker[w] = "select"
    /\ cancelled
    /\ Flush(w, TRUE)

\* The batch is settled and emptied; the worker goes on or returns.
SettleBatch(w, where) ==
    /\ place' = [r \in Record |-> IF place[r] = w THEN where ELSE place[r]]
    /\ worker' = [worker EXCEPT ![w] = IF final[w] THEN "done" ELSE "select"]

\* flush keeps a failure for Close; its mutant keeps the latest outcome.
LatestOutcome(failed) == failed
ErrAfter(failed) == backendErr \/ failed

WriteOk(w) ==
    /\ worker[w] = "writing"
    /\ SettleBatch(w, "stored")
    /\ backendErr' = ErrAfter(FALSE)
    /\ UNCHANGED <<attempt, final, closed, cancelled, closer, closeErr, result>>

Lose(w) ==
    /\ SettleBatch(w, "lost")
    /\ backendErr' = ErrAfter(TRUE)
    /\ UNCHANGED <<attempt, final, closed, cancelled, closer, closeErr, result>>

\* Another attempt may follow.
AttemptsLeft(w) == attempt[w] < MaxRetries

\* An attempt fails: wait for the next one, unless it was the last.
WriteFails(w) ==
    /\ worker[w] = "writing"
    /\ \/ /\ AttemptsLeft(w)
          /\ worker' = [worker EXCEPT ![w] = "backoff"]
          /\ UNCHANGED <<place, attempt, final, backendErr, closed, cancelled,
                         closer, closeErr, result>>
       \/ /\ ~AttemptsLeft(w)
          /\ Lose(w)

Retry(w) ==
    /\ worker[w] = "backoff"
    /\ worker' = [worker EXCEPT ![w] = "writing"]
    /\ attempt' = [attempt EXCEPT ![w] = @ + 1]
    /\ UNCHANGED <<place, final, backendErr, closed, cancelled, closer, closeErr,
                   result>>

\* The write timeout or the worker context ends the backoff.
GiveUp(w) ==
    /\ worker[w] = "backoff"
    /\ Lose(w)

----------------------------------------------------------------------------
(* Close.                                                                  *)

BeginClose ==
    /\ closer = "idle"
    /\ closer' = "locking"
    /\ UNCHANGED <<place, worker, attempt, final, backendErr, closed, cancelled,
                   closeErr, result>>

\* The write side of stateMu is free; its mutant does not wait for it.
AnyTime == TRUE
NobodyOffers == \A r \in Record : place[r] # "offered"

CloseQueue ==
    /\ closer = "locking"
    /\ NobodyOffers
    /\ closer' = "draining"
    /\ closed' = TRUE
    /\ UNCHANGED <<place, worker, attempt, final, backendErr, cancelled, closeErr,
                   result>>

\* The caller's context ends first: cancel the workers, then wait for them.
DrainDeadline ==
    /\ closer = "draining"
    /\ ~cancelled
    /\ cancelled' = TRUE
    /\ closeErr' = TRUE
    /\ UNCHANGED <<place, worker, attempt, final, backendErr, closed, closer, result>>

Drained ==
    /\ closer = "draining"
    /\ \A w \in Worker : worker[w] = "done"
    /\ closer' = "drained"
    /\ cancelled' = TRUE
    /\ UNCHANGED <<place, worker, attempt, final, backendErr, closed, closeErr, result>>

\* errors.Join of the drain error, the backend's Close and the write errors.
CloseBackend(failed) ==
    /\ closer = "drained"
    /\ closer' = "returned"
    /\ result' = IF closeErr \/ failed \/ backendErr THEN "error" ELSE "ok"
    /\ UNCHANGED <<place, worker, attempt, final, backendErr, closed, cancelled,
                   closeErr>>

----------------------------------------------------------------------------
WorkerStep(w) ==
    \/ \E r \in Record : Take(w, r)
    \/ Tick(w) \/ QueueEnds(w) \/ SeeCancelled(w) \/ WriteOk(w) \/ WriteFails(w)
    \/ Retry(w) \/ GiveUp(w)

CloserStep == CloseQueue \/ Drained \/ \E failed \in BOOLEAN : CloseBackend(failed)

Next ==
    \/ \E r \in Record : Skip(r) \/ Offer(r) \/ Enqueue(r) \/ Withdraw(r)
    \/ \E w \in Worker : WorkerStep(w)
    \/ BeginClose \/ DrainDeadline \/ CloserStep

Spec == Init /\ [][Next]_vars

(***************************************************************************)
(* Fairness.  Workers and Close run on; a backend write ends by the write  *)
(* timeout and a wait at the queue by the enqueue timeout.  Nothing makes  *)
(* anybody offer records or close the writer, or Close's caller give up.   *)
(***************************************************************************)
Fairness ==
    /\ \A w \in Worker : WF_vars(WorkerStep(w))
    /\ \A r \in Record : WF_vars(Enqueue(r) \/ Withdraw(r))
    /\ WF_vars(CloserStep)

FairSpec == Spec /\ Fairness

----------------------------------------------------------------------------
(* Properties.                                                             *)

\* Where the ledger of the writer's promise has a record.
LedgerEntry(r) ==
    CASE place[r] \in {"new", "offered"} -> "open"
      [] place[r] \in {"queued"} \cup Worker -> "admitted"
      [] OTHER -> place[r]

Ledger == INSTANCE RecordLedger
            WITH ledger <- [r \in Record |-> LedgerEntry(r)], outcome <- result

\* The writer keeps its promise: an admitted record is settled once, with its batch,
\* and Close returns no error only if every admitted record was stored, whatever
\* the workers, the retries and the drain deadline did.
KeepsLedger == Ledger!LedgerSpec

\* No call is waiting to send on the queue once it is closed: the send in
\* WriteEnvelope would panic.
NoSendOnClosedQueue == closed => \A r \in Record : place[r] # "offered"

\* An admitted record is settled although nobody offers more or closes the writer:
\* the flush interval writes a batch that does not fill.  Only a drain that is cut
\* short may leave it in the queue.
AdmittedIsSettled ==
    \A r \in Record :
        place[r] = "queued" ~> (place[r] \in {"stored", "lost"} \/ closeErr)

\* Close returns, with a deadline or without.
CloseEnds == closer = "locking" ~> closer = "returned"
=============================================================================
