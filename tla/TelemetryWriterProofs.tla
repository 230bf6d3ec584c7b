------------------------ MODULE TelemetryWriterProofs ------------------------
(***************************************************************************)
(* The telemetry writer implements RecordLedger, for any number of records *)
(* and workers and any configuration.  Close may report success because a  *)
(* worker that returned left no batch behind and, unless the drain was cut *)
(* short, saw the queue closed and empty (Returned); and because what was  *)
(* lost is remembered (LossRemembered).                                    *)
(***************************************************************************)
EXTENDS TelemetryWriter, TLAPS

\* Close's progress and what it has done so far agree.
Closing ==
    /\ closed <=> closer \in {"draining", "drained", "returned"}
    /\ cancelled => closeErr \/ closer \in {"drained", "returned"}
    /\ closer \in {"drained", "returned"} => \A w \in Worker : worker[w] = "done"
    /\ result # "none" <=> closer = "returned"

\* A worker that has returned left nothing it is responsible for, nor does one in
\* its last flush but for the batch it is writing.
Returned ==
    \A w \in Worker :
        /\ worker[w] = "done" => Batch(w) = {}
        /\ worker[w] = "done" \/ (final[w] /\ worker[w] # "select")
             => closeErr \/ (closed /\ Queue = {})
        /\ worker[w] = "select" => ~final[w]

LossRemembered == \A r \in Record : place[r] = "lost" => backendErr

\* A worker backs off only before an attempt that is left to it.
BackoffBounded == \A w \in Worker : worker[w] = "backoff" => AttemptsLeft(w)

WriterInductive ==
    /\ TypeOK
    /\ BackoffBounded
    /\ NoSendOnClosedQueue
    /\ Closing
    /\ Returned
    /\ LossRemembered

----------------------------------------------------------------------------
\* The writer starts with nothing admitted.
LEMMA WriterInit == Init => WriterInductive
<1> SUFFICES ASSUME Init PROVE WriterInductive
  OBVIOUS
<1>1. TypeOK
  <2>1. 0 \in 0 .. MaxRetries
    BY WriterAssumption
  <2> QED
    BY <2>1 DEF Init, TypeOK, Outside, WorkerPc, CloserPc
<1>2. BackoffBounded /\ NoSendOnClosedQueue /\ LossRemembered /\ Returned
  BY DEF Init, BackoffBounded, NoSendOnClosedQueue, LossRemembered, Returned
<1>3. Closing
  BY DEF Init, Closing
<1> QED
  BY <1>1, <1>2, <1>3 DEF WriterInductive

\* Every step keeps the types.
LEMMA WriterTypeStep == TypeOK /\ BackoffBounded /\ [Next]_vars => TypeOK'
<1> SUFFICES ASSUME TypeOK, BackoffBounded, [Next]_vars PROVE TypeOK'
  OBVIOUS
<1> USE DEF TypeOK, Outside, WorkerPc, CloserPc
<1>0. 0 \in 0 .. MaxRetries
  BY WriterAssumption
<1>1. ASSUME NEW r \in Record, Skip(r) \/ Offer(r) \/ Enqueue(r) \/ Withdraw(r)
      PROVE TypeOK'
  BY <1>1 DEF Skip, Offer, Enqueue, Withdraw
<1>2. ASSUME NEW w \in Worker, NEW r \in Record, Take(w, r) PROVE TypeOK'
  BY <1>0, <1>2 DEF Take
<1>3. ASSUME NEW w \in Worker, NEW last \in BOOLEAN, Flush(w, last)
      PROVE TypeOK'
  BY <1>0, <1>3, Zenon DEF Flush
<1>4. ASSUME NEW w \in Worker, NEW where \in {"stored", "lost"}, NEW failed \in BOOLEAN,
             SettleBatch(w, where), backendErr' = ErrAfter(failed),
             UNCHANGED <<attempt, final, closed, cancelled, closer, closeErr, result>>
      PROVE TypeOK'
  <2>1. place' \in [Record -> Outside \cup Worker]
    BY <1>4 DEF SettleBatch
  <2>2. worker' \in [Worker -> WorkerPc]
    BY <1>4 DEF SettleBatch
  <2>3. backendErr' \in BOOLEAN
    BY <1>4 DEF ErrAfter
  <2> QED
    BY <1>4, <2>1, <2>2, <2>3
<1>5. ASSUME NEW w \in Worker, WriteFails(w), AttemptsLeft(w) PROVE TypeOK'
  BY <1>5 DEF WriteFails
<1>6. ASSUME NEW w \in Worker, Retry(w) PROVE TypeOK'
  <2>1. attempt' \in [Worker -> 0 .. MaxRetries]
    BY <1>6, WriterAssumption DEF Retry, BackoffBounded, AttemptsLeft
  <2> QED
    BY <1>6, <2>1 DEF Retry
<1>7. CASE BeginClose \/ DrainDeadline \/ CloserStep
  BY <1>7 DEF BeginClose, DrainDeadline, CloserStep, CloseQueue, Drained, CloseBackend
<1>8. CASE UNCHANGED vars
  BY <1>8 DEF vars
<1>9. ASSUME NEW w \in Worker, WorkerStep(w) PROVE TypeOK'
  <2>1. CASE Tick(w) \/ QueueEnds(w) \/ SeeCancelled(w)
    BY <2>1, <1>3 DEF Tick, QueueEnds, SeeCancelled
  <2>2. CASE WriteOk(w)
    BY <2>2, <1>4 DEF WriteOk
  <2>3. CASE GiveUp(w) \/ (WriteFails(w) /\ ~AttemptsLeft(w))
    BY <2>3, <1>4 DEF GiveUp, WriteFails, Lose
  <2> QED
    BY <1>2, <1>5, <1>6, <1>9, <2>1, <2>2, <2>3 DEF WorkerStep
<1> QED
  BY <1>1, <1>7, <1>8, <1>9 DEF Next

\* Every step keeps the inductive invariant.
LEMMA WriterStep == WriterInductive /\ [Next]_vars => WriterInductive'
<1> SUFFICES ASSUME WriterInductive, [Next]_vars PROVE WriterInductive'
  OBVIOUS
<1>0. TypeOK'
  BY WriterTypeStep DEF WriterInductive
<1> DEFINE Rest == BackoffBounded /\ NoSendOnClosedQueue /\ Closing /\ Returned
                   /\ LossRemembered
<1> USE DEF WriterInductive, TypeOK, Outside, BackoffBounded, AttemptsLeft,
            NoSendOnClosedQueue, Closing, Returned, LossRemembered, Queue, Batch
<1>1. ASSUME NEW r \in Record, Skip(r) \/ Offer(r) \/ Enqueue(r) \/ Withdraw(r)
      PROVE Rest'
  BY <1>1, WriterAssumption DEF Skip, Offer, Enqueue, Withdraw
<1>2. ASSUME NEW w \in Worker, NEW r \in Record, Take(w, r) PROVE Rest'
  BY <1>2, WriterAssumption DEF Take
<1>3. ASSUME NEW w \in Worker, NEW last \in BOOLEAN, Flush(w, last),
             worker[w] = "select", last => cancelled \/ (closed /\ Queue = {})
      PROVE Rest'
  BY <1>3, WriterAssumption DEF Flush
<1>4. ASSUME NEW w \in Worker, NEW where \in {"stored", "lost"},
             worker[w] \in {"writing", "backoff"},
             SettleBatch(w, where), backendErr' = ErrAfter(where = "lost"),
             UNCHANGED <<attempt, final, closed, cancelled, closer, closeErr, result>>
      PROVE Rest'
  BY <1>4, WriterAssumption DEF SettleBatch, ErrAfter
<1>5. ASSUME NEW w \in Worker, WriteFails(w), AttemptsLeft(w) PROVE Rest'
  BY <1>5 DEF WriteFails
<1>6. ASSUME NEW w \in Worker, Retry(w) PROVE Rest'
  BY <1>6 DEF Retry
<1>7. ASSUME BeginClose \/ DrainDeadline \/ CloserStep PROVE Rest'
  BY <1>7 DEF BeginClose, DrainDeadline, CloserStep, CloseQueue, NobodyOffers, Drained,
              CloseBackend
<1>8. ASSUME UNCHANGED vars PROVE Rest'
  BY <1>8 DEF vars
<1>9. ASSUME NEW w \in Worker, WorkerStep(w) PROVE Rest'
  <2>1. CASE Tick(w) \/ QueueEnds(w) \/ SeeCancelled(w)
    BY <2>1, <1>3 DEF Tick, QueueEnds, SeeCancelled
  <2>2. CASE WriteOk(w)
    BY <2>2, <1>4 DEF WriteOk, ErrAfter
  <2>3. CASE GiveUp(w) \/ (WriteFails(w) /\ ~AttemptsLeft(w))
    BY <2>3, <1>4 DEF GiveUp, WriteFails, Lose, ErrAfter
  <2> HIDE DEF Rest
  <2> QED
    BY <1>2, <1>5, <1>6, <1>9, <2>1, <2>2, <2>3 DEF WorkerStep
<1>10. Rest'
  <2> HIDE DEF Rest
  <2> QED
    BY <1>1, <1>7, <1>8, <1>9 DEF Next
<1> QED
  BY <1>0, <1>10

\* The inductive invariant of the writer.
THEOREM WriterInvariant == Spec => []WriterInductive
  BY WriterInit, WriterStep, PTL DEF Spec

\* Every variable of the writer keeps its type; the retry counter of a worker stays
\* within MaxRetries.
THEOREM WriterTypes == Spec => []TypeOK
<1>1. WriterInductive => TypeOK
  BY DEF WriterInductive
<1> QED
  BY <1>1, WriterInvariant, PTL

\* WriteEnvelope never sends on the closed queue (stateMu).
THEOREM SendSafety == Spec => []NoSendOnClosedQueue
<1>1. WriterInductive => NoSendOnClosedQueue
  BY DEF WriterInductive
<1> QED
  BY <1>1, WriterInvariant, PTL

----------------------------------------------------------------------------
(* The refinement.                                                         *)

\* A step that keeps Close's result and every record's entry is a stutter.
LEMMA LedgerStutter ==
  ASSUME result' = result, \A r \in Record : LedgerEntry(r)' = LedgerEntry(r)
  PROVE  UNCHANGED Ledger!ledgerVars
  BY DEF Ledger!ledgerVars

\* One record changes its entry.
LEMMA LedgerMove ==
  ASSUME NEW records \in SUBSET Record, NEW from, NEW to, result' = result,
         \A r \in records : LedgerEntry(r) = from /\ LedgerEntry(r)' = to,
         \A r \in Record \ records : LedgerEntry(r)' = LedgerEntry(r)
  PROVE  Ledger!Moved(records, from, to)
  BY DEF Ledger!Moved

\* Every step of the writer is a step of the ledger or leaves it alone.
LEMMA LedgerStep ==
  WriterInductive /\ [Next]_vars => [Ledger!LedgerNext]_(Ledger!ledgerVars)
<1> SUFFICES ASSUME WriterInductive, [Next]_vars
             PROVE  Ledger!LedgerNext \/ UNCHANGED Ledger!ledgerVars
  OBVIOUS
<1> DEFINE Goal == Ledger!LedgerNext \/ UNCHANGED Ledger!ledgerVars
<1> USE WriterAssumption DEF WriterInductive, TypeOK, Outside
<1>1. ASSUME NEW r \in Record, Skip(r) \/ Withdraw(r) PROVE Goal
  <2>1. Ledger!Moved({r}, "open", "declined")
    BY <1>1, LedgerMove DEF Skip, Withdraw, LedgerEntry
  <2> QED
    BY <2>1 DEF Ledger!LedgerNext, Ledger!Decline
<1>2. ASSUME NEW r \in Record, Offer(r) PROVE Goal
  <2>1. CASE closed
    <3>1. Ledger!Moved({r}, "open", "declined")
      BY <1>2, <2>1, LedgerMove DEF Offer, LedgerEntry
    <3> QED
      BY <3>1 DEF Ledger!LedgerNext, Ledger!Decline
  <2>2. CASE ~closed
    BY <1>2, <2>2, LedgerStutter DEF Offer, LedgerEntry
  <2> QED
    BY <2>1, <2>2
<1>3. ASSUME NEW r \in Record, Enqueue(r) PROVE Goal
  <2>1. Ledger!Moved({r}, "open", "admitted")
    BY <1>3, LedgerMove DEF Enqueue, LedgerEntry
  <2>2. result = "none"
    BY <1>3 DEF Enqueue, NoSendOnClosedQueue, Closing
  <2> QED
    BY <2>1, <2>2 DEF Ledger!LedgerNext, Ledger!Admit
<1>4. ASSUME NEW w \in Worker, NEW r \in Record, Take(w, r) PROVE Goal
  BY <1>4, LedgerStutter DEF Take, LedgerEntry
<1>5. ASSUME NEW w \in Worker, NEW last, Flush(w, last) PROVE Goal
  BY <1>5, LedgerStutter DEF Flush, LedgerEntry
<1>6. ASSUME NEW w \in Worker, NEW where \in {"stored", "lost"},
             worker[w] \in {"writing", "backoff"}, SettleBatch(w, where),
             result' = result
      PROVE  Goal
  <2>1. Ledger!Moved(Batch(w), "admitted", where)
    <3>1. Batch(w) \in SUBSET Record
      BY DEF Batch
    <3>2. \A r \in Batch(w) : LedgerEntry(r) = "admitted" /\ LedgerEntry(r)' = where
      BY <1>6 DEF Batch, SettleBatch, LedgerEntry
    <3>3. \A r \in Record \ Batch(w) : LedgerEntry(r)' = LedgerEntry(r)
      BY <1>6 DEF Batch, SettleBatch, LedgerEntry
    <3> QED
      BY <1>6, <3>1, <3>2, <3>3, LedgerMove
  <2>2. result = "none"
    BY <1>6 DEF Closing
  <2>3. Ledger!Settle(Batch(w))
    BY <1>6, <2>1, <2>2 DEF Ledger!Settle
  <2>4. Batch(w) \in SUBSET Record
    BY DEF Batch
  <2> QED
    BY <2>3, <2>4 DEF Ledger!LedgerNext
<1>7. ASSUME NEW failed \in BOOLEAN, CloseBackend(failed) PROVE Goal
  <2>1. result = "none" /\ result' \in {"ok", "error"}
    BY <1>7 DEF CloseBackend, Closing
  <2>2. ASSUME result' = "ok", NEW r \in Record
        PROVE  LedgerEntry(r) \notin {"admitted", "lost"}
    <3>1. ~closeErr /\ ~backendErr
      BY <1>7, <2>2 DEF CloseBackend
    <3>2. \A w \in Worker : Batch(w) = {} /\ Queue = {}
      BY <1>7, <3>1 DEF CloseBackend, Closing, Returned
    <3>3. place[r] \notin {"queued", "lost"} \cup Worker
      BY <3>1, <3>2 DEF LossRemembered, Batch, Queue
    <3> QED
      BY <3>3 DEF LedgerEntry
  <2>3. Ledger!CloseReturns(result')
    BY <1>7, <2>1, <2>2 DEF CloseBackend, Ledger!CloseReturns, LedgerEntry
  <2> QED
    BY <2>1, <2>3 DEF Ledger!LedgerNext
<1>8. ASSUME UNCHANGED <<place, result>> PROVE Goal
  BY <1>8, LedgerStutter DEF LedgerEntry
<1>9. ASSUME NEW w \in Worker, WorkerStep(w) PROVE Goal
  <2>1. CASE \E r \in Record : Take(w, r)
    BY <2>1, <1>4
  <2>2. CASE Tick(w) \/ QueueEnds(w) \/ SeeCancelled(w)
    BY <2>2, <1>5 DEF Tick, QueueEnds, SeeCancelled
  <2>3. CASE WriteOk(w)
    BY <2>3, <1>6 DEF WriteOk
  <2>4. CASE GiveUp(w) \/ (WriteFails(w) /\ ~AttemptsLeft(w))
    BY <2>4, <1>6 DEF GiveUp, WriteFails, Lose
  <2>5. CASE Retry(w) \/ (WriteFails(w) /\ AttemptsLeft(w))
    BY <2>5, <1>8 DEF Retry, WriteFails
  <2> HIDE DEF Goal
  <2> QED
    BY <1>9, <2>1, <2>2, <2>3, <2>4, <2>5 DEF WorkerStep
<1>10. ASSUME BeginClose \/ DrainDeadline \/ CloseQueue \/ Drained \/ UNCHANGED vars
       PROVE  Goal
  BY <1>8, <1>10 DEF BeginClose, DrainDeadline, CloseQueue, Drained, vars
<1> HIDE DEF Goal
<1>11. Goal
  BY <1>1, <1>2, <1>3, <1>7, <1>9, <1>10 DEF Next, CloserStep
<1> QED
  BY <1>11 DEF Goal

\* The writer implements its promise: Close reports success only when every admitted
\* record was stored.
THEOREM WriterKeepsLedger == Spec => KeepsLedger
<1>1. Init => Ledger!LedgerInit
  <2> SUFFICES ASSUME Init PROVE Ledger!LedgerInit
    OBVIOUS
  <2>1. \A r \in Record : LedgerEntry(r) = "open"
    BY WriterAssumption DEF Init, LedgerEntry, Outside
  <2>2. result = "none"
    BY DEF Init
  <2> QED
    BY <2>1, <2>2 DEF Ledger!LedgerInit
<1> QED
  BY <1>1, LedgerStep, WriterInvariant, PTL DEF Spec, KeepsLedger, Ledger!LedgerSpec
=============================================================================
