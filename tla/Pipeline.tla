----------------------------- MODULE Pipeline -----------------------------
(***************************************************************************)
(* internal/pipeline/pipeline.go: Run starts the CSV reader under the      *)
(* pipeline's context, builds the worker pool on the reader's channel and  *)
(* three handlers: handleResults, handleReaderErrors, handleWorkerErrors.  *)
(* The pool has a context of its own, which only Pipeline.Stop cancels.    *)
(*                                                                         *)
(* The reader, the pool and the collector are the modules CSVReader,       *)
(* WorkerPool and Collector; their actions are steps here, and the reader's*)
(* recordCh is the pool's inputCh.  Results and errors are consumed by the *)
(* handlers below instead of the environments of those modules.            *)
(*                                                                         *)
(* Left out: the progress display (ShowProgress is false), printing, a     *)
(* signal that arrives before Run has installed its handler.               *)
(***************************************************************************)
EXTENDS Naturals, Sequences, FiniteSets

CONSTANTS
    Files, Contents, RowKinds, Malformed, InvalidHeaders, NoHeader,
    HasHeader, ValidateHeader,
    Workers, Outcomes, NoJob,
    MaxRows,            \* no file has more rows
    BufferSize,         \* Config.BufferSize, 0 for the defaults
    ErrCap,             \* ErrorBufferSize: 10 in the code
    MaxErrors, ThresholdNum, ThresholdDen,
    AbortOnError,       \* Config.AbortOnError
    WriteOutput,        \* an OutputWriter is configured
    Interrupts          \* what may interrupt a run: "signal", "stop"

ASSUME PipelineAssumption ==
    /\ IsFiniteSet(Files) /\ Files # {} /\ IsFiniteSet(Workers) /\ Workers # {}
    /\ {BufferSize, MaxErrors, ThresholdNum, MaxRows} \subseteq Nat
    /\ {ErrCap, ThresholdDen} \subseteq Nat \ {0} /\ ThresholdNum <= ThresholdDen
    /\ {HasHeader, ValidateHeader, AbortOnError, WriteOutput} \subseteq BOOLEAN
    /\ Interrupts \subseteq {"signal", "stop"}

\* What the files may hold, as the reader takes it.
ASSUME ContentsAssumption ==
    /\ Contents \subseteq [open : {"ok", "missing", "unreadable", "empty"}, rows : Seq(RowKinds)]
    /\ \A c \in Contents : Len(c.rows) <= MaxRows
    /\ Malformed \in RowKinds /\ NoHeader \notin RowKinds
    /\ InvalidHeaders \subseteq RowKinds \ {Malformed}

VARIABLES
    content, rpc, line, rerr, commonHeader, recordCh, recordClosed,
    errCh, errClosed, rcloser, sent,                            \* CSVReader
    outputCh, outputClosed, errorCh, errorClosed, started, poolCtx,
    wpc, held, closer, stopPc, dropped,                         \* WorkerPool
    errs, totalProcessed, colCtx,                               \* Collector
    ctxDone,        \* Pipeline.ctx is cancelled
    runPc,          \* where Run is
    hr, cur,        \* handleResults, and the result it has in hand
    rh, wh,         \* handleReaderErrors, handleWorkerErrors
    summary,        \* Pipeline.summary
    written,        \* records written to OutputWriter
    handled,        \* the results handleResults has received
    workerErrs,     \* how many errors handleWorkerErrors has received
    caller,         \* a caller of Stop
    runErr          \* Run returned an error

readerOwn == <<content, rpc, line, rerr, commonHeader, recordClosed, errClosed,
               rcloser, sent>>
poolOwn == <<outputClosed, errorClosed, started, poolCtx, wpc, held, closer,
             stopPc, dropped>>
collectorVars == <<errs, totalProcessed, colCtx>>
handlerVars == <<hr, cur, rh, wh, summary, written, handled, workerErrs>>
runVars == <<runPc, caller, runErr>>
channels == <<recordCh, errCh, outputCh, errorCh>>
vars == <<readerOwn, poolOwn, collectorVars, handlerVars, runVars, channels, ctxDone>>

\* The defaults of NewCSVReader and NewPool.
RecordCap == IF BufferSize = 0 THEN 100 ELSE BufferSize
OutCap == IF BufferSize = 0 THEN 2 * Cardinality(Workers) ELSE BufferSize

FirstLine == IF HasHeader THEN 2 ELSE 1
AllRecords == Files \X (1 .. MaxRows)

\* What the components' histories are in terms of the pipeline's state.
Supplied == UNION {{f} \X (FirstLine .. FirstLine + sent[f] - 1) : f \in Files}
Handled == {job.rec : job \in handled}
Taken == [f \in Files |-> sent[f] - Cardinality({i \in DOMAIN recordCh : recordCh[i][1] = f})]
Reported == {[file |-> f, kind |-> rerr[f]] : f \in
                {g \in Files : rpc[g] = "done" /\ rerr[g] # "nil"}}
            \ {errCh[i] : i \in 1 .. Len(errCh)}

Reader == INSTANCE CSVReader WITH taken <- Taken, reported <- Reported

Pool == INSTANCE WorkerPool WITH
            Records <- AllRecords, InCap <- RecordCap, EarlyStop <- TRUE,
            inputCh <- recordCh, inputClosed <- recordClosed,
            supplied <- Supplied, received <- Handled

Col == INSTANCE Collector WITH
            Errors <- {"ProcessingError", "ErrInvalidRecord", "other"},
            AbortOnThreshold <- AbortOnError

\* What the processor may answer, as the pool takes it.
ASSUME OutcomesAssumption ==
    Outcomes \subseteq Pool!AllOutcomes /\ Outcomes # {} /\ NoJob \notin Pool!Job

NoResult == NoJob
Failures == {"failed", "failedNoErr", "error"}
\* The errors in failed results: the default processor's own, and the one a
\* processor returned, which also goes through errorCh.
ErrorOf == [failed |-> "ErrInvalidRecord", error |-> "other"]
StatusOf(job) == CASE job.outcome \in Failures -> "failed"
                   [] job.outcome = "success"  -> "success"
                   [] job.outcome = "skipped"  -> "skipped"

----------------------------------------------------------------------------
TypeOK ==
    /\ Reader!TypeOK /\ Pool!TypeOK /\ Col!TypeOK
    /\ ctxDone \in BOOLEAN /\ runErr \in BOOLEAN
    /\ runPc \in {"init", "armed", "reading", "stored", "starting", "waiting", "returned"}
    /\ hr \in {"none", "recv", "collect", "count", "check", "done"}
    /\ cur \in Pool!Job \cup {NoResult}
    /\ rh \in {"none", "recv", "done"} /\ wh \in {"none", "recv", "add", "done"}
    /\ summary \in [{"success", "failed", "skipped"} -> Nat]
    /\ written \subseteq AllRecords /\ handled \subseteq Pool!Job
    /\ workerErrs \in Nat
    /\ caller \in {"idle", "cancelled", "stopping", "returned"}

Init ==
    /\ content \in [Files -> Contents]
    /\ rpc = [f \in Files |-> "none"] /\ line = [f \in Files |-> 0]
    /\ rerr = [f \in Files |-> "nil"] /\ sent = [f \in Files |-> 0]
    /\ commonHeader = NoHeader
    /\ recordCh = <<>> /\ recordClosed = FALSE /\ errCh = <<>> /\ errClosed = FALSE
    /\ rcloser = "none" /\ ctxDone = FALSE
    /\ Pool!PoolInit
    /\ Col!Init
    /\ runPc = "init" /\ runErr = FALSE /\ caller = "idle"
    /\ hr = "none" /\ rh = "none" /\ wh = "none" /\ cur = NoResult
    /\ summary = [s \in {"success", "failed", "skipped"} |-> 0]
    /\ written = {} /\ handled = {} /\ workerErrs = 0

----------------------------------------------------------------------------
(* Run, in program order.                                                  *)

RunTo(from, to) ==
    /\ runPc = from /\ runPc' = to
    /\ UNCHANGED <<collectorVars, cur, summary, written, handled, workerErrs, caller,
                   runErr, ctxDone>>

SetupSignalHandling ==
    RunTo("init", "armed") /\ UNCHANGED <<readerOwn, poolOwn, channels, hr, rh, wh>>

StartReading ==
    /\ RunTo("armed", "reading")
    /\ Reader!Read
    /\ UNCHANGED <<poolOwn, hr, rh, wh, outputCh, errorCh>>

\* NewPool and the assignment to p.workerPool under poolMu.
StorePool ==
    RunTo("reading", "stored") /\ UNCHANGED <<readerOwn, poolOwn, channels, hr, rh, wh>>

StartPool ==
    /\ RunTo("stored", "starting")
    /\ Pool!BeginStart
    /\ UNCHANGED <<readerOwn, errCh, hr, rh, wh>>

StartHandlers ==
    /\ RunTo("starting", "waiting")
    /\ started = "yes"
    /\ hr' = "recv" /\ rh' = "recv" /\ wh' = "recv"
    /\ UNCHANGED <<readerOwn, poolOwn, channels>>

\* finalize and the decision on the error that Run returns.
ReturnAfter(handlersDone) ==
    /\ runPc = "waiting" /\ runPc' = "returned"
    /\ handlersDone
    /\ runErr' = (AbortOnError /\ errs # <<>> /\ Col!ThresholdExceeded)
    /\ UNCHANGED <<readerOwn, poolOwn, collectorVars, handlerVars, caller, channels, ctxDone>>

\* A slip: Run waits for the results only.
FinishEarly == ReturnAfter(hr = "done")

Finish == ReturnAfter(hr = "done" /\ rh = "done" /\ wh = "done")

RunStep == SetupSignalHandling \/ StartReading \/ StorePool \/ StartPool
           \/ StartHandlers \/ Finish

----------------------------------------------------------------------------
(* handleResults.                                                          *)

ResultsTo(from, to) ==
    /\ hr = from /\ hr' = to
    /\ UNCHANGED <<readerOwn, poolOwn, recordCh, errCh, errorCh, rh, wh, workerErrs, runVars>>

AddResult(result) == summary' = [summary EXCEPT ![StatusOf(result)] = @ + 1]

\* A result is received and counted in the summary.
HandleResult ==
    /\ outputCh # <<>>
    /\ outputCh' = Tail(outputCh)
    /\ cur' = Head(outputCh)
    /\ ResultsTo("recv", IF cur'.outcome \in DOMAIN ErrorOf THEN "collect" ELSE "count")
    /\ handled' = handled \cup {cur'}
    /\ AddResult(cur')
    /\ UNCHANGED <<ctxDone, collectorVars, written>>

ResultsClosed ==
    /\ ResultsTo("recv", "done")
    /\ outputCh = <<>> /\ outputClosed
    /\ UNCHANGED <<outputCh, ctxDone, collectorVars, cur, handled, summary, written>>

CollectError ==
    /\ ResultsTo("collect", "count")
    /\ Col!Add(ErrorOf[cur.outcome])
    /\ UNCHANGED <<outputCh, ctxDone, cur, handled, summary, written>>

CountProcessed ==
    /\ ResultsTo("count", "check")
    /\ Col!IncrementProcessed
    /\ UNCHANGED <<outputCh, ctxDone, cur, handled, summary, written>>

\* The collector asked to abort: cancel the reader and stop receiving.  The
\* result in hand is not written.
AbortRun ==
    /\ ResultsTo("check", "done")
    /\ colCtx
    /\ ctxDone' = TRUE
    /\ UNCHANGED <<outputCh, collectorVars, cur, handled, summary, written>>

WriteIf(fits) ==
    /\ ResultsTo("check", "recv")
    /\ ~colCtx
    /\ written' = IF WriteOutput /\ fits THEN written \cup {cur.rec} ELSE written
    /\ cur' = NoResult
    /\ UNCHANGED <<outputCh, ctxDone, collectorVars, handled, summary>>

\* A slip: failed results are written as well.
WriteResultAlways == WriteIf(TRUE)

WriteResult == WriteIf(StatusOf(cur) = "success")

ResultsStep == HandleResult \/ ResultsClosed \/ CollectError \/ CountProcessed
               \/ AbortRun \/ WriteResult

----------------------------------------------------------------------------
(* handleReaderErrors and handleWorkerErrors.                              *)

InErrorHandler ==
    UNCHANGED <<readerOwn, poolOwn, recordCh, outputCh, hr, cur, summary, written, handled,
                runVars, ctxDone>>

\* Receiving frees a slot of errCh that no sender ever lacks, so it is one
\* step with the Add that follows.
HandleReaderError ==
    /\ InErrorHandler
    /\ rh = "recv" /\ errCh # <<>>
    /\ errCh' = Tail(errCh)
    /\ Col!Add("ProcessingError")
    /\ UNCHANGED <<errorCh, rh, wh, workerErrs>>

ReaderErrorsClosed ==
    /\ InErrorHandler
    /\ rh = "recv" /\ rh' = "done"
    /\ errCh = <<>> /\ errClosed
    /\ UNCHANGED <<collectorVars, errCh, errorCh, wh, workerErrs>>

HandleWorkerError ==
    /\ InErrorHandler
    /\ wh = "recv" /\ wh' = "add"
    /\ errorCh # <<>>
    /\ errorCh' = Tail(errorCh)
    /\ workerErrs' = workerErrs + 1
    /\ UNCHANGED <<collectorVars, errCh, rh>>

AddWorkerError ==
    /\ InErrorHandler
    /\ wh = "add" /\ wh' = "recv"
    /\ Col!Add(ErrorOf["error"])
    /\ UNCHANGED <<errCh, errorCh, rh, workerErrs>>

WorkerErrorsClosed ==
    /\ InErrorHandler
    /\ wh = "recv" /\ wh' = "done"
    /\ errorCh = <<>> /\ errorClosed
    /\ UNCHANGED <<collectorVars, errCh, errorCh, rh, workerErrs>>

ReaderErrorsStep == HandleReaderError \/ ReaderErrorsClosed
WorkerErrorsStep == HandleWorkerError \/ AddWorkerError \/ WorkerErrorsClosed

----------------------------------------------------------------------------
(* Interrupts: the signal handler, and Stop called by another goroutine.   *)

SignalArrives ==
    /\ "signal" \in Interrupts
    /\ runPc # "init" /\ ~ctxDone
    /\ ctxDone' = TRUE
    /\ UNCHANGED <<readerOwn, collectorVars, handlerVars, runVars, channels>>

\* A slip: the signal handler cancels the pool as well.
SignalCancelsPool ==
    /\ SignalArrives
    /\ poolCtx' = TRUE
    /\ UNCHANGED <<outputClosed, errorClosed, started, wpc, held, closer, stopPc, dropped>>

\* The first signal cancels the pipeline's context.
Signal == SignalArrives /\ UNCHANGED poolOwn

StopCancel ==
    /\ "stop" \in Interrupts
    /\ caller = "idle"
    /\ caller' = "cancelled"
    /\ ctxDone' = TRUE
    /\ UNCHANGED <<readerOwn, poolOwn, collectorVars, handlerVars, runPc, runErr, channels>>

\* Stop reads p.workerPool: nil before StorePool, else StopAndWait.
StopPool ==
    /\ caller = "cancelled"
    /\ UNCHANGED <<readerOwn, errCh, ctxDone, collectorVars, handlerVars, runPc, runErr>>
    /\ IF runPc \in {"init", "armed", "reading"}
       THEN caller' = "returned" /\ UNCHANGED <<poolOwn, recordCh, outputCh, errorCh>>
       ELSE caller' = "stopping" /\ Pool!Stop

StopDone ==
    /\ caller = "stopping"
    /\ caller' = "returned"
    /\ Pool!WaitReturns
    /\ UNCHANGED <<readerOwn, errCh, ctxDone, collectorVars, handlerVars, runPc, runErr>>

CallerStep == StopPool \/ StopDone

----------------------------------------------------------------------------
ReaderStep(f) ==
    /\ Reader!FileStep(f)
    /\ UNCHANGED <<poolOwn, outputCh, errorCh, ctxDone, collectorVars, handlerVars, runVars>>

ReaderCloserStep ==
    /\ Reader!CloserStep
    /\ UNCHANGED <<poolOwn, outputCh, errorCh, ctxDone, collectorVars, handlerVars, runVars>>

WorkerStep(w) ==
    /\ Pool!AddWorker(w) \/ Pool!WorkerStep(w)
    /\ UNCHANGED <<readerOwn, errCh, ctxDone, collectorVars, handlerVars, runVars>>

PoolRunStep ==
    /\ Pool!FinishStart \/ Pool!CloserStep
    /\ UNCHANGED <<readerOwn, errCh, ctxDone, collectorVars, handlerVars, runVars>>

Terminated ==
    /\ runPc = "returned"
    /\ caller \in {"idle", "returned"}
    /\ UNCHANGED vars

\* What the goroutines of a run and a caller inside Stop do by themselves.
OwnStep ==
    \/ RunStep \/ ResultsStep \/ ReaderErrorsStep \/ WorkerErrorsStep
    \/ \E f \in Files : ReaderStep(f)
    \/ ReaderCloserStep
    \/ \E w \in Workers : WorkerStep(w)
    \/ PoolRunStep
    \/ CallerStep

Next == OwnStep \/ Signal \/ StopCancel \/ Terminated

Safety == Init /\ [][Next]_vars

\* As long as some goroutine can run, one does.  This is less than the scheduler
\* gives, which starves none, and enough since no goroutine runs in circles.
\* Signals and calls of Stop need not happen.
Spec == Safety /\ WF_vars(OwnStep)

----------------------------------------------------------------------------
Returned == runPc = "returned"
CountOf(status) == Cardinality({job \in handled : StatusOf(job) = status})
\* handleResults gave up on the collector's request, a result still in hand.
Aborted == hr = "done" /\ cur # NoResult
ResultErrors(outcome) == Cardinality({job \in handled : job.outcome = outcome})

\* A run on which Stop was not called and that did not abort hands every record the reader
\* emitted to handleResults exactly once, a run cut short by a signal included
\* ("graceful shutdown"), and every file it left short has an error collected.
NothingLost ==
    Returned /\ caller = "idle" /\ ~Aborted =>
        /\ Handled = Supplied
        /\ Cardinality(handled) = Cardinality(Handled)
        /\ \A f \in Files : FirstLine - 1 + sent[f] < Len(content[f].rows) =>
               \E e \in Reported : e.file = f

\* Run returns only when no goroutine of the reader or the pool is left behind
\* and every channel is closed, whatever interrupted it.
NoGoroutineLeft ==
    Returned => /\ rcloser = "done" /\ closer = "done"
                /\ \A f \in Files : rpc[f] = "done"
                /\ \A w \in Workers : wpc[w] = "exited"

\* The written output and the summary agree: what was written are the handled
\* successes, except for the one in hand and, after an abort, the last one.
OutputMatchesSummary ==
    /\ \A s \in {"success", "failed", "skipped"} : summary[s] = CountOf(s)
    /\ WriteOutput =>
         /\ \A r \in written : [rec |-> r, outcome |-> "success"] \in handled
         /\ Cardinality(written) + (IF cur # NoResult /\ StatusOf(cur) = "success" THEN 1 ELSE 0)
              = summary["success"]

\* When Run returns the collector has counted every result, and its entries
\* are the errors of the failed results, the worker errors received and the
\* reader errors, each of these once, up to MaxErrors entries in all.
ErrorsAccounted ==
    Returned =>
        LET expected == [ProcessingError  |-> Cardinality(Reported),
                         ErrInvalidRecord |-> ResultErrors("failed"),
                         other            |-> ResultErrors("error") + workerErrs]
            total == expected.ProcessingError + expected.ErrInvalidRecord + expected.other
            CountErr(err) == Cardinality({i \in DOMAIN errs : errs[i].err = err})
        IN /\ \A err \in DOMAIN expected : CountErr(err) <= expected[err]
           /\ Len(errs) = IF MaxErrors > 0 /\ total > MaxErrors THEN MaxErrors ELSE total
           /\ totalProcessed = Cardinality(handled)

\* Run comes back: no interleaving of reader, workers, closers, handlers, a
\* signal and a caller of Stop leaves it waiting for ever, unless it aborts.
RunEnds == <>(Returned \/ Aborted)

\* "cancel() // Cascades to all components" (ARCHITECTURE.md 321): an aborted
\* run comes to its end as well.
AbortEndsRun == Aborted ~> Returned

\* Stop comes back, whatever state the run is in; and once it has found the
\* pool, Run comes back too, even when an abort has ended handleResults and the
\* workers are blocked on a full outputCh.
StopEnds ==
    /\ (caller # "idle") ~> (caller = "returned")
    /\ (caller = "stopping") ~> Returned

\* "Exit code: 0 = success, 1 = aborted" (EXAMPLES.md 442): main exits with 1
\* when Run returns an error, so an aborted run returns one.
AbortIsReported == Returned /\ Aborted => runErr

\* The pipeline drives the pool and the reader only as their modules allow:
\* the channels they share are closed once, filled and emptied from the side
\* the other one expects.
ComponentsImplemented == Pool!Safety /\ Reader!Safety

\* Where a row of a file is, as the promise of the whole run counts it.
FateOf(r) ==
    CASE r \in Handled -> "handled"
      [] r \in dropped -> "lost"
      [] r \in Pool!InInput \cup Pool!InHand \cup Pool!InOutput -> "held"
      [] OTHER -> "unread"

\* The rows that may become records: a header never does.
DataRows == Files \X (FirstLine .. MaxRows)

Promise == INSTANCE Ledger WITH
               Rows <- DataRows, fate <- [r \in DataRows |-> FateOf(r)],
               stopping <- caller # "idle", aborted <- Aborted, over <- Returned

\* Seen from outside, a run is the ledger of its rows: no step of the pipeline
\* takes a row back, passes one by, handles one twice or loses one on its own.
LedgerImplemented == Promise!Safety
============================================================================
