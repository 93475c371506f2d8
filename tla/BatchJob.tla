------------------------------ MODULE BatchJob ------------------------------
(***************************************************************************)
(* The two pieces of the code that work without a pool, used one after the *)
(* other: ReadSingle (csv_reader.go) collects the records of one file, and *)
(* BatchWorker.ProcessBatch (worker.go) processes them in the same         *)
(* goroutine, under the same context.  Meanwhile another goroutine asks    *)
(* the worker for its Stats.                                               *)
(*                                                                         *)
(* The reader of the one file is the module CSVReader; ReadSingle is the   *)
(* consumer of its channels.  The caller that joins the two pieces is      *)
(* outside the repository's code.                                          *)
(***************************************************************************)
EXTENDS CSVReader

CONSTANTS Outcomes          \* what the processor may do with a record

\* A result and no error; a failed result; an error alone; an error beside a
\* result that is not failed; neither.
ProcessorOutcomes == {"ok", "failed", "error", "okError", "nothing"}

ASSUME OneFileAssumption == Cardinality(Files) = 1 /\ ~ValidateHeader
ASSUME OutcomesAssumption == Outcomes \subseteq ProcessorOutcomes /\ Outcomes # {}

VARIABLES
    jobPc,                  \* where the job is
    records,                \* ReadSingle's records, then what it returns
    errs,                   \* ReadSingle's errs, by their kinds
    closedSeen,             \* the channels ReadSingle has set to nil
    readErr,                \* the error ReadSingle returned
    results,                \* ProcessBatch's results as [rec, outcome]
    processed, failed,      \* the Worker's counters
    stats                   \* the reader of Stats: what it has loaded, and when

jobVars == <<jobPc, records, errs, closedSeen, readErr>>
workerVars == <<results, processed, failed>>
jobAllVars == <<vars, jobVars, workerVars, stats>>

TheFile == CHOOSE f \in Files : TRUE
AllRecords == [i \in 1 .. Len(Rows(TheFile)) + 1 - FirstLine |-> <<TheFile, FirstLine + i - 1>>]
Attempted == processed + failed
NoStats == [pc |-> "idle", processed |-> 0, failed |-> 0, before |-> 0]

\* Whether Process counts an outcome as failed, and whether its result is.
CountsFailed(outcome) == outcome \in {"failed", "error", "okError"}
IsFailed(outcome) == outcome \in {"failed", "error", "canceled"}

JobInit ==
    /\ Init
    /\ jobPc = "idle" /\ records = <<>> /\ errs = <<>> /\ closedSeen = {} /\ readErr = "nil"
    /\ results = <<>> /\ processed = 0 /\ failed = 0
    /\ stats = NoStats

----------------------------------------------------------------------------
(* ReadSingle.                                                             *)

BeginRead ==
    /\ jobPc = "idle" /\ jobPc' = "collect"
    /\ Read
    /\ UNCHANGED <<envVars, records, errs, closedSeen, readErr, workerVars, stats>>

CollectRecord ==
    /\ jobPc = "collect"
    /\ ReceiveRecord
    /\ records' = Append(records, Head(recordCh))
    /\ UNCHANGED <<jobPc, errs, closedSeen, readErr, workerVars, stats>>

CollectError ==
    /\ jobPc = "collect"
    /\ ReceiveError
    /\ errs' = Append(errs, Head(errCh).kind)
    /\ UNCHANGED <<jobPc, records, closedSeen, readErr, workerVars, stats>>

SeeClosed ==
    /\ jobPc = "collect"
    /\ \/ recordClosed /\ recordCh = <<>> /\ closedSeen' = closedSeen \cup {"records"}
       \/ errClosed /\ errCh = <<>> /\ closedSeen' = closedSeen \cup {"errors"}
    /\ closedSeen' # closedSeen
    /\ UNCHANGED <<vars, jobPc, records, errs, readErr, workerVars, stats>>

\* ReadSingle returns what it has, or nothing but the context's error.
ReturnAfter(closed) ==
    /\ jobPc = "collect" /\ jobPc' = "batch"
    /\ closed \subseteq closedSeen
    /\ readErr' = IF errs = <<>> THEN "nil" ELSE errs[1]
    /\ UNCHANGED <<vars, records, errs, closedSeen, workerVars, stats>>

\* A slip: the loop ends with the records, errors or not.
ReturnWithoutErrors == ReturnAfter({"records"})

ReturnRecords == ReturnAfter({"records", "errors"})

ReturnCanceled ==
    /\ jobPc = "collect" /\ jobPc' = "batch"
    /\ ctxDone
    /\ readErr' = "ctx" /\ records' = <<>>
    /\ UNCHANGED <<vars, errs, closedSeen, workerVars, stats>>

ReadSingleStep ==
    \/ BeginRead \/ CollectRecord \/ CollectError \/ SeeClosed \/ ReturnRecords \/ ReturnCanceled

----------------------------------------------------------------------------
(* ProcessBatch on whatever was read, and Worker.Process.                  *)

InBatch == jobPc = "batch" /\ UNCHANGED <<vars, records, errs, closedSeen, readErr, stats>>

Process(i) ==
    \E outcome \in Outcomes :
        /\ results' = Append(results, [rec |-> records[i], outcome |-> outcome])
        /\ failed' = failed + (IF CountsFailed(outcome) THEN 1 ELSE 0)
        /\ processed' = processed + (IF CountsFailed(outcome) THEN 0 ELSE 1)

ProcessRecord ==
    /\ InBatch
    /\ ~ctxDone
    /\ Len(results) < Len(records)
    /\ Process(Len(results) + 1)
    /\ UNCHANGED jobPc

\* Cancelled: the records from first on get a failed result, which no counter counts.
FailFrom(first) ==
    /\ InBatch /\ jobPc' = "done"
    /\ ctxDone
    /\ Len(results) < Len(records)
    /\ results' = results \o [i \in 1 .. Len(records) + 1 - first |->
                                 [rec |-> records[first + i - 1], outcome |-> "canceled"]]
    /\ UNCHANGED <<processed, failed>>

\* A slip: the record at which the cancellation is seen is passed over.
CancelBatchAfter == FailFrom(Len(results) + 2)

CancelBatch == FailFrom(Len(results) + 1)

ReturnResults ==
    /\ InBatch /\ jobPc' = "done"
    /\ Len(results) = Len(records)
    /\ UNCHANGED workerVars

BatchStep == ProcessRecord \/ CancelBatch \/ ReturnResults

----------------------------------------------------------------------------
(* Stats loads the two counters one after the other.                       *)

LoadProcessed ==
    /\ stats.pc = "idle"
    /\ stats' = [pc |-> "failed", processed |-> processed, failed |-> 0, before |-> Attempted]
    /\ UNCHANGED <<vars, jobVars, workerVars>>

LoadFailed ==
    /\ stats.pc = "failed"
    /\ stats' = [stats EXCEPT !.pc = "read", !.failed = failed]
    /\ UNCHANGED <<vars, jobVars, workerVars>>

StatsReturned ==
    /\ stats.pc = "read"
    /\ stats' = NoStats
    /\ UNCHANGED <<vars, jobVars, workerVars>>

StatsStep == LoadProcessed \/ LoadFailed \/ StatsReturned

----------------------------------------------------------------------------
OthersIdle == UNCHANGED <<jobVars, workerVars, stats>>

FileReadStep == (CloserStep \/ FileStep(TheFile)) /\ UNCHANGED envVars /\ OthersIdle

JobNext ==
    \/ ReadSingleStep \/ BatchStep \/ StatsStep \/ FileReadStep
    \/ Cancel /\ OthersIdle

JobSafety == JobInit /\ [][JobNext]_jobAllVars

\* The job's goroutine and the reader's keep running, the processor included.
JobSpec ==
    /\ JobSafety
    /\ WF_jobAllVars(ReadSingleStep \/ BatchStep)
    /\ WF_jobAllVars(FileReadStep)

----------------------------------------------------------------------------
\* However the two channels and the cancellation race, ReadSingle without an
\* error returns every row of the file in order, with the reader's error a
\* prefix of them, and with the context's error nothing (csv_reader.go 203-240).
SingleComplete ==
    jobPc \in {"batch", "done"} =>
        CASE readErr = "nil" -> records = AllRecords
          [] readErr = "ctx" -> records = <<>>
          [] OTHER -> records = SubSeq(AllRecords, 1, Len(records))

\* The batch returns one result per record in the records' order; those it did
\* not attempt are the last ones, and only after a cancellation.  The counters
\* count the attempted ones: the failed results among them, and the results
\* that came with an error without being failed.  What Stats returns lies
\* between what was counted when it began and what is now (worker.go 32-134).
BatchResults ==
    /\ \A i \in DOMAIN results : results[i].rec = records[i]
    /\ \A i \in DOMAIN results : i > Attempted <=> results[i].outcome = "canceled"
    /\ jobPc = "done" => Len(results) = Len(records)
    /\ Attempted < Len(results) => ctxDone
    /\ failed = Cardinality({i \in 1 .. Attempted :
                  IsFailed(results[i].outcome) \/ results[i].outcome = "okError"})
    /\ stats.pc = "read" =>
         /\ stats.before <= stats.processed + stats.failed
         /\ stats.processed + stats.failed <= Attempted

\* A job that has begun comes to its end, and so do the goroutines of the
\* reader, although ReadSingle leaves them behind when it is cancelled
\* (csv_reader.go 229-231).
JobEnds == (jobPc # "idle") ~> (jobPc = "done" /\ recordClosed /\ errClosed)
============================================================================
