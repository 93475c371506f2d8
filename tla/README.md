# A TLA+ model of csv_processor

`csv_processor` reads several CSV files concurrently, runs a processor on every
record in a pool of workers, and collects results, errors and progress. The Go
code is small; what is hard about it is that a dozen goroutines and seven
channels have to start, drain, be cancelled and be closed in the right order.
These modules model that, TLC checks them on small instances, and TLAPS proves
every safety property the runs check, for every value of the constants.

## The system

| part | source (`src/internal/`) | state | operations | module |
|---|---|---|---|---|
| worker pool | `worker/pool.go` | `inputCh`, `outputCh`, `errorCh`, WaitGroup, context, the workers | `Start`, `worker`, `processRecord`, the closer, `Stop`, `StopAndWait` | `WorkerPool`, `WorkerPoolProofs` |
| semaphore pool | `worker/semaphore.go` | the pool's, plus the slots | `StartWithBackpressure`, `workerWithSemaphore`, `AcquireContext`, `Release` | `SemaphorePool`, `SemaphoreProofs` |
| CSV reader | `reader/csv_reader.go` | `recordCh`, `errCh`, one goroutine per file, `commonHeader` | `Read`, `readFile`, the header comparison, the closer | `CSVReader`, `CSVReaderProofs` |
| `ReadSingle`, `Worker`, `BatchWorker` | `reader/csv_reader.go`, `worker/worker.go` | the records and errors collected, the worker's two counters | `ReadSingle`, `ProcessBatch`, `Process`, `Stats` | `BatchJob`, `BatchJobProofs` |
| error collector | `errors/collector.go` | `errors`, `totalProcessed`, its context | `Add`, `AddWithCategory`, `IncrementProcessed`, `Clear`, `ThresholdExceeded`, the classification | `Collector` |
| error report | `errors/reporter.go`, `finalize` of `pipeline/pipeline.go` | what each section has read | `HasErrors`, `PrintSummary`, `Count`, `PrintTopErrors`, `PrintDetailed` | `ErrorReport`, `ErrorReportProofs` (also of the collector) |
| pipeline | `pipeline/pipeline.go` | the three handlers, the summary, the output, two contexts | `Run`, `handleResults`, `handleReaderErrors`, `handleWorkerErrors`, signals, `Stop` | `Pipeline`, its promise `Ledger`, `PipelineProofs` |
| progress tracker | `tracker/progress.go` | four atomic counters, `mu`, the update loop | `RecordProcessed`, `Start`, `Stop`, `StopAndPrintFinal`, `Stats`, the loads of a print | `ProgressTracker`, `ProgressTrackerProofs` |
| multi-file tracker | `tracker/multi_tracker.go` | a map of trackers, the global one, an RWMutex | `AddFile`, `RecordProcessed`, `Start`, `Stop`, `AllFileStats`, `GlobalStats` | `MultiTracker`, `MultiTrackerProofs` |

How they interact. `Run` starts the reader under the pipeline's context; the
reader's `recordCh` is handed to the pool as `inputCh`. Workers answer on
`outputCh`, and offer errors to `errorCh` without blocking. Three handlers
consume `outputCh`, `errorCh` and the reader's `errCh`; they share the collector,
whose context asks `handleResults` to abort. A signal cancels the pipeline's
context only, which only the reader looks at. The pool has a context of its own,
cancelled only by `Pipeline.Stop` through `StopAndWait`. `Run` returns when all
three handlers have, and those return when their channels are closed: by the
closer of the reader, which waits for every file, and by the closer of the pool,
which waits for every worker. `ReadSingle`, the batch worker, the semaphore pool
and the multi-file tracker are offered beside the pipeline, which uses none of them.

What is hard, and what makes each part correct:

* worker pool - no record duplicated or out of sight; no send on a closed
  channel; a result is lost only to a cancellation; nobody blocks for ever on a
  full channel; `StopAndWait` waits for what is running.
* semaphore pool - the same with two kinds of workers; slots are returned on
  every path.
* reader - a file's records in order and without gaps; a file cut short is
  reported; the verdict on headers does not depend on luck; both channels closed
  in the end.
* `ReadSingle` and batches - all records or an error, however channels and
  cancellation race; one result per record; counters that match the results.
* collector and report - an abort when the rate passes the threshold; sections
  of one report, read one by one, that agree.
* pipeline - everything read is handled although a signal arrives; output,
  summary and collector agree; `Run` and `Stop` come back and leave nothing behind.
* trackers - what a line may show while records are being counted; lines do not
  run into each other; no loop survives `Stop`; the files' counts and the total
  agree while files are added; nobody waits for ever under the two locks.

`PROJECT.json` lists the hazards one by one, each at its line.

## How the modules are written

A channel is a sequence and a closed flag; the capacity is a constant. A
goroutine is a program counter, and one action is one indivisible step of it: a
channel operation, an atomic addition, a critical section. A `select` is several
actions, of which any enabled one may be taken, as the runtime does. Operators
marked "a slip" are small mistakes somebody might make in that place. They are
not part of any specification; putting one in place of the action after it
breaks the property `PROJECT.json` names with it, which is how we know that the
property can fail.

The steps of `WorkerPool`, `CSVReader` and `Collector` say nothing about what
surrounds the component (who fills the input, who consumes, who cancels). Each
component is closed with the most general environment, the collector in
`ErrorReport`; `BatchJob` uses the reader's steps with `ReadSingle` as the
consumer, `SemaphorePool` the pool's with a second set of workers, and
`Pipeline` uses all three with the real environment:

    Reader  == INSTANCE CSVReader WITH taken <- Taken, reported <- Reported
    Pool    == INSTANCE WorkerPool WITH inputCh <- recordCh, supplied <- Supplied, ...
    Col     == INSTANCE Collector WITH ...
    Promise == INSTANCE Ledger WITH fate <- ..., stopping <- ..., aborted <- ..., over <- ...

The three histories the components keep for their properties (what was supplied,
taken, received) are computed there from the pipeline's own state.
`ComponentsImplemented` checks that the pipeline then implements both the pool
and the reader: the abstract environments really cover what the pipeline does.
`LedgerImplemented` checks it against `Ledger`, which knows no channel and no
goroutine, only what has become of each row: accepted once and in the order of
its file, then handled once; lost only to a call of `Stop`; left over at the end
only after a `Stop` or an abort. Its rows are `DataRows`, the lines of the files but
for a header, up to `MaxRows`, which no file exceeds. Both refinements are proved, too.

How state and actions correspond to the code, where it is not one to one:

* `Pipeline`: `hr`, `rh`, `wh` are where the three handlers are; `handleResults`
  is receive-and-count, collect, count processed, and check (abort or write),
  because the other two handlers' `Add`s may come between those. `caller` is a
  goroutine inside `Stop`.
* `CSVReader`: `rpc[f]` is where the goroutine of file `f` is; `line` is
  `lineNumber`, `rerr` the error `readFile` returned.
* `WorkerPool`: `held[w]` is the record or result a worker has in hand; the
  WaitGroup is not a counter but the set of workers running (`WgZero`).
* `ProgressTracker`: `loaded[p]` is what a print has loaded so far, in the order
  of the code; `pending[r]` a record whose second atomic addition is still to come.
* `MultiTracker`: a tracker is reduced to its life and its processed count, as
  `ProgressTracker` shows how the rest behaves. `writer` has the RWMutex or waits
  for it: Go keeps new readers out while a writer waits, which is what could make
  calls wait for each other. `missed[c]` is a history: the trackers that a `Start` beside
  caller `c`'s `Stop` started after that `Stop` had passed them by. Records are told
  apart by nothing, so `RecordsOf` counts pairs of a tracker
  and a number.
* `ErrorReport`: `judged`, `cleared` are histories: whether the newest entry was
  put against the threshold, and whether `Clear` came during the report.
  In the repository `finalize` reports after every handler is done; errors are added
  during a report only by a program that takes the collector from `Pipeline.Errors()`,
  as `ErrorReport`, with any caller of an exported method, allows.
* `BatchJob`: `stats` is another goroutine inside `Worker.Stats`.

Simplifications, all of them named in the modules:

* Records are identified by file and line. Their fields matter in headers only.
* What a file's disk holds (`Contents`) is chosen once. Rows are what
  `encoding/csv` returns; `Malformed` stands for every error of it.
* The goroutines of `Read` start together: a late one is one that takes its first
  step late. `readFile`'s check of the context and the read of the next row are
  one step; so are the receive and the `Add` of `handleReaderErrors`, because no
  sender on `errCh` ever waits for the slot this frees (`ClosedMeansDone`).
* The processor is a choice among `Outcomes`: success, skipped, a failed result
  with or without an error, an error. Under a cancelled context it may always
  return the context's error. `processRecord` drops a result that comes with an
  error; `Worker.Process` keeps it, so `BatchJob` has that outcome, and that of a
  processor that returns neither, which breaks its interface and would stop
  `processRecord`. A processor that never returns is left out.
* Errors are the values the code tells apart. The checks compare with `==`, so an
  error that wraps a sentinel is "other"; every error of the reader is a
  `ProcessingError`.
* The runtime's panic on a WaitGroup that is reused while a waiter wakes up is
  left out; the calls that may lead to it are in the model.
* The error rate is compared as a rational; for the binary thresholds and small
  counts of the runs float64 is exact.
* Durations, timestamps, the text of reports, and in `Pipeline` the progress display.

## What the runs check

Every run but the two violations passes. Deadlock is checked wherever the cfg does
not say otherwise, which is in the runs in which an abort may block the pipeline;
`Terminated` steps mark the states in which a module may rest, so a goroutine left
waiting is an error.

| run | instance | what it shows |
|---|---|---|
| `pool` | 2 workers, 3 records, channels of 1, `StopAndWait` at any time | exactly-once; channels closed after the last worker; complete delivery without a cancellation; loss at most one result per worker; `StopAndWait` returns with nobody consuming; a consumer of `Results` alone reaches the end |
| `semaphore` | 2 workers of each kind, 2 records, 1 slot, Stop at any time | the pool's properties with two kinds of workers, slots conserved, a panic only after a `Stop` that overtook `StartWithBackpressure`; any other `Stop` waits for both kinds |
| `reader` | 2 files of 9 shapes, buffer of 2 | order, no silent loss, header verdict, closing, end after a cancellation and end for a consumer of records alone |
| `batch` | 1 file of 4 shapes, buffer of 1, 5 outcomes, a cancellation and `Stats` at any time | what `ReadSingle` returns with each error; one result per record, counters and `Stats` that match; nobody left behind |
| `tracker` | 1 recorder of 2 results, the loop, 2 callers | counters agree; a line lags at most one record per recorder; no two lines at once; no loop after `Stop`; `Stop` returns |
| `collector` | 2 kinds of errors, 3 entries, 3 processed records, 1 error in the top list | the threshold is honoured with two exceptions; the sections of a report agree |
| `multi` | 2 callers, 2 names, 2 trackers and the global one, 2 records | the counts agree; `Start` starts all or fails; `Stop`, whatever runs beside it, leaves only the loops of replaced trackers and of trackers started behind its back; every call returns |
| `pipeline_plain` | 2 files, 2 workers, 5 outcomes, `MaxErrors` 2 | the run ends (deadlock is checked); summary, output and collector agree |
| `pipeline_interrupt` | 1 file of 2 rows, 2 workers, signal, Stop and abort | nothing lost to a signal, nothing left behind, refinement of `WorkerPool`, `CSVReader` and `Ledger` |
| `pipeline_live` | 1 worker, 1 or 3 failing rows, signal, Stop and abort | `Run` returns unless it aborts; `Stop` returns and ends even a blocked run |
| `pipeline_abort_hangs` | 1 worker, 3 rows | **violation**: an aborted run never returns |
| `pipeline_exit_code` | 1 worker, 2 rows | **violation**: an aborted run returns nil |

Why these bounds are enough for the hazards. Capacity 1 (2 in the reader) with
more records than capacity makes every send meet a full channel; the code's 100
(`ReadSingle`), 10 (`ErrCap`) and twice the workers are larger, and the
interesting case is that they are full. Two workers, two files and two callers
give every pairwise race; the code treats all of them alike. Three records are
two in the hands of workers and one in a channel, or one in each place of a single
worker's path, which is what blocking after an abort needs: one result with the
handler, one in `outputCh`, one in the worker's hand. One recorder with two
results shows the lag of a line. Two trackers on two names let a name be added
twice, before and after it was started, or two names be added. Three collector
entries of two kinds make one message more frequent than the other, and a top
list of one leaves a message out. Symmetry of the workers is used in
`pipeline_plain` only, which checks invariants only.

### Findings

1. **An abort can hang** (`pipeline.go:220`). `handleResults` cancels the
   pipeline's context and returns; the pool's context is another one
   (`pool.go:88`). With the results unread, workers block on a full `outputCh`,
   the pool's closer never closes `errorCh`, and `Run` waits for
   `handleWorkerErrors` for ever. ARCHITECTURE.md says the cancellation cascades
   to all components. A signal does not help, since it cancels the same context
   again; a call of `Stop` does (`StopEnds`).
2. **An aborted run may return nil** (`pipeline.go:182`). The abort was decided
   before the failing record was counted, and the returned error is decided again
   afterwards, at a lower rate. EXAMPLES.md promises exit code 1.

Met on the way and not given runs of their own:

* `StopAndWait` during `Start` (`pool.go:217`) waits for a WaitGroup that is still
  zero and returns before workers run. `Pipeline.Run` publishes the pool before it
  starts it, so `Pipeline.Stop` can do this. `SemStopWaits` says so: "or early". The
  workers that run afterwards do end, and so does the run (`StopEnds`).
* The semaphore does not limit (`semaphore.go:92`): `StartWithBackpressure` runs the
  plain workers, which take no slot, and adds the others; the comment there says it
  overrides them. `SlotsHeld` bounds the slots, nothing bounds the records.
* The threshold is compared before the record is counted, so one failure in two
  aborts at a threshold of one half, and an error before the first counted record
  is never judged (`collector.go:123`). `ThresholdHonoured` states what is left.
* A full collector returns before it looks at the threshold (`collector.go:105`):
  with a small `MaxErrors` a run never aborts. No property covers this:
  `ThresholdHonoured` judges the entries that were stored. `Clear` does not take an
  abort back.
* An error the processor returns is collected twice (`ErrorsAccounted` says exactly
  how the entries come about), so the rate may exceed one.
* `handleReaderErrors` asks `IsIOError` of errors that are always a
  `ProcessingError` (`pipeline.go:238`): never true.
* A malformed row ends its file, while ARCHITECTURE.md says "Process all records,
  even if some fail" (`NoSilentLoss` says what does hold).
* `SuccessRate` may exceed 100% for an instant (`progress.go:217`).
* A file tracker replaced by a second `AddFile` is never stopped
  (`multi_tracker.go:41`), though `Stop` "stops all trackers"; nor is one that a `Start`
  beside the `Stop` starts after the `Stop` has passed it. `StopCleans` excepts
  exactly these two kinds.
* Records that a cancelled batch did not attempt get a failed result that no
  counter counts (`worker.go:109`).

### Fairness

Weak fairness for each goroutine as a whole: the Go scheduler starves no runnable
goroutine, and goroutines blocked on a channel are served in order. For a
`select` that is enough, since whichever branch is taken the properties hold.
`Pipeline` gets by with less, one weak fairness for all its goroutines together:
as long as one of them can run, some one does. That suffices because no goroutine
of a run goes in circles, and it is implied by what the scheduler gives. Nothing
is assumed of signals, of calls before they have begun, of ticks, of producers,
of `Cancel`, and of consumers, except inside a property that says so: `Drains`,
`SemDrains` and `ReadEnds` assume, as their premise, a consumer of the one channel
they name. In `Pipeline` the consumers are the handlers, which are goroutines of
the program; in `BatchJob` it is `ReadSingle` itself. In `MultiTracker` a call
that wants the lock for reading begins when it gets it, so `CallsReturn` speaks of
those that have it and of writers, which wait from their first step on.

## What is proved

Every invariant, action property and refinement of the passing runs, and the safety
half of the one property that has both, is a theorem,
for all values of the constants: any finite set of files, workers, callers or
recorders, files of any contents, any capacity, limit and threshold. The only
assumptions are the `ASSUME`s of the modules, each of which TLC evaluates on a
run: sets that are finite, capacities that are positive, outcomes and contents of
the right shape, one file for `ReadSingle`, and a bound on the rows of the files
(`MaxRows`), which any set of files that are finite in number has. No fairness is
assumed: the theorems are about `Safety`, the specification without it.

Each invariant needs a strengthening that is inductive; what that adds is the
reason the code is right, and is named here after the theorems.

**`WorkerPoolProofs`**

| theorem | statement |
|---|---|
| `TypeCorrect` | `Safety => []TypeOK` |
| `ClosedCorrect` | `Safety => []ClosedMeansDone`: the output channels close only after every worker has exited |
| `ExactlyOnceCorrect` | `Safety => []ExactlyOnce` |
| `DeliveryCorrect` | `Safety => []CompleteDelivery` |
| `LossCorrect` | `Safety => []LossBounded` |

* `TypeOK` needs `HandsMatch` (a worker holds a record exactly while it processes
  or sends it), else the record sent would not be known to be one.
* `Lifecycle` orders the stages: `Start` adds every worker before the closer begins
  to wait, so a WaitGroup at zero then means that all workers have *exited*, not
  that none was added yet. This is what `ClosedMeansDone` follows from, and why it
  survives a `Stop` that comes during `Start` although the wait of that `Stop` does
  not. It also says that without a cancellation a worker exits only at the end of a
  drained input.
* `ExactlyOnce` says that the five places a record can be in are disjoint, free of
  repeats, and together make up what was supplied. Each step moves one record from
  one place to the next; the lemmas on `Tail` and `Append` of sequences without
  repeats carry the two channels.
* `CompleteDelivery` then needs no counting: when the output is closed and empty,
  nobody is busy, nothing was dropped and the input is empty, so what was supplied
  is what was received.
* `LossInv`: a worker gives up a record only in the step in which it exits, so
  there are no more losses than exits.

**`SemaphoreProofs`** (over `SemSafety`)

| theorem | statement |
|---|---|
| `SlotsCorrect` | `[]SlotsHeld` |
| `PanicCorrect` | `[]NoPanic` |
| `SemOnceCorrect` | `[]SemExactlyOnce` |
| `StopWaitsCorrect` | `[](stopPc = "returned" => SemWgZero \/ early)`, the safety half of `SemStopWaits` |

A step is one of the pool, for which the lemmas above are used again, or one of a
semaphore worker. `SlotsHeld` is inductive by itself: only the steps into and out
of the part between `Acquire` and `Release` touch the slots. `PanicInv` adds
`Guarded`: as long as no `Stop` was early, after a cancellation all workers have
been added, and once the results are closed a worker that is added late finds a
closed and drained input. `SemPlaces` and `SemLossInv` extend the places and the
losses of the pool by the other kind of workers. `WaitInv`: workers with a slot are
added after `Start` only, so a `Stop` that was not early finds every worker added,
and those it waited for have exited for good.

**`CSVReaderProofs`**

| theorem | statement |
|---|---|
| `ReaderTypeCorrect` | `Safety => []TypeOK` |
| `OrderCorrect` | `Safety => []InOrder` |
| `ClosedCorrect` | `Safety => []ClosedMeansDone` |
| `LossCorrect` | `Safety => []NoSilentLoss` |
| `HeaderCorrect` | `Safety => []HeaderVerdict` |

`LinesMatch` says how far a goroutine has read, and what it has sent, by where it
is. `ErrorsMatch` says that the errors in `errCh` and those received are exactly
those of the goroutines that are done and failed: hence one error for each file
that fell short, and room in `errCh` for whoever reports (its capacity is the number
of files). `HeaderInv` says that the norm, once there, is the header of a file that
ended without an error, and that the files that mismatched differ from it.

**`BatchJobProofs`** (over `JobSafety`)

| theorem | statement |
|---|---|
| `JobIsReader` | `JobSafety => Safety`: the job drives the reader as its module allows |
| `SingleCorrect` | `[]SingleComplete` |
| `BatchCorrect` | `[]BatchResults` |

`JobIsReader` brings in the reader's invariants. `CollectInv` relates what
`ReadSingle` has to what it received and has seen closed; a channel it saw
closed and empty stays so. `ResultsInv` counts the attempted records by their
results, and `StatsInv` bounds what `Stats` has loaded from both sides between its
two loads.

**`ErrorReportProofs`**

| theorem | statement |
|---|---|
| `CollectorTypeCorrect` | `Safety => []TypeOK`, which includes the limit of the list |
| `ThresholdCorrect` | `Safety => []ThresholdHonoured` |
| `ReportCorrect` | `Safety => ReportConsistent` |

The threshold survives the records counted later because an entry that was put
against it came after the first record (`JudgedAfterFirst`), from where on counting
only lowers the rate. `SectionsAgree`: what a section has read is covered, figure
by figure, by what the collector holds now, since the list only grows until a `Clear`.

**`ProgressTrackerProofs`**

| theorem | statement |
|---|---|
| `TrackerTypeCorrect` | `Safety => []TypeOK` |
| `ExclusiveCorrect` | `Safety => []PrintsExclusive` |
| `CountersCorrect` | `Safety => []CountersAgree` |

`LoopLife` ties the loop to the first `Start` and the first `Stop`: a caller of `Stop`
prints only after the loop is gone. `CountersInv` is about lines half loaded: with
the outcomes it would still load if it did so now, a line shows no fewer than its
processed count, but for the records half counted when it began.

**`MultiTrackerProofs`**

| theorem | statement |
|---|---|
| `MultiTypeCorrect` | `Safety => []TypeOK`: also who has the lock |
| `StartCorrect` | `Safety => StartAllOrError` |
| `StopCorrect` | `Safety => StopCleans` |
| `CountsCorrect` | `Safety => []CountsAgree` |

`Numbered` (trackers are made in order, and no two names share one) and `ArgsFit`
(a caller has the name or tracker it needs) make the types inductive. `StartInv` and
`StopInv` say what the trackers already visited look like while a call goes over
the map, which no `AddFile` changes meanwhile. `CountsInv` says of a reader of the
files' counts, tracker by tracker, that its sum is at most their counts now.

**`PipelineProofs`**

| theorem | statement |
|---|---|
| `ComponentsCorrect` | `Safety => ComponentsImplemented`: a run implements the reader and the pool |
| `PipelineTypeCorrect` | `Safety => []TypeOK` |
| `ReturnCorrect` | `Safety => []NoGoroutineLeft` |
| `NothingLostCorrect` | `Safety => []NothingLost` |
| `OutputCorrect` | `Safety => []OutputMatchesSummary` |
| `AccountsCorrect` | `Safety => []ErrorsAccounted` |
| `LedgerCorrect` | `Safety => LedgerImplemented`: a run implements the ledger of its rows |

`StepMaps` shows that a step of the pipeline is, for the reader and for the pool, a
step of its module or none. `ReaderP` and `PoolP` are the two proof modules under
the pipeline's substitution, so the invariants of the components hold in a run
(`ReaderInv`, `PoolInv`) and need not be proved again. On top of them:

* `HandlersInv`: where `Run`, the handlers and a caller of `Stop` are together. A
  handler that is done has seen its channel closed and empty, or has aborted. With
  the pool's `ClosedMeansDone` and the reader's, `Run` returns to an empty house.
* `HandledOnce`, with the pool's `ExactlyOnce`: no result is received again; without a
  `Stop` and an abort the places other than `handled` are empty in the end.
* `SummaryInv` and `WrittenInv`: the summary counts handled results by status; the
  output is the handled successes but for the one in hand.
* `AccountInv`: the collector has every error handed to it but those *owed*, which a
  handler has in hand, up to `MaxErrors`. When `Run` returns nothing is owed.
* The ledger: a row's fate follows from `Supplied`, `handled` and `dropped` (`Fate`).
  `FateFrame` and `FlagsFrame` show that all steps but six change neither fates nor
  flags; of the six, three move one row (a send of the reader, the receipt of a
  result, a worker that gives up), and a `Stop`, an abort and the return of `Run` set
  a flag.

### Model-checked only

Liveness, and `ENABLED` with it, is out of the prover's reach: `StopReturns`, `Drains`
of the pool, `SemDrains`, the second half of `SemStopWaits`, `ReadEnds`, `JobEnds`, `StopReturns` of the
tracker, `CallsReturn`, `RunEnds` and `StopEnds`. So is the absence of deadlock, which
TLC checks in the runs. The two violations are TLC's as well.

The lemmas that count elements and places (`PlacesAppend`, `PlacesTail`, `RecordsAdd`,
`TailOfDistinct`) go through finite sets rather than recursive sums, since induction
over data is out of reach, too. For this reason `CountsAgree` and `ErrorsAccounted` are
stated with `Cardinality`.

## Plan

What is left, in order of what it would tell most:

1. The safety behind the liveness properties: the states in which a goroutine waits.
   For the pool, that a full `outputCh` is the only thing an uncancelled worker with a
   result can wait for; for `MultiTracker`, that the holder of the RWMutex never waits
   for a tracker's `mu` whose holder waits for it; for the pipeline, that a run which
   neither aborted nor returned has a goroutine with a step to take.
2. Proofs in fewer steps where a frame lemma would serve several actions, foremost
   in `PipelineProofs`.

## Not modelled

* The command line: flags, printing and the exit code around one call of `Run`.
* The fixtures generator, and the text of reports and progress lines.
* `ShowProgress` in the pipeline: the tracker's calls take its own locks and
  channels only, and `ProgressTracker` has the most general caller of them.
* Time: durations, throughput, rates and the estimates made from them; also
  `startTime`, which `Start` writes and `Elapsed` reads without a common lock.
* Code with no caller in the repository but tests: `ErrorCollector` of `errors.go`,
  `Acquire` and `TryAcquire` of the semaphore, `ValidateRecord` and
  `ValidateFieldCount`, the groupings `ErrorsByCategory` and `ErrorsBySeverity`;
  `ExportToFile` is a stub. `GetFileTracker` and `FileStats` are single reads under
  a lock the model has.
* A second signal: the handler goroutine is gone after the first one, and `Notify`
  keeps the signal from ending the program.
