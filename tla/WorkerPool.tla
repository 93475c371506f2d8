---------------------------- MODULE WorkerPool ----------------------------
(***************************************************************************)
(* internal/worker/pool.go: a fixed set of worker goroutines takes records *)
(* from inputCh, runs the processor on each and sends one result per       *)
(* record to the bounded outputCh.  An error returned by the processor is  *)
(* offered to the bounded errorCh as well, without blocking.  A closer     *)
(* goroutine closes both channels once the WaitGroup of the workers is     *)
(* zero.  Stop cancels the pool's own context and StopAndWait waits for    *)
(* the WaitGroup.                                                          *)
(*                                                                         *)
(* A channel is a sequence and a closed flag.  The producer that fills     *)
(* inputCh and the consumers of the two outputs are the environment here;  *)
(* Pipeline.tla puts the real reader and the real handlers in its place.   *)
(*                                                                         *)
(* Left out: durations, the runtime's panic when a WaitGroup is reused     *)
(* while a waiter wakes up (it ends the program), and processors that      *)
(* return neither a result nor an error (they break the interface).        *)
(***************************************************************************)
EXTENDS Naturals, Sequences, FiniteSets

CONSTANTS
    Workers,    \* the worker goroutines
    Records,    \* every record the producer may ever supply
    InCap,      \* capacity of inputCh
    OutCap,     \* capacity of outputCh
    ErrCap,     \* capacity of errorCh
    Outcomes,   \* what the processor may answer while its context is live
    NoJob,      \* a worker holds no record
    EarlyStop   \* StopAndWait may be called before Start has returned

\* "failed" is StatusFailed with Error set, "failedNoErr" StatusFailed with a
\* nil Error, "error" a non-nil error returned beside the result.
AllOutcomes == {"success", "skipped", "failed", "failedNoErr", "error"}

Job == [rec : Records, outcome : AllOutcomes \cup {"pending"}]

ASSUME WorkersAssumption == IsFiniteSet(Workers) /\ Workers # {}
ASSUME CapAssumption ==
    InCap \in Nat \ {0} /\ OutCap \in Nat \ {0} /\ ErrCap \in Nat \ {0}
ASSUME OutcomesAssumption == Outcomes \subseteq AllOutcomes /\ Outcomes # {}
ASSUME NoJobAssumption == NoJob \notin Job
ASSUME EarlyStopAssumption == EarlyStop \in BOOLEAN

VARIABLES
    inputCh, inputClosed,     \* Pool.inputCh
    outputCh, outputClosed,   \* Pool.outputCh
    errorCh, errorClosed,     \* Pool.errorCh, the record each error is about
    started,                  \* Start: not called, adding workers, returned
    poolCtx,                  \* Pool.ctx is cancelled
    wpc,                      \* where each worker goroutine is
    held,                     \* the record or result a worker has in hand
    closer,                   \* the goroutine that closes the channels
    stopPc,                   \* a caller of StopAndWait
    supplied,                 \* records the producer has put into inputCh
    received,                 \* records whose result the consumer has taken
    dropped                   \* records whose result a worker gave up

outVars == <<outputCh, outputClosed, errorCh, errorClosed, closer>>
workerVars == <<wpc, held, dropped>>
ctlVars == <<started, poolCtx, stopPc>>
poolVars == <<inputCh, outVars, workerVars, ctlVars>>
envVars == <<inputClosed, supplied, received>>
vars == <<poolVars, envVars>>

Running(w) == wpc[w] \in {"select", "process", "send"}

\* The WaitGroup's counter is zero: every worker added so far called Done.
WgZero == \A w \in Workers : ~Running(w)

----------------------------------------------------------------------------
TypeOK ==
    /\ inputCh \in Seq(Records)
    /\ outputCh \in Seq(Job)
    /\ errorCh \in Seq(Records)
    /\ inputClosed \in BOOLEAN /\ outputClosed \in BOOLEAN /\ errorClosed \in BOOLEAN
    /\ poolCtx \in BOOLEAN
    /\ Len(inputCh) <= InCap /\ Len(outputCh) <= OutCap /\ Len(errorCh) <= ErrCap
    /\ started \in {"no", "adding", "yes"}
    /\ wpc \in [Workers -> {"none", "select", "process", "send", "exited"}]
    /\ held \in [Workers -> Job \cup {NoJob}]
    /\ closer \in {"none", "wait", "closeErr", "done"}
    /\ stopPc \in {"idle", "waiting", "returned"}
    /\ supplied \subseteq Records /\ received \subseteq Records /\ dropped \subseteq Records

PoolInit ==
    /\ outputCh = <<>> /\ outputClosed = FALSE
    /\ errorCh = <<>> /\ errorClosed = FALSE
    /\ started = "no" /\ poolCtx = FALSE
    /\ wpc = [w \in Workers |-> "none"]
    /\ held = [w \in Workers |-> NoJob]
    /\ closer = "none" /\ stopPc = "idle"
    /\ dropped = {}

Init ==
    /\ inputCh = <<>> /\ inputClosed = FALSE /\ supplied = {}
    /\ PoolInit
    /\ received = {}

----------------------------------------------------------------------------
(* Start: one WaitGroup.Add and one goroutine per worker, then the closer. *)

BeginStart ==
    /\ started = "no"
    /\ started' = "adding"
    /\ UNCHANGED <<inputCh, outVars, workerVars, poolCtx, stopPc>>

AddWorker(w) ==
    /\ started = "adding"
    /\ wpc[w] = "none"
    /\ wpc' = [wpc EXCEPT ![w] = "select"]
    /\ UNCHANGED <<inputCh, outVars, held, dropped, ctlVars>>

FinishStart ==
    /\ started = "adding"
    /\ \A w \in Workers : wpc[w] # "none"
    /\ started' = "yes"
    /\ closer' = "wait"
    /\ UNCHANGED <<inputCh, outputCh, outputClosed, errorCh, errorClosed,
                   workerVars, poolCtx, stopPc>>

----------------------------------------------------------------------------
(* worker: the select on the context and the input channel.  When several  *)
(* branches are ready the runtime picks any of them.                       *)

WorkerStop(w) ==
    /\ wpc[w] = "select"
    /\ poolCtx
    /\ wpc' = [wpc EXCEPT ![w] = "exited"]
    /\ UNCHANGED <<inputCh, outVars, held, dropped, ctlVars>>

InputEnds(w) ==
    /\ wpc[w] = "select"
    /\ inputClosed
    /\ wpc' = [wpc EXCEPT ![w] = "exited"]
    /\ UNCHANGED <<inputCh, outVars, held, dropped, ctlVars>>

\* A slip: the closed flag is honoured before the buffer is drained.
WorkerInputClosedEarly(w) == InputEnds(w)

WorkerInputClosed(w) == inputCh = <<>> /\ InputEnds(w)

WorkerReceive(w) ==
    /\ wpc[w] = "select"
    /\ inputCh # <<>>
    /\ inputCh' = Tail(inputCh)
    /\ held' = [held EXCEPT ![w] = [rec |-> Head(inputCh), outcome |-> "pending"]]
    /\ wpc' = [wpc EXCEPT ![w] = "process"]
    /\ UNCHANGED <<outVars, dropped, ctlVars>>

\* The processor's answer becomes the result in hand.  Under a cancelled
\* context it may also be the context's error.
Answer(w, o) ==
    /\ wpc[w] = "process"
    /\ o \in Outcomes \/ (poolCtx /\ o = "error")
    /\ held' = [held EXCEPT ![w] = [rec |-> held[w].rec, outcome |-> o]]
    /\ wpc' = [wpc EXCEPT ![w] = "send"]
    /\ UNCHANGED <<inputCh, outputCh, outputClosed, errorClosed, closer, dropped, ctlVars>>

OfferError(w, o) == errorCh' = IF o = "error" THEN Append(errorCh, held[w].rec) ELSE errorCh

\* A slip: a worker waits for room for an error before it calls the processor.
WorkerProcessBlocking(w) ==
    Len(errorCh) < ErrCap /\ \E o \in AllOutcomes : Answer(w, o) /\ OfferError(w, o)

\* A slip: errors queue up without a bound.
WorkerProcessUnbounded(w) == \E o \in AllOutcomes : Answer(w, o) /\ OfferError(w, o)

\* processRecord: the send to errorCh is skipped when it is full.
WorkerProcess(w) ==
    \E o \in AllOutcomes :
        /\ Answer(w, o)
        /\ IF Len(errorCh) < ErrCap THEN OfferError(w, o) ELSE UNCHANGED errorCh

PutResult(w) ==
    /\ wpc[w] = "send"
    /\ Len(outputCh) < OutCap
    /\ outputCh' = Append(outputCh, held[w])
    /\ UNCHANGED <<inputCh, outputClosed, errorCh, errorClosed, closer, dropped, ctlVars>>

\* A slip: the result stays in hand and is sent once more.
WorkerSendTwice(w) == PutResult(w) /\ wpc' = [wpc EXCEPT ![w] = "process"] /\ UNCHANGED held

WorkerSend(w) ==
    /\ PutResult(w)
    /\ held' = [held EXCEPT ![w] = NoJob]
    /\ wpc' = [wpc EXCEPT ![w] = "select"]

GiveUp(w, pc) ==
    /\ wpc[w] = "send"
    /\ dropped' = dropped \cup {held[w].rec}
    /\ held' = [held EXCEPT ![w] = NoJob]
    /\ wpc' = [wpc EXCEPT ![w] = pc]
    /\ UNCHANGED <<inputCh, outVars, ctlVars>>

\* A slip: the send of a result is non-blocking, like the send of an error.
WorkerDropWhenFull(w) ==
    \/ poolCtx /\ GiveUp(w, "exited")
    \/ Len(outputCh) = OutCap /\ GiveUp(w, "select")

\* A slip: after giving a result up the worker goes on with the next record.
WorkerDropAndContinue(w) == poolCtx /\ GiveUp(w, "select")

\* A slip: the send has no branch for the cancelled context.
WorkerDropNever(w) == FALSE

\* The send's other branch: the context is done, the result is lost.
WorkerDrop(w) == poolCtx /\ GiveUp(w, "exited")

WorkerStep(w) ==
    \/ WorkerStop(w) \/ WorkerInputClosed(w) \/ WorkerReceive(w)
    \/ WorkerProcess(w) \/ WorkerSend(w) \/ WorkerDrop(w)

----------------------------------------------------------------------------
(* The closer goroutine and StopAndWait.                                   *)

CloseResults ==
    /\ closer = "wait"
    /\ outputClosed' = TRUE
    /\ closer' = "closeErr"
    /\ UNCHANGED <<inputCh, outputCh, errorCh, errorClosed, workerVars, ctlVars>>

\* A slip: the closer runs as soon as one worker is done.
CloseOutputEarly == (\E w \in Workers : ~Running(w)) /\ CloseResults

CloseOutput == WgZero /\ CloseResults

CloseErrors ==
    /\ closer = "closeErr"
    /\ errorClosed' = TRUE
    /\ closer' = "done"
    /\ UNCHANGED <<inputCh, outputCh, outputClosed, errorCh, workerVars, ctlVars>>

CloserStep == CloseOutput \/ CloseErrors

\* Stop, the first half of StopAndWait; the caller then enters Wait.
Stop ==
    /\ stopPc = "idle"
    /\ EarlyStop \/ started = "yes"
    /\ poolCtx' = TRUE
    /\ stopPc' = "waiting"
    /\ UNCHANGED <<inputCh, outVars, workerVars, started>>

WaitReturns ==
    /\ stopPc = "waiting"
    /\ WgZero
    /\ stopPc' = "returned"
    /\ UNCHANGED <<inputCh, outVars, workerVars, started, poolCtx>>

----------------------------------------------------------------------------
(* The environment: the producer and the two consumers.                    *)

Supply(r) ==
    /\ ~inputClosed
    /\ r \notin supplied
    /\ Len(inputCh) < InCap
    /\ inputCh' = Append(inputCh, r)
    /\ supplied' = supplied \cup {r}
    /\ UNCHANGED <<inputClosed, received, outVars, workerVars, ctlVars>>

CloseInput ==
    /\ ~inputClosed
    /\ inputClosed' = TRUE
    /\ UNCHANGED <<supplied, received, poolVars>>

Consume ==
    /\ outputCh # <<>>
    /\ outputCh' = Tail(outputCh)
    /\ received' = received \cup {Head(outputCh).rec}
    /\ UNCHANGED <<inputClosed, supplied, inputCh, outputClosed, errorCh, errorClosed,
                   closer, workerVars, ctlVars>>

ConsumeError ==
    /\ errorCh # <<>>
    /\ errorCh' = Tail(errorCh)
    /\ UNCHANGED <<envVars, inputCh, outputCh, outputClosed, errorClosed, closer,
                   workerVars, ctlVars>>

\* Nothing is left to do: the pool is allowed to rest here, and only here.
Terminated ==
    /\ inputClosed /\ closer = "done" /\ stopPc = "returned"
    /\ outputCh = <<>> /\ errorCh = <<>>
    /\ UNCHANGED vars

\* The pool's own steps say nothing about its environment: Pipeline.tla uses
\* them as they are.
PoolStep ==
    \/ \E w \in Workers : AddWorker(w) \/ WorkerStep(w)
    \/ BeginStart \/ FinishStart \/ CloserStep \/ Stop \/ WaitReturns

EnvStep ==
    \/ CloseInput \/ Consume \/ ConsumeError
    \/ \E r \in Records : Supply(r)

Next == (PoolStep /\ UNCHANGED envVars) \/ EnvStep \/ Terminated

Safety == Init /\ [][Next]_vars

\* Every goroutine of the pool that can take a step eventually takes one: the
\* Go scheduler starves no runnable goroutine, and a channel serves the
\* goroutines blocked on it in order.  The environment may stop at any time.
PoolFairness ==
    /\ \A w \in Workers : WF_vars((AddWorker(w) \/ WorkerStep(w)) /\ UNCHANGED envVars)
    /\ WF_vars((FinishStart \/ CloserStep) /\ UNCHANGED envVars)
    /\ WF_vars(WaitReturns /\ UNCHANGED envVars)

Spec == Safety /\ PoolFairness

----------------------------------------------------------------------------
InInput == {inputCh[i] : i \in 1 .. Len(inputCh)}
InOutput == {outputCh[i].rec : i \in 1 .. Len(outputCh)}
Busy == {w \in Workers : held[w] # NoJob}
InHand == {held[w].rec : w \in Busy}

\* Exactly-once: a record that entered the pool is in exactly one place - the
\* input buffer, one worker's hand, the output buffer, with the consumer, or
\* given up - and in one position there.  No interleaving of the workers over
\* the two channels (pool.go worker) duplicates a record or loses sight of it.
NoDuplicates ==
    /\ \A i, j \in 1 .. Len(inputCh) : inputCh[i] = inputCh[j] => i = j
    /\ \A i, j \in 1 .. Len(outputCh) : outputCh[i].rec = outputCh[j].rec => i = j
    /\ \A v, w \in Busy : held[v].rec = held[w].rec => v = w

Disjoint ==
    /\ InInput \cap (InHand \cup InOutput \cup received \cup dropped) = {}
    /\ InHand \cap (InOutput \cup received \cup dropped) = {}
    /\ InOutput \cap (received \cup dropped) = {}
    /\ received \cap dropped = {}

Located == supplied = InInput \cup InHand \cup InOutput \cup received \cup dropped

ExactlyOnce == NoDuplicates /\ Disjoint /\ Located

\* What makes the properties below inductive.  A worker has a record in hand
\* exactly while it processes or sends it.
HandsMatch ==
    \A w \in Workers :
        /\ wpc[w] \in {"process", "send"} => held[w] \in Job
        /\ wpc[w] \notin {"process", "send"} => held[w] = NoJob

\* The stages of the pool follow one another: Start adds every worker before
\* the closer begins to wait, each closed flag follows the closer, the closer
\* passes its wait only when all workers have exited, and without a
\* cancellation a worker exits only at the end of a drained, closed input.
Lifecycle ==
    /\ started = "no" => \A w \in Workers : wpc[w] = "none"
    /\ started = "yes" <=> closer # "none"
    /\ started = "yes" => \A w \in Workers : wpc[w] # "none"
    /\ outputClosed <=> closer \in {"closeErr", "done"}
    /\ errorClosed <=> closer = "done"
    /\ outputClosed => \A w \in Workers : wpc[w] = "exited"
    /\ ~poolCtx /\ (\E w \in Workers : wpc[w] = "exited") => inputClosed /\ inputCh = <<>>
    /\ ~poolCtx => dropped = {}

IndInv == TypeOK /\ HandsMatch /\ Lifecycle /\ ExactlyOnce

\* The closer closes outputCh and errorCh only when no worker can still send
\* on them: a send on a closed channel would panic (pool.go 119-123, 153, 178).
ClosedMeansDone ==
    outputClosed \/ errorClosed =>
        /\ \A w \in Workers : wpc[w] = "exited" /\ held[w] = NoJob
        /\ started = "yes"

\* A consumer that ranges over Results until it is closed has seen a result
\* for every record that was supplied, unless the pool was cancelled.
CompleteDelivery ==
    outputClosed /\ outputCh = <<>> /\ ~poolCtx => inputClosed /\ received = supplied

\* Results are lost only to cancellation, at most one per worker: a worker
\* that gives a result up exits at once.
LossBounded ==
    /\ dropped # {} => poolCtx
    /\ Cardinality(dropped) <= Cardinality({w \in Workers : wpc[w] = "exited"})

\* StopAndWait returns even when nobody reads Results or Errors any more and
\* every buffer is full.
StopReturns == (stopPc = "waiting") ~> (stopPc = "returned")

\* Once the input is closed, a consumer that keeps ranging over Results gets to
\* the end of both channels: a full errorCh that nobody reads holds no worker back.
Drains ==
    WF_vars(Consume) =>
        ((started # "no" /\ inputClosed) ~> (outputClosed /\ errorClosed /\ outputCh = <<>>))
============================================================================
