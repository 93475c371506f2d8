--------------------------- MODULE SemaphorePool ---------------------------
(***************************************************************************)
(* internal/worker/semaphore.go: a worker pool with a second set of        *)
(* workers that take a slot of a semaphore around the processor.           *)
(* StartWithBackpressure calls Pool.Start, which runs the plain workers of *)
(* WorkerPool and the closer, and then adds the semaphore workers to the   *)
(* same WaitGroup.  Both kinds take records from inputCh and send results  *)
(* to outputCh.  Stop may find Start returned and the second set not yet   *)
(* running; a send on a channel the closer has closed panics.              *)
(***************************************************************************)
EXTENDS WorkerPool

CONSTANTS
    MaxConcurrent       \* capacity of the semaphore

ASSUME MaxConcurrentAssumption == MaxConcurrent \in Nat \ {0}

VARIABLES
    spc,                \* where each semaphore worker is; they are named as
                        \* the plain workers are, by their index
    sheld,              \* the record or result it has in hand
    slots,              \* taken slots: what Semaphore.slots holds
    lost,               \* records given up while waiting for a slot
    panicked,           \* the program has panicked
    early               \* Stop came before StartWithBackpressure had returned

semVars == <<spc, sheld, slots, lost, panicked>>
allVars == <<vars, semVars, early>>

SemRunning(w) == spc[w] \in {"select", "acquire", "process", "release", "send"}

\* The WaitGroup counts both kinds of workers.
SemWgZero == WgZero /\ \A w \in Workers : ~SemRunning(w)

Holders == {w \in Workers : spc[w] \in {"process", "release"}}

----------------------------------------------------------------------------
SemInit ==
    /\ Init
    /\ spc = [w \in Workers |-> "none"]
    /\ sheld = [w \in Workers |-> NoJob]
    /\ slots = 0 /\ lost = {} /\ panicked = FALSE /\ early = FALSE

----------------------------------------------------------------------------
\* StartWithBackpressure, once Start has returned.
AddSemWorker(w) ==
    /\ started = "yes"
    /\ spc[w] = "none"
    /\ spc' = [spc EXCEPT ![w] = "select"]
    /\ UNCHANGED <<poolVars, sheld, slots, lost, panicked>>

Moves(w, pc) == spc' = [spc EXCEPT ![w] = pc]

\* workerWithSemaphore: the select on the context and the input channel.
SemStop(w) ==
    /\ spc[w] = "select"
    /\ poolCtx
    /\ Moves(w, "exited")
    /\ UNCHANGED <<poolVars, sheld, slots, lost, panicked>>

SemInputClosed(w) ==
    /\ spc[w] = "select"
    /\ inputClosed /\ inputCh = <<>>
    /\ Moves(w, "exited")
    /\ UNCHANGED <<poolVars, sheld, slots, lost, panicked>>

SemReceive(w) ==
    /\ spc[w] = "select"
    /\ inputCh # <<>>
    /\ inputCh' = Tail(inputCh)
    /\ sheld' = [sheld EXCEPT ![w] = [rec |-> Head(inputCh), outcome |-> "pending"]]
    /\ Moves(w, "acquire")
    /\ UNCHANGED <<outVars, workerVars, ctlVars, slots, lost, panicked>>

\* AcquireContext: a slot is free.
Acquire(w) ==
    /\ spc[w] = "acquire"
    /\ slots < MaxConcurrent
    /\ slots' = slots + 1
    /\ Moves(w, "process")
    /\ UNCHANGED <<poolVars, sheld, lost, panicked>>

\* AcquireContext: the context is done.  The record in hand is lost.
AcquireCanceled(w) ==
    /\ spc[w] = "acquire"
    /\ poolCtx
    /\ lost' = lost \cup {sheld[w].rec}
    /\ sheld' = [sheld EXCEPT ![w] = NoJob]
    /\ Moves(w, "exited")
    /\ UNCHANGED <<poolVars, slots, panicked>>

\* processRecord, as for the plain workers; the non-blocking send of an error
\* panics when errorCh is closed.
SemProcess(w) ==
    /\ spc[w] = "process"
    /\ \E o \in Outcomes \cup (IF poolCtx THEN {"error"} ELSE {}) :
          /\ sheld' = [sheld EXCEPT ![w] = [rec |-> sheld[w].rec, outcome |-> o]]
          /\ panicked' = (o = "error" /\ errorClosed)
          /\ errorCh' = IF o = "error" /\ ~errorClosed /\ Len(errorCh) < ErrCap
                        THEN Append(errorCh, sheld[w].rec) ELSE errorCh
    /\ Moves(w, "release")
    /\ UNCHANGED <<inputCh, outputCh, outputClosed, errorClosed, closer, workerVars,
                   ctlVars, slots, lost>>

PutSlot(w, n) ==
    /\ spc[w] = "release"
    /\ slots' = slots - n
    /\ Moves(w, "send")
    /\ UNCHANGED <<poolVars, sheld, lost, panicked>>

\* A slip: the slot of a failed record is kept.
ReleaseOnSuccess(w) == PutSlot(w, IF sheld[w].outcome = "error" THEN 0 ELSE 1)

Release(w) == slots > 0 /\ PutSlot(w, 1)

SemPutResult(w) ==
    /\ spc[w] = "send"
    /\ ~outputClosed
    /\ Len(outputCh) < OutCap
    /\ outputCh' = Append(outputCh, sheld[w])
    /\ UNCHANGED <<inputCh, outputClosed, errorCh, errorClosed, closer, workerVars,
                   ctlVars, slots, lost, panicked>>

\* A slip: the result stays in hand, and the record is processed again.
SemSendTwice(w) == SemPutResult(w) /\ Moves(w, "acquire") /\ UNCHANGED sheld

SemSend(w) ==
    /\ SemPutResult(w)
    /\ sheld' = [sheld EXCEPT ![w] = NoJob]
    /\ Moves(w, "select")

\* A send on the closed outputCh: the select may pick it, and panics.
SemSendPanics(w) ==
    /\ spc[w] = "send"
    /\ outputClosed
    /\ panicked' = TRUE
    /\ UNCHANGED <<poolVars, spc, sheld, slots, lost>>

SemDrop(w) ==
    /\ spc[w] = "send"
    /\ poolCtx
    /\ dropped' = dropped \cup {sheld[w].rec}
    /\ sheld' = [sheld EXCEPT ![w] = NoJob]
    /\ Moves(w, "exited")
    /\ UNCHANGED <<inputCh, outVars, wpc, held, ctlVars, slots, lost, panicked>>

SemWorkerStep(w) ==
    \/ AddSemWorker(w) \/ SemStop(w) \/ SemInputClosed(w) \/ SemReceive(w)
    \/ Acquire(w) \/ AcquireCanceled(w) \/ SemProcess(w) \/ Release(w)
    \/ SemSend(w) \/ SemSendPanics(w) \/ SemDrop(w)

----------------------------------------------------------------------------
(* The steps of WorkerPool, where they wait for the WaitGroup or may be    *)
(* called during StartWithBackpressure.                                    *)

\* A slip: the closer counts the plain workers only.
CloseWithoutSem == CloseOutput

CloseBoth == SemWgZero /\ CloseOutput

\* A slip: the caller waits for the plain workers only.
WaitPlainReturns == WaitReturns

WaitBothReturn == SemWgZero /\ WaitReturns

StopBoth == Stop /\ early' = (\E w \in Workers : spc[w] = "none")

PoolOwnStep ==
    \/ \E w \in Workers : AddWorker(w) \/ WorkerStep(w)
    \/ BeginStart \/ FinishStart \/ CloseBoth \/ CloseErrors \/ WaitBothReturn

SemNext ==
    \/ /\ ~panicked
       /\ \/ PoolOwnStep /\ UNCHANGED <<envVars, semVars, early>>
          \/ StopBoth /\ UNCHANGED <<envVars, semVars>>
          \/ (\E w \in Workers : SemWorkerStep(w)) /\ UNCHANGED <<envVars, early>>
          \/ EnvStep /\ UNCHANGED <<semVars, early>>
    \/ (Terminated \/ panicked) /\ UNCHANGED allVars

SemSafety == SemInit /\ [][SemNext]_allVars

\* As in WorkerPool: no goroutine of the pool is starved.
SemSpec ==
    /\ SemSafety
    /\ \A w \in Workers :
         /\ WF_allVars(~panicked /\ (AddWorker(w) \/ WorkerStep(w))
                         /\ UNCHANGED <<envVars, semVars, early>>)
         /\ WF_allVars(~panicked /\ SemWorkerStep(w) /\ UNCHANGED <<envVars, early>>)
    /\ WF_allVars(~panicked /\ (FinishStart \/ CloseBoth \/ CloseErrors)
                    /\ UNCHANGED <<envVars, semVars, early>>)
    /\ WF_allVars(~panicked /\ WaitBothReturn /\ UNCHANGED <<envVars, semVars, early>>)

----------------------------------------------------------------------------
SemBusy == {w \in Workers : sheld[w] # NoJob}

\* Two kinds of workers on the same two channels, and records given up at two
\* places: still no record is duplicated, and each is in one place.  Records are
\* given up only under a cancellation, at most one per worker of either kind.
SemExactlyOnce ==
    LET semHand == {sheld[w].rec : w \in SemBusy}
        plain == InInput \cup InHand \cup InOutput \cup received \cup dropped
        gone(pcs) == Cardinality({w \in Workers : pcs[w] = "exited"})
    IN /\ NoDuplicates /\ Disjoint
       /\ \A v, w \in SemBusy : sheld[v].rec = sheld[w].rec => v = w
       /\ semHand \cap (plain \cup lost) = {} /\ lost \cap plain = {}
       /\ supplied = plain \cup semHand \cup lost
       /\ dropped \cup lost # {} => poolCtx
       /\ Cardinality(dropped \cup lost) <= gone(wpc) + gone(spc)

\* The slots taken are those of the workers between Acquire and Release, so that
\* Release never finds the semaphore empty, where it would panic
\* (semaphore.go 52-58), and no slot leaks on a path out of the loop.  The plain
\* workers, which Start launches beside the others, take none (semaphore.go 92).
SlotsHeld == slots = Cardinality(Holders) /\ slots <= MaxConcurrent

\* Only a Stop that comes before StartWithBackpressure has returned can make a
\* semaphore worker send on a closed channel: the closer, started before the
\* second set of workers, may close early in no other way, although the input
\* may end at any time (semaphore.go 91-103, pool.go 119-123).
NoPanic == panicked => early

\* A consumer that keeps ranging over Results gets to their end: no worker
\* waits for a slot for ever, and a full errorCh holds none back.
SemDrains ==
    WF_allVars(Consume /\ UNCHANGED <<semVars, early>>) =>
        ((started # "no" /\ inputClosed) ~>
            (panicked \/ (outputClosed /\ errorClosed /\ outputCh = <<>>)))

\* A caller of StopAndWait returns, whatever the workers wait for, and then none
\* of either kind is running, unless the call was early.
SemStopWaits ==
    /\ [](stopPc = "returned" => SemWgZero \/ early)
    /\ (stopPc = "waiting") ~> (stopPc = "returned" \/ panicked)
============================================================================
