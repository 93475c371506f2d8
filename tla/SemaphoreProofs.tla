--------------------------- MODULE SemaphoreProofs ---------------------------
(***************************************************************************)
(* Proofs about the pool with semaphore workers of SemaphorePool.tla, for  *)
(* every number of workers and records, every capacity and every number of *)
(* slots.  The steps of the plain workers and of the environment are steps *)
(* of WorkerPool, and what WorkerPoolProofs proves of them is used here.   *)
(***************************************************************************)
EXTENDS SemaphorePool, WorkerPoolProofs

\* The steps that the pool without semaphore workers takes, too.
PlainStep == (PoolOwnStep /\ UNCHANGED envVars) \/ EnvStep \/ UNCHANGED vars

\* Every step is one that leaves the semaphore workers alone, or one of theirs.
LEMMA StepIs ==
  ASSUME [SemNext]_allVars
  PROVE  \/ PlainStep /\ UNCHANGED <<semVars, early>>
         \/ ~panicked /\ StopBoth /\ UNCHANGED <<envVars, semVars>>
         \/ ~panicked /\ (\E w \in Workers : SemWorkerStep(w)) /\ UNCHANGED <<envVars, early>>
  BY DEF SemNext, allVars, PlainStep, Terminated

LEMMA PlainIsNext ==
  /\ PlainStep => [Next]_vars
  /\ StopBoth /\ UNCHANGED envVars => [Next]_vars
<1>1. PoolOwnStep => PoolStep
  BY DEF PoolOwnStep, CloseBoth, WaitBothReturn, PoolStep, CloserStep
<1> QED
  BY <1>1 DEF PlainStep, StopBoth, PoolStep, Next

-----------------------------------------------------------------------------
(* Types.                                                                  *)

SemPc == {"none", "select", "acquire", "process", "release", "send", "exited"}

SemTypeOK ==
    /\ spc \in [Workers -> SemPc]
    /\ sheld \in [Workers -> Job \cup {NoJob}]
    /\ slots \in Nat /\ lost \subseteq Records
    /\ panicked \in BOOLEAN /\ early \in BOOLEAN

\* A semaphore worker has a record in hand from the receipt to the send.
SemHandsMatch ==
    \A w \in Workers :
        /\ spc[w] \in {"acquire", "process", "release", "send"} => sheld[w] \in Job
        /\ spc[w] \notin {"acquire", "process", "release", "send"} => sheld[w] = NoJob

SemTypeInv == TypeInv /\ SemTypeOK /\ SemHandsMatch

LEMMA SemTypeInit == SemInit => SemTypeInv
<1> SUFFICES ASSUME SemInit PROVE SemTypeInv
  OBVIOUS
<1>1. TypeInv
  BY TypeInit DEF SemInit
<1>2. spc \in [Workers -> SemPc] /\ sheld \in [Workers -> Job \cup {NoJob}]
  BY DEF SemInit, SemPc
<1>3. SemTypeOK
  BY <1>2 DEF SemInit, SemTypeOK
<1>4. SemHandsMatch
  BY DEF SemInit, SemHandsMatch
<1> QED
  BY <1>1, <1>3, <1>4 DEF SemTypeInv

\* What one step of a semaphore worker does to that worker.
LEMMA SemMoves ==
  ASSUME SemTypeOK, SemHandsMatch, NEW w \in Workers, NEW pc \in SemPc, NEW job \in Job \cup {NoJob},
         spc' = [spc EXCEPT ![w] = pc], sheld' = [sheld EXCEPT ![w] = job],
         slots' \in Nat, lost' \subseteq Records, panicked' \in BOOLEAN, early' \in BOOLEAN,
         pc \in {"acquire", "process", "release", "send"} <=> job \in Job
  PROVE  SemTypeOK' /\ SemHandsMatch'
<1>1. spc'[w] = pc /\ sheld'[w] = job
  BY DEF SemTypeOK
<1>2. \A v \in Workers \ {w} : spc'[v] = spc[v] /\ sheld'[v] = sheld[v]
  BY DEF SemTypeOK
<1> QED
  BY <1>1, <1>2, NoJobAssumption DEF SemTypeOK, SemHandsMatch

\* What a step of a semaphore worker leaves of the pool's types.
LEMMA PoolTypeKept ==
  ASSUME TypeInv, UNCHANGED <<inputClosed, outputClosed, errorClosed, closer, wpc, held, ctlVars,
                              supplied, received>>,
         inputCh' \in Seq(Records), Len(inputCh') <= InCap,
         outputCh' \in Seq(Job), Len(outputCh') <= OutCap,
         errorCh' \in Seq(Records), Len(errorCh') <= ErrCap, dropped' \subseteq Records
  PROVE  TypeInv'
  BY DEF TypeInv, TypeOK, HandsMatch, ctlVars

LEMMA SemTypeSemStep ==
  ASSUME SemTypeInv, NEW w \in Workers, SemWorkerStep(w), UNCHANGED <<envVars, early>>
  PROVE  SemTypeInv'
<1>t. /\ TypeInv /\ SemTypeOK /\ SemHandsMatch
      /\ spc \in [Workers -> SemPc] /\ sheld \in [Workers -> Job \cup {NoJob}]
      /\ slots \in Nat /\ lost \subseteq Records /\ panicked \in BOOLEAN /\ early' \in BOOLEAN
      /\ sheld[w] \in Job \cup {NoJob} /\ NoJob \notin Job
  BY NoJobAssumption DEF SemTypeInv, SemTypeOK
<1>c. /\ inputCh \in Seq(Records) /\ Len(inputCh) <= InCap /\ Len(inputCh) \in Nat
      /\ outputCh \in Seq(Job) /\ Len(outputCh) <= OutCap /\ Len(outputCh) \in Nat
      /\ errorCh \in Seq(Records) /\ Len(errorCh) <= ErrCap /\ Len(errorCh) \in Nat
      /\ dropped \subseteq Records
      /\ InCap \in Nat /\ OutCap \in Nat /\ ErrCap \in Nat
  BY <1>t, LenProperties, CapAssumption DEF TypeInv, TypeOK
<1>e. UNCHANGED <<inputClosed, supplied, received>> /\ sheld = [sheld EXCEPT ![w] = sheld[w]]
  BY <1>t DEF envVars
<1>h. sheld[w] \in Job => sheld[w].rec \in Records
  BY DEF Job
<1>p. UNCHANGED poolVars => TypeInv'
  <2> SUFFICES ASSUME UNCHANGED poolVars PROVE TypeInv'
    OBVIOUS
  <2>1. /\ UNCHANGED <<inputCh, outputCh, errorCh, dropped>>
        /\ UNCHANGED <<inputClosed, outputClosed, errorClosed, closer, wpc, held, ctlVars, supplied, received>>
    BY <1>e DEF poolVars, outVars, workerVars
  <2> QED
    BY <1>t, <1>c, <2>1, PoolTypeKept
<1>1. CASE AddSemWorker(w) \/ SemStop(w) \/ SemInputClosed(w)
  <2>1. /\ UNCHANGED <<poolVars, sheld, slots, lost, panicked>> /\ spc[w] \in {"none", "select"}
        /\ \E pc \in {"select", "exited"} : spc' = [spc EXCEPT ![w] = pc]
    BY <1>1 DEF AddSemWorker, SemStop, SemInputClosed, Moves
  <2>2. sheld[w] = NoJob
    BY <1>t, <2>1 DEF SemHandsMatch
  <2>3. SemTypeOK' /\ SemHandsMatch'
    BY <1>t, <1>e, <2>1, <2>2, SemMoves DEF SemPc
  <2> QED
    BY <1>p, <2>1, <2>3 DEF SemTypeInv
<1>2. CASE SemReceive(w)
  <2> DEFINE job == [rec |-> Head(inputCh), outcome |-> "pending"]
  <2>1. /\ inputCh # <<>> /\ inputCh' = Tail(inputCh) /\ sheld' = [sheld EXCEPT ![w] = job]
        /\ spc' = [spc EXCEPT ![w] = "acquire"] /\ UNCHANGED <<slots, lost, panicked>>
        /\ UNCHANGED <<outputCh, outputClosed, errorCh, errorClosed, closer, wpc, held, dropped, ctlVars>>
    BY <1>2 DEF SemReceive, Moves, outVars, workerVars
  <2>2. Head(inputCh) \in Records /\ inputCh' \in Seq(Records) /\ Len(inputCh') = Len(inputCh) - 1
    BY <1>c, <2>1, HeadTailProperties
  <2>3. job \in Job
    BY <2>2 DEF Job
  <2> HIDE DEF job
  <2>4. SemTypeOK' /\ SemHandsMatch'
    BY <1>t, <2>1, <2>3, SemMoves DEF SemPc
  <2>5. Len(inputCh') <= InCap
    BY <1>c, <2>2
  <2>6. TypeInv'
    BY <1>t, <1>c, <1>e, <2>1, <2>2, <2>5, PoolTypeKept
  <2> QED
    BY <2>4, <2>6 DEF SemTypeInv
<1>3. CASE Acquire(w) \/ Release(w)
  <2>1. /\ UNCHANGED <<poolVars, sheld, lost, panicked>> /\ spc[w] \in {"acquire", "release"}
        /\ slots' \in Nat /\ \E pc \in {"process", "send"} : spc' = [spc EXCEPT ![w] = pc]
    BY <1>3, <1>t DEF Acquire, Release, PutSlot, Moves
  <2>2. sheld[w] \in Job
    BY <1>t, <2>1 DEF SemHandsMatch
  <2>3. SemTypeOK' /\ SemHandsMatch'
    BY <1>t, <1>e, <2>1, <2>2, SemMoves DEF SemPc
  <2> QED
    BY <1>p, <2>1, <2>3 DEF SemTypeInv
<1>4. CASE AcquireCanceled(w)
  <2>1. /\ UNCHANGED <<poolVars, slots, panicked>> /\ spc[w] = "acquire"
        /\ lost' = lost \cup {sheld[w].rec} /\ sheld' = [sheld EXCEPT ![w] = NoJob]
        /\ spc' = [spc EXCEPT ![w] = "exited"]
    BY <1>4 DEF AcquireCanceled, Moves
  <2>2. sheld[w] \in Job
    BY <1>t, <2>1 DEF SemHandsMatch
  <2>3. lost' \subseteq Records
    BY <1>t, <1>h, <2>1, <2>2
  <2>4. SemTypeOK' /\ SemHandsMatch'
    BY <1>t, <2>1, <2>3, SemMoves DEF SemPc
  <2> QED
    BY <1>p, <2>1, <2>4 DEF SemTypeInv
<1>5. CASE SemProcess(w)
  <2>1. PICK o \in AllOutcomes :
          /\ sheld' = [sheld EXCEPT ![w] = [rec |-> sheld[w].rec, outcome |-> o]]
          /\ panicked' = (o = "error" /\ errorClosed)
          /\ errorCh' = IF o = "error" /\ ~errorClosed /\ Len(errorCh) < ErrCap
                        THEN Append(errorCh, sheld[w].rec) ELSE errorCh
    BY <1>5, OutcomesAssumption DEF SemProcess, AllOutcomes
  <2> DEFINE job == [rec |-> sheld[w].rec, outcome |-> o]
  <2>2. /\ spc[w] = "process" /\ spc' = [spc EXCEPT ![w] = "release"] /\ UNCHANGED <<slots, lost>>
        /\ UNCHANGED <<inputCh, outputCh, outputClosed, errorClosed, closer, wpc, held, dropped, ctlVars>>
    BY <1>5 DEF SemProcess, Moves, workerVars
  <2>3. sheld[w] \in Job /\ sheld[w].rec \in Records
    BY <1>t, <1>h, <2>2 DEF SemHandsMatch
  <2>4. job \in Job
    BY <2>3 DEF Job
  <2>5. sheld' = [sheld EXCEPT ![w] = job]
    BY <2>1
  <2> HIDE DEF job
  <2>6. panicked' \in BOOLEAN
    BY <2>1
  <2>7. SemTypeOK' /\ SemHandsMatch'
    BY <1>t, <2>2, <2>4, <2>5, <2>6, SemMoves DEF SemPc
  <2>8. errorCh' \in Seq(Records) /\ Len(errorCh') <= ErrCap
    <3>1. CASE errorCh' = errorCh
      BY <1>c, <3>1
    <3>2. CASE errorCh' = Append(errorCh, sheld[w].rec) /\ Len(errorCh) < ErrCap
      BY <1>c, <2>3, <3>2, AppendProperties
    <3> QED
      BY <2>1, <3>1, <3>2
  <2>9. TypeInv'
    BY <1>t, <1>c, <1>e, <2>2, <2>8, PoolTypeKept
  <2> QED
    BY <2>7, <2>9 DEF SemTypeInv
<1>6. CASE SemSend(w)
  <2>1. /\ spc[w] = "send" /\ Len(outputCh) < OutCap /\ outputCh' = Append(outputCh, sheld[w])
        /\ sheld' = [sheld EXCEPT ![w] = NoJob] /\ spc' = [spc EXCEPT ![w] = "select"]
        /\ UNCHANGED <<slots, lost, panicked>>
        /\ UNCHANGED <<inputCh, errorCh, outputClosed, errorClosed, closer, wpc, held, dropped, ctlVars>>
    BY <1>6 DEF SemSend, SemPutResult, Moves, workerVars
  <2>2. sheld[w] \in Job
    BY <1>t, <2>1 DEF SemHandsMatch
  <2>3. SemTypeOK' /\ SemHandsMatch'
    BY <1>t, <2>1, SemMoves DEF SemPc
  <2>4. outputCh' \in Seq(Job) /\ Len(outputCh') <= OutCap
    BY <1>c, <2>1, <2>2, AppendProperties
  <2>5. TypeInv'
    BY <1>t, <1>c, <1>e, <2>1, <2>4, PoolTypeKept
  <2> QED
    BY <2>3, <2>5 DEF SemTypeInv
<1>7. CASE SemSendPanics(w)
  BY <1>7, <1>t, <1>p DEF SemSendPanics, SemTypeInv, SemTypeOK, SemHandsMatch
<1>8. CASE SemDrop(w)
  <2>1. /\ spc[w] = "send" /\ dropped' = dropped \cup {sheld[w].rec}
        /\ sheld' = [sheld EXCEPT ![w] = NoJob] /\ spc' = [spc EXCEPT ![w] = "exited"]
        /\ UNCHANGED <<slots, lost, panicked>>
        /\ UNCHANGED <<inputCh, outputCh, errorCh, outputClosed, errorClosed, closer, wpc, held, ctlVars>>
    BY <1>8 DEF SemDrop, Moves, outVars
  <2>2. sheld[w] \in Job
    BY <1>t, <2>1 DEF SemHandsMatch
  <2>3. SemTypeOK' /\ SemHandsMatch'
    BY <1>t, <2>1, SemMoves DEF SemPc
  <2>4. dropped' \subseteq Records
    BY <1>c, <1>h, <2>1, <2>2
  <2>5. TypeInv'
    BY <1>t, <1>c, <1>e, <2>1, <2>4, PoolTypeKept
  <2> QED
    BY <2>3, <2>5 DEF SemTypeInv
<1> QED
  BY <1>1, <1>2, <1>3, <1>4, <1>5, <1>6, <1>7, <1>8 DEF SemWorkerStep

LEMMA SemTypeStep == SemTypeInv /\ [SemNext]_allVars => SemTypeInv'
<1> SUFFICES ASSUME SemTypeInv, [SemNext]_allVars PROVE SemTypeInv'
  OBVIOUS
<1>1. CASE PlainStep /\ UNCHANGED <<semVars, early>>
  <2>1. TypeInv'
    BY <1>1, PlainIsNext, TypeStep DEF SemTypeInv
  <2> QED
    BY <1>1, <2>1 DEF SemTypeInv, SemTypeOK, SemHandsMatch, semVars
<1>2. CASE StopBoth /\ UNCHANGED <<envVars, semVars>>
  <2>1. TypeInv'
    BY <1>2, PlainIsNext, TypeStep DEF SemTypeInv
  <2>2. early' \in BOOLEAN
    BY <1>2 DEF StopBoth
  <2> QED
    BY <1>2, <2>1, <2>2 DEF SemTypeInv, SemTypeOK, SemHandsMatch, semVars
<1> QED
  BY <1>1, <1>2, StepIs, SemTypeSemStep

-----------------------------------------------------------------------------
(* The slots.                                                              *)

LEMMA HoldersFinite == IsFiniteSet(Holders) /\ Cardinality(Holders) \in Nat
<1>1. Holders \in SUBSET Workers
  BY DEF Holders
<1> QED
  BY <1>1, WorkersAssumption, FS_Subset, FS_CardinalityType

LEMMA SlotsStep == SemTypeInv /\ SlotsHeld /\ [SemNext]_allVars => SlotsHeld'
<1> SUFFICES ASSUME SemTypeInv, SlotsHeld, [SemNext]_allVars PROVE SlotsHeld'
  OBVIOUS
<1>t. spc \in [Workers -> SemPc] /\ slots \in Nat /\ MaxConcurrent \in Nat
  BY MaxConcurrentAssumption DEF SemTypeInv, SemTypeOK
<1>h. slots = Cardinality(Holders) /\ slots <= MaxConcurrent /\ IsFiniteSet(Holders)
  BY HoldersFinite DEF SlotsHeld
<1>1. ASSUME UNCHANGED <<spc, slots>> PROVE SlotsHeld'
  BY <1>1 DEF SlotsHeld, Holders
\* A worker moves on without entering or leaving the part that holds a slot.
<1>2. ASSUME NEW w \in Workers, NEW pc \in SemPc, spc' = [spc EXCEPT ![w] = pc], UNCHANGED slots,
             spc[w] \in {"process", "release"} <=> pc \in {"process", "release"}
      PROVE  SlotsHeld'
  <2>1. Holders' = Holders
    BY <1>2, <1>t DEF Holders
  <2> QED
    BY <1>2, <2>1 DEF SlotsHeld
<1>3. ASSUME NEW w \in Workers, Acquire(w) PROVE SlotsHeld'
  <2>1. spc[w] = "acquire" /\ spc' = [spc EXCEPT ![w] = "process"] /\ slots < MaxConcurrent /\ slots' = slots + 1
    BY <1>3 DEF Acquire, Moves
  <2>2. Holders' = Holders \cup {w} /\ w \notin Holders
    BY <1>t, <2>1 DEF Holders
  <2>3. Cardinality(Holders') = Cardinality(Holders) + 1
    BY <1>h, <2>2, FS_AddElement
  <2> QED
    BY <1>h, <1>t, <2>1, <2>3 DEF SlotsHeld
<1>4. ASSUME NEW w \in Workers, Release(w) PROVE SlotsHeld'
  <2>1. spc[w] = "release" /\ spc' = [spc EXCEPT ![w] = "send"] /\ slots' = slots - 1
    BY <1>4 DEF Release, PutSlot, Moves
  <2>2. Holders' = Holders \ {w} /\ w \in Holders
    BY <1>t, <2>1 DEF Holders
  <2>3. Cardinality(Holders') = Cardinality(Holders) - 1
    BY <1>h, <2>2, FS_RemoveElement
  <2> QED
    BY <1>h, <1>t, <2>1, <2>3 DEF SlotsHeld
<1>5. ASSUME NEW w \in Workers, SemWorkerStep(w) PROVE SlotsHeld'
  <2>1. CASE AddSemWorker(w) \/ SemStop(w) \/ SemInputClosed(w) \/ SemReceive(w)
    BY <1>2, <2>1 DEF AddSemWorker, SemStop, SemInputClosed, SemReceive, Moves, SemPc
  <2>2. CASE AcquireCanceled(w) \/ SemProcess(w) \/ SemSend(w) \/ SemDrop(w)
    BY <1>2, <2>2 DEF AcquireCanceled, SemProcess, SemSend, SemPutResult, SemDrop, Moves, SemPc
  <2>3. CASE SemSendPanics(w)
    BY <1>1, <2>3 DEF SemSendPanics
  <2> QED
    BY <1>3, <1>4, <1>5, <2>1, <2>2, <2>3 DEF SemWorkerStep
<1> QED
  BY <1>1, <1>5, StepIs DEF semVars

\* The slots taken are those of the workers between Acquire and Release: none leaks, and
\* Release never finds the semaphore empty (semaphore.go 46-58, 117-135).
THEOREM SlotsCorrect == SemSafety => []SlotsHeld
<1>1. SemInit => SlotsHeld
  <2> SUFFICES ASSUME SemInit PROVE SlotsHeld
    OBVIOUS
  <2>1. slots = 0 /\ Holders = {}
    BY DEF SemInit, Holders
  <2> QED
    BY <2>1, FS_EmptySet, MaxConcurrentAssumption DEF SlotsHeld
<1> QED
  BY SemTypeInit, SemTypeStep, <1>1, SlotsStep, PTL DEF SemSafety

-----------------------------------------------------------------------------
(* A closed channel.                                                       *)

\* As long as no Stop was early: after a cancellation every semaphore worker was added
\* already, and once the results are closed the workers that may still be added find a
\* closed and drained input.
Guarded ==
    /\ early => stopPc # "idle"
    /\ ~early =>
         /\ poolCtx => \A w \in Workers : spc[w] # "none"
         /\ outputClosed =>
              \/ \A w \in Workers : spc[w] = "exited"
              \/ /\ inputClosed /\ inputCh = <<>>
                 /\ \A w \in Workers : spc[w] \in {"none", "select", "exited"}

PanicInv == Lifecycle /\ Guarded /\ NoPanic

\* The steps of the semaphore workers keep the stages of the pool.
LEMMA LifecycleSemStep ==
  ASSUME SemTypeInv, Lifecycle, NEW w \in Workers, SemWorkerStep(w), UNCHANGED <<envVars, early>>
  PROVE  Lifecycle'
<1>1. UNCHANGED <<started, wpc, closer, outputClosed, errorClosed, poolCtx, inputClosed>>
  BY DEF SemWorkerStep, AddSemWorker, SemStop, SemInputClosed, SemReceive, Acquire, AcquireCanceled,
     SemProcess, Release, PutSlot, SemSend, SemPutResult, SemSendPanics, SemDrop,
     poolVars, outVars, workerVars, ctlVars, envVars
<1>2. inputCh = <<>> => inputCh' = <<>>
  BY DEF SemWorkerStep, AddSemWorker, SemStop, SemInputClosed, SemReceive, Acquire, AcquireCanceled,
     SemProcess, Release, PutSlot, SemSend, SemPutResult, SemSendPanics, SemDrop,
     poolVars
<1>3. ~poolCtx => UNCHANGED dropped
  BY DEF SemWorkerStep, AddSemWorker, SemStop, SemInputClosed, SemReceive, Acquire, AcquireCanceled,
     SemProcess, Release, PutSlot, SemSend, SemPutResult, SemSendPanics, SemDrop,
     poolVars, workerVars
<1> QED
  BY <1>1, <1>2, <1>3 DEF Lifecycle

\* Of the pool's steps only Stop cancels the context.
LEMMA PlainKeepsContext == PlainStep => poolCtx' = poolCtx /\ (stopPc' = "idle" => stopPc = "idle")
  BY DEF PlainStep, PoolOwnStep, AddWorker, WorkerStep, WorkerStop, WorkerInputClosed, InputEnds,
     WorkerReceive, WorkerProcess, Answer, WorkerSend, PutResult, WorkerDrop, GiveUp, BeginStart,
     FinishStart, CloseBoth, CloseOutput, CloseResults, CloseErrors, WaitBothReturn, WaitReturns,
     EnvStep, CloseInput, Consume, ConsumeError, Supply, ctlVars, poolVars, vars

LEMMA PanicStep == SemTypeInv /\ PanicInv /\ [SemNext]_allVars => PanicInv'
<1> SUFFICES ASSUME SemTypeInv, PanicInv, [SemNext]_allVars PROVE PanicInv'
  OBVIOUS
<1>t. TypeInv /\ Lifecycle /\ Guarded /\ NoPanic /\ spc \in [Workers -> SemPc]
  BY DEF SemTypeInv, SemTypeOK, PanicInv
<1>1. ASSUME PlainStep, UNCHANGED <<semVars, early>> PROVE PanicInv'
  <2>1. Lifecycle'
    BY <1>1, <1>t, PlainIsNext, LifecycleStep
  <2>2. UNCHANGED <<spc, panicked, early>>
    BY <1>1 DEF semVars
  \* Only the closer closes the results; nothing is put into a closed input.
  <2>a. poolCtx' = poolCtx /\ (stopPc' = "idle" => stopPc = "idle")
    BY <1>1, PlainKeepsContext
  <2>b. outputClosed' = outputClosed \/ (CloseBoth /\ UNCHANGED envVars)
    BY <1>1 DEF PlainStep, PoolOwnStep, AddWorker, WorkerStep, WorkerStop, WorkerInputClosed, InputEnds,
       WorkerReceive, WorkerProcess, Answer, WorkerSend, PutResult, WorkerDrop, GiveUp, BeginStart,
       FinishStart, CloseErrors, WaitBothReturn, WaitReturns, EnvStep, CloseInput, Consume, ConsumeError,
       Supply, outVars, poolVars, vars
  <2>3. poolCtx' = poolCtx /\ (outputClosed' # outputClosed => CloseBoth /\ UNCHANGED envVars)
    BY <2>a, <2>b
  <2>4. inputClosed /\ inputCh = <<>> => inputClosed' /\ inputCh' = <<>>
    BY <1>1 DEF PlainStep, PoolOwnStep, AddWorker, WorkerStep, WorkerStop, WorkerInputClosed, InputEnds,
       WorkerReceive, WorkerProcess, Answer, WorkerSend, PutResult, WorkerDrop, GiveUp, BeginStart,
       FinishStart, CloseBoth, CloseOutput, CloseResults, CloseErrors, WaitBothReturn, WaitReturns,
       EnvStep, CloseInput, Consume, ConsumeError, Supply, envVars, outVars, poolVars, vars
  <2>5. CASE outputClosed' = outputClosed
    BY <1>t, <2>1, <2>2, <2>3, <2>4, <2>5, <2>a DEF PanicInv, Guarded, NoPanic
  <2>6. CASE CloseBoth /\ UNCHANGED envVars
    <3>1. /\ \A w \in Workers : ~SemRunning(w) /\ ~Running(w)
          /\ closer = "wait" /\ UNCHANGED <<inputCh, inputClosed, wpc>>
      BY <2>6 DEF CloseBoth, SemWgZero, WgZero, CloseOutput, CloseResults, workerVars, envVars
    <3>2. \A w \in Workers : spc[w] \in {"none", "exited"}
      BY <1>t, <3>1 DEF SemRunning, SemPc
    <3>3. \A w \in Workers : wpc[w] = "exited"
      BY <1>t, <3>1 DEF Lifecycle, Running, TypeInv, TypeOK
    <3>4. ~poolCtx => inputClosed /\ inputCh = <<>>
      BY <1>t, <3>3, WorkersAssumption DEF Lifecycle
    <3>5. ~early /\ poolCtx => \A w \in Workers : spc[w] = "exited"
      BY <1>t, <3>2 DEF Guarded
    <3> QED
      BY <1>t, <2>1, <2>2, <2>3, <2>a, <3>1, <3>2, <3>4, <3>5 DEF PanicInv, Guarded, NoPanic
  <2> QED
    BY <2>3, <2>5, <2>6
<1>2. ASSUME ~panicked, StopBoth, UNCHANGED <<envVars, semVars>> PROVE PanicInv'
  <2>1. Lifecycle'
    BY <1>2, <1>t, PlainIsNext, LifecycleStep
  <2>2. /\ UNCHANGED <<spc, panicked, inputCh, inputClosed, outputClosed>>
        /\ early' = (\E w \in Workers : spc[w] = "none")
    BY <1>2 DEF StopBoth, Stop, semVars, envVars, outVars
  <2>3. ~early /\ stopPc' # "idle"
    BY <1>2, <1>t DEF StopBoth, Stop, Guarded
  <2> QED
    BY <1>t, <2>1, <2>2, <2>3 DEF PanicInv, Guarded, NoPanic
<1>3. ASSUME ~panicked, NEW w \in Workers, SemWorkerStep(w), UNCHANGED <<envVars, early>> PROVE PanicInv'
  <2>1. Lifecycle'
    BY <1>3, <1>t, LifecycleSemStep
  <2>2. UNCHANGED <<early, stopPc, poolCtx, outputClosed, errorClosed, inputClosed, started>>
    BY <1>3 DEF SemWorkerStep, AddSemWorker, SemStop, SemInputClosed, SemReceive, Acquire,
       AcquireCanceled, SemProcess, Release, PutSlot, SemSend, SemPutResult, SemSendPanics, SemDrop,
       poolVars, outVars, ctlVars, envVars
  <2>3. CASE early
    BY <1>t, <2>1, <2>2, <2>3 DEF PanicInv, Guarded, NoPanic
  <2>4. CASE ~early
    <3>1. /\ \A v \in Workers : v # w => spc'[v] = spc[v]
          /\ spc'[w] # "none"
      BY <1>3, <1>t DEF SemWorkerStep, AddSemWorker, SemStop, SemInputClosed, SemReceive, Acquire,
         AcquireCanceled, SemProcess, Release, PutSlot, SemSend, SemPutResult, SemSendPanics, SemDrop, Moves
    <3>2. CASE ~outputClosed
      <4>1. ~panicked'
        BY <1>3, <1>t, <3>2 DEF SemWorkerStep, AddSemWorker, SemStop, SemInputClosed, SemReceive, Acquire,
           AcquireCanceled, SemProcess, Release, PutSlot, SemSend, SemPutResult, SemSendPanics, SemDrop,
           Lifecycle
      <4> QED
        BY <1>t, <2>1, <2>2, <2>4, <3>1, <3>2, <4>1 DEF PanicInv, Guarded, NoPanic
    <3>3. CASE outputClosed
      <4>1. spc[w] # "exited"
        BY <1>3 DEF SemWorkerStep, AddSemWorker, SemStop, SemInputClosed, SemReceive, Acquire,
           AcquireCanceled, SemProcess, Release, PutSlot, SemSend, SemPutResult, SemSendPanics, SemDrop
      <4>2. /\ inputClosed /\ inputCh = <<>>
            /\ \A v \in Workers : spc[v] \in {"none", "select", "exited"}
        BY <1>t, <2>4, <3>3, <4>1 DEF Guarded
      <4>3. AddSemWorker(w) \/ SemStop(w) \/ SemInputClosed(w)
        BY <1>3, <4>2 DEF SemWorkerStep, SemReceive, Acquire,
           AcquireCanceled, SemProcess, Release, PutSlot, SemSend, SemPutResult, SemSendPanics, SemDrop
      <4>4. UNCHANGED <<panicked, inputCh>> /\ spc'[w] \in {"select", "exited"}
        BY <4>3, <1>t DEF AddSemWorker, SemStop, SemInputClosed, Moves, poolVars
      <4> QED
        BY <1>3, <1>t, <2>1, <2>2, <2>4, <3>1, <3>3, <4>2, <4>4 DEF PanicInv, Guarded, NoPanic
    <3> QED
      BY <3>2, <3>3
  <2> QED
    BY <2>3, <2>4
<1> QED
  BY <1>1, <1>2, <1>3, StepIs

\* A worker sends on a closed channel only when some Stop came before
\* StartWithBackpressure had returned (semaphore.go 91-103, pool.go 119-123).
THEOREM PanicCorrect == SemSafety => []NoPanic
<1>1. SemInit => PanicInv
  <2> SUFFICES ASSUME SemInit PROVE PanicInv
    OBVIOUS
  <2>1. Lifecycle
    BY LifecycleInit DEF SemInit
  <2> QED
    BY <2>1 DEF SemInit, Init, PoolInit, PanicInv, Guarded, NoPanic
<1>2. PanicInv => NoPanic
  BY DEF PanicInv
<1> QED
  BY SemTypeInit, SemTypeStep, <1>1, <1>2, PanicStep, PTL DEF SemSafety

-----------------------------------------------------------------------------
(* The end of a Stop.                                                      *)

\* Workers with a slot are added after Start only, so a Stop that was not early finds all
\* workers added; those that it waited for have exited, and an exited one stays so.
WaitInv ==
    /\ (\E w \in Workers : spc[w] # "none") => started = "yes"
    /\ stopPc # "idle" => poolCtx
    /\ stopPc = "returned" /\ ~early => \A w \in Workers : spc[w] = "exited" /\ wpc[w] = "exited"

LEMMA WaitInit == SemInit => WaitInv
  BY DEF SemInit, Init, PoolInit, WaitInv

\* Who has exited is not added again, nor does Start begin again.
LEMMA ExitedStay ==
  ASSUME SemTypeInv, [SemNext]_allVars
  PROVE  /\ \A w \in Workers : spc[w] = "exited" => spc'[w] = "exited"
         /\ \A w \in Workers : wpc[w] = "exited" => wpc'[w] = "exited"
         /\ started = "yes" => started' = "yes"
<1>t. spc \in [Workers -> SemPc] /\ wpc \in [Workers -> {"none", "select", "process", "send", "exited"}]
  BY DEF SemTypeInv, SemTypeOK, TypeInv, TypeOK
<1>1. ASSUME PlainStep, UNCHANGED <<semVars, early>>
      PROVE  /\ UNCHANGED spc /\ (started = "yes" => started' = "yes")
             /\ \A w \in Workers : wpc[w] = "exited" => wpc'[w] = "exited"
  BY <1>1, <1>t DEF PlainStep, PoolOwnStep, AddWorker, WorkerStep, WorkerStop, WorkerInputClosed,
     InputEnds, WorkerReceive, WorkerProcess, Answer, WorkerSend, PutResult, WorkerDrop, GiveUp,
     BeginStart, FinishStart, CloseBoth, CloseOutput, CloseResults, CloseErrors, WaitBothReturn,
     WaitReturns, EnvStep, CloseInput, Consume, ConsumeError, Supply, semVars, workerVars, ctlVars,
     poolVars, vars
<1>2. ASSUME StopBoth, UNCHANGED <<envVars, semVars>> PROVE UNCHANGED <<spc, wpc, started>>
  BY <1>2 DEF StopBoth, Stop, semVars, workerVars
<1>3. ASSUME NEW w \in Workers, SemWorkerStep(w)
      PROVE  /\ UNCHANGED <<wpc, started>> /\ spc[w] # "exited"
             /\ \A v \in Workers \ {w} : spc'[v] = spc[v]
  BY <1>3, <1>t DEF SemWorkerStep, AddSemWorker, SemStop, SemInputClosed, SemReceive, Acquire,
     AcquireCanceled, SemProcess, Release, PutSlot, SemSend, SemPutResult, SemSendPanics, SemDrop,
     Moves, poolVars, workerVars, ctlVars
<1> QED
  BY <1>1, <1>2, <1>3, StepIs

LEMMA WaitStep == SemTypeInv /\ PanicInv /\ WaitInv /\ [SemNext]_allVars => WaitInv'
<1> SUFFICES ASSUME SemTypeInv, PanicInv, WaitInv, [SemNext]_allVars PROVE WaitInv'
  OBVIOUS
<1>t. /\ spc \in [Workers -> SemPc] /\ Lifecycle /\ Guarded
      /\ wpc \in [Workers -> {"none", "select", "process", "send", "exited"}]
  BY DEF SemTypeInv, SemTypeOK, TypeInv, TypeOK, PanicInv
<1>1. ASSUME PlainStep, UNCHANGED <<semVars, early>> PROVE WaitInv'
  <2>1. UNCHANGED <<spc, early>> /\ poolCtx' = poolCtx /\ (started = "yes" => started' = "yes")
    BY <1>1, ExitedStay, PlainKeepsContext DEF semVars
  <2>2. stopPc' = stopPc \/ (WaitBothReturn /\ UNCHANGED envVars)
    BY <1>1 DEF PlainStep, PoolOwnStep, AddWorker, WorkerStep, WorkerStop, WorkerInputClosed, InputEnds,
       WorkerReceive, WorkerProcess, Answer, WorkerSend, PutResult, WorkerDrop, GiveUp, BeginStart,
       FinishStart, CloseBoth, CloseOutput, CloseResults, CloseErrors, EnvStep, CloseInput, Consume,
       ConsumeError, Supply, ctlVars, poolVars, vars
  <2>3. CASE stopPc' = stopPc
    BY <2>1, <2>3, ExitedStay DEF WaitInv
  <2>4. CASE WaitBothReturn
    <3>1. /\ stopPc = "waiting" /\ UNCHANGED wpc
          /\ \A w \in Workers : ~SemRunning(w) /\ ~Running(w)
      BY <2>4 DEF WaitBothReturn, SemWgZero, WgZero, WaitReturns, workerVars
    <3>2. ~early => \A w \in Workers : spc[w] = "exited"
      BY <1>t, <3>1 DEF WaitInv, Guarded, SemRunning, SemPc
    <3>3. ~early => \A w \in Workers : wpc[w] = "exited"
      BY <1>t, <3>1, <3>2, WorkersAssumption DEF WaitInv, Lifecycle, Running
    <3> QED
      BY <2>1, <3>1, <3>2, <3>3 DEF WaitInv
  <2> QED
    BY <2>2, <2>3, <2>4
<1>2. ASSUME StopBoth, UNCHANGED <<envVars, semVars>> PROVE WaitInv'
  BY <1>2 DEF StopBoth, Stop, semVars, WaitInv
<1>3. ASSUME NEW w \in Workers, SemWorkerStep(w), UNCHANGED <<envVars, early>> PROVE WaitInv'
  <2>1. UNCHANGED <<started, stopPc, poolCtx>> /\ (spc[w] = "none" => started = "yes")
    BY <1>3 DEF SemWorkerStep, AddSemWorker, SemStop, SemInputClosed, SemReceive, Acquire,
       AcquireCanceled, SemProcess, Release, PutSlot, SemSend, SemPutResult, SemSendPanics, SemDrop,
       poolVars, ctlVars
  <2>2. started = "yes"
    BY <2>1 DEF WaitInv
  <2> QED
    BY <1>3, <2>1, <2>2, ExitedStay DEF WaitInv
<1> QED
  BY <1>1, <1>2, <1>3, StepIs

\* A StopAndWait that was not early has returned only after every worker of either kind has
\* left its loop: the safety half of SemStopWaits (pool.go 205-224, semaphore.go 91-103).
THEOREM StopWaitsCorrect == SemSafety => [](stopPc = "returned" => SemWgZero \/ early)
<1>1. SemInit => PanicInv
  BY LifecycleInit DEF SemInit, Init, PoolInit, PanicInv, Guarded, NoPanic
<1>2. WaitInv => (stopPc = "returned" => SemWgZero \/ early)
  BY DEF WaitInv, SemWgZero, WgZero, SemRunning, Running
<1> QED
  BY SemTypeInit, SemTypeStep, <1>1, PanicStep, WaitInit, WaitStep, <1>2, PTL DEF SemSafety

-----------------------------------------------------------------------------
(* Every record is in one place, also with the semaphore workers.          *)

SemHand == {sheld[w].rec : w \in SemBusy}
SemDistinct == \A v, w \in SemBusy : sheld[v].rec = sheld[w].rec => v = w

LEMMA SemHandTakes ==
  ASSUME NEW w \in Workers, NEW job \in Job,
         sheld \in [Workers -> Job \cup {NoJob}], sheld[w] = NoJob, SemDistinct,
         job.rec \notin SemHand, sheld' = [sheld EXCEPT ![w] = job]
  PROVE  SemDistinct' /\ SemHand' = SemHand \cup {job.rec}
<1>1. SemBusy' = SemBusy \cup {w} /\ w \notin SemBusy
  BY NoJobAssumption DEF SemBusy
<1>2. sheld'[w] = job /\ \A v \in SemBusy : sheld'[v] = sheld[v]
  BY <1>1 DEF SemBusy
<1> QED
  BY <1>1, <1>2 DEF SemDistinct, SemHand

LEMMA SemHandGives ==
  ASSUME NEW w \in Workers,
         sheld \in [Workers -> Job \cup {NoJob}], sheld[w] \in Job, SemDistinct,
         sheld' = [sheld EXCEPT ![w] = NoJob]
  PROVE  /\ SemDistinct' /\ SemHand' = SemHand \ {sheld[w].rec}
         /\ sheld[w].rec \in SemHand
<1>1. SemBusy' = SemBusy \ {w} /\ w \in SemBusy
  BY NoJobAssumption DEF SemBusy
<1>2. \A v \in SemBusy' : sheld'[v] = sheld[v]
  BY <1>1 DEF SemBusy
<1> QED
  BY <1>1, <1>2 DEF SemDistinct, SemHand

LEMMA SemHandKeeps ==
  ASSUME NEW w \in Workers, NEW job \in Job,
         sheld \in [Workers -> Job \cup {NoJob}], sheld[w] \in Job, SemDistinct,
         job.rec = sheld[w].rec, sheld' = [sheld EXCEPT ![w] = job]
  PROVE  SemDistinct' /\ SemHand' = SemHand
<1>1. SemBusy' = SemBusy /\ w \in SemBusy
  BY NoJobAssumption DEF SemBusy
<1>2. sheld'[w].rec = sheld[w].rec /\ \A v \in SemBusy : v # w => sheld'[v] = sheld[v]
  BY <1>1 DEF SemBusy
<1> QED
  BY <1>1, <1>2 DEF SemDistinct, SemHand

SemPlaces ==
    /\ NoDuplicates /\ Disjoint /\ SemDistinct
    /\ SemHand \cap (Placed \cup lost) = {} /\ lost \cap Placed = {}
    /\ supplied = Placed \cup SemHand \cup lost

LEMMA SemPlacesInit == SemInit => SemPlaces
<1> SUFFICES ASSUME SemInit PROVE SemPlaces
  OBVIOUS
<1>1. ExactlyOnce /\ supplied = {} /\ lost = {}
  BY OnceInit DEF SemInit, Init
<1>2. SemBusy = {}
  BY DEF SemInit, SemBusy
<1>3. SemHand = {} /\ SemDistinct
  BY <1>2 DEF SemHand, SemDistinct
<1> QED
  BY <1>1, <1>3 DEF ExactlyOnce, Located, Placed, SemPlaces

\* A semaphore worker that keeps its record, and the records in the two channels.
LEMMA SemPlacesSame ==
  ASSUME SemTypeInv, SemPlaces,
         UNCHANGED <<inputCh, outputCh, held, supplied, received, dropped>>
  PROVE  NoDuplicates' /\ Disjoint' /\ Placed' = Placed
<1>1. InInput' = InInput /\ InOutput' = InOutput /\ InHand' = InHand /\ Busy' = Busy
  BY DEF InInput, InOutput, InHand, Busy
<1>2. NoDuplicates'
  BY <1>1 DEF SemPlaces, NoDuplicates
<1> QED
  BY <1>1, <1>2 DEF SemPlaces, Disjoint, Placed

LEMMA SemPlacesSemStep ==
  ASSUME SemTypeInv, SemPlaces, NEW w \in Workers, SemWorkerStep(w), UNCHANGED <<envVars, early>>
  PROVE  SemPlaces'
<1>0. DistinctInput /\ DistinctOutput /\ DistinctInHand /\ SemDistinct
  BY DistinctParts DEF SemPlaces
<1>t. /\ inputCh \in Seq(Records) /\ outputCh \in Seq(Job)
      /\ sheld \in [Workers -> Job \cup {NoJob}]
  BY DEF SemTypeInv, SemTypeOK, TypeInv, TypeOK
<1>e. UNCHANGED <<supplied, received>>
  BY DEF envVars
<1>h. spc[w] \in {"acquire", "process", "release", "send"} => sheld[w] \in Job
  BY DEF SemTypeInv, SemHandsMatch
<1>1. ASSUME UNCHANGED <<inputCh, outputCh, held, dropped, lost>>, SemDistinct', SemHand' = SemHand
      PROVE  SemPlaces'
  <2>1. NoDuplicates' /\ Disjoint' /\ Placed' = Placed
    BY <1>1, <1>e, SemPlacesSame
  <2> QED
    BY <1>1, <1>e, <2>1 DEF SemPlaces
<1>2. CASE \/ AddSemWorker(w) \/ SemStop(w) \/ SemInputClosed(w) \/ Acquire(w) \/ Release(w)
           \/ SemSendPanics(w)
  <2>1. UNCHANGED <<inputCh, outputCh, held, dropped, lost, sheld>>
    BY <1>2 DEF AddSemWorker, SemStop, SemInputClosed, Acquire, Release, PutSlot, SemSendPanics,
       poolVars, outVars, workerVars
  <2>2. SemDistinct' /\ SemHand' = SemHand
    BY <1>0, <2>1 DEF SemDistinct, SemHand, SemBusy
  <2> QED
    BY <1>1, <2>1, <2>2
<1>3. CASE SemProcess(w)
  <2>1. PICK o \in AllOutcomes : sheld' = [sheld EXCEPT ![w] = [rec |-> sheld[w].rec, outcome |-> o]]
    BY <1>3, OutcomesAssumption DEF SemProcess, AllOutcomes
  <2> DEFINE job == [rec |-> sheld[w].rec, outcome |-> o]
  <2>2. sheld[w] \in Job /\ UNCHANGED <<inputCh, outputCh, held, dropped, lost>>
    BY <1>3, <1>h DEF SemProcess, workerVars
  <2>3. job \in Job /\ job.rec = sheld[w].rec /\ sheld' = [sheld EXCEPT ![w] = job]
    BY <2>1, <2>2 DEF Job
  <2> HIDE DEF job
  <2>4. SemDistinct' /\ SemHand' = SemHand
    BY <1>0, <1>t, <2>2, <2>3, SemHandKeeps
  <2> QED
    BY <1>1, <2>2, <2>4
<1>4. CASE SemReceive(w)
  <2> DEFINE r == Head(inputCh)  job == [rec |-> r, outcome |-> "pending"]
  <2>1. /\ inputCh # <<>> /\ inputCh' = Tail(inputCh)
        /\ sheld' = [sheld EXCEPT ![w] = job] /\ sheld[w] = NoJob
        /\ UNCHANGED <<outputCh, held, dropped, lost>>
    BY <1>4 DEF SemReceive, outVars, workerVars, SemTypeInv, SemHandsMatch
  <2>2. DistinctInput' /\ InInput' = InInput \ {r} /\ r \in InInput
    BY <1>0, <1>t, <2>1, InputTakes
  <2>3. r \notin SemHand /\ r \notin lost
    BY <2>2 DEF SemPlaces, Placed
  <2>4. job \in Job /\ job.rec = r
    BY <1>t, <2>1, HeadTailProperties DEF Job
  <2> HIDE DEF job
  <2>5. SemDistinct' /\ SemHand' = SemHand \cup {r}
    BY <1>0, <1>t, <2>1, <2>3, <2>4, SemHandTakes
  <2>6. DistinctOutput' /\ InOutput' = InOutput /\ DistinctInHand' /\ InHand' = InHand
    BY <1>0, <2>1 DEF DistinctOutput, InOutput, DistinctInHand, InHand, Busy
  <2>7. NoDuplicates'
    BY <2>2, <2>6 DEF NoDuplicates, DistinctInput, DistinctOutput, DistinctInHand
  <2> HIDE DEF r
  <2>8. Disjoint' /\ Placed' = Placed \ {r} /\ r \in Placed
    BY <1>e, <2>1, <2>2, <2>6 DEF SemPlaces, Disjoint, Placed
  <2> QED
    BY <1>e, <2>1, <2>3, <2>5, <2>7, <2>8 DEF SemPlaces
<1>5. CASE AcquireCanceled(w)
  <2> DEFINE r == sheld[w].rec
  <2>1. /\ sheld[w] \in Job /\ sheld' = [sheld EXCEPT ![w] = NoJob] /\ lost' = lost \cup {r}
        /\ UNCHANGED <<inputCh, outputCh, held, dropped>>
    BY <1>5, <1>h DEF AcquireCanceled, poolVars, outVars, workerVars
  <2>2. SemDistinct' /\ SemHand' = SemHand \ {r} /\ r \in SemHand
    BY <1>0, <1>t, <2>1, SemHandGives
  <2>3. NoDuplicates' /\ Disjoint' /\ Placed' = Placed
    BY <1>e, <2>1, SemPlacesSame
  <2> QED
    BY <1>e, <2>1, <2>2, <2>3 DEF SemPlaces
<1>6. CASE SemSend(w)
  <2> DEFINE r == sheld[w].rec
  <2>1. /\ sheld[w] \in Job /\ sheld' = [sheld EXCEPT ![w] = NoJob]
        /\ outputCh' = Append(outputCh, sheld[w])
        /\ UNCHANGED <<inputCh, held, dropped, lost>>
    BY <1>6, <1>h DEF SemSend, SemPutResult, workerVars
  <2>2. SemDistinct' /\ SemHand' = SemHand \ {r} /\ r \in SemHand
    BY <1>0, <1>t, <2>1, SemHandGives
  <2>3. r \notin Placed
    BY <2>2 DEF SemPlaces
  <2>4. r \notin InOutput
    BY <2>3 DEF Placed
  <2>5. DistinctOutput' /\ InOutput' = InOutput \cup {r}
    BY <1>0, <1>t, <2>1, <2>4, AppendToDistinctJobs DEF DistinctOutput, InOutput
  <2>6. DistinctInput' /\ InInput' = InInput /\ DistinctInHand' /\ InHand' = InHand
    BY <1>0, <2>1 DEF DistinctInput, InInput, DistinctInHand, InHand, Busy
  <2>7. NoDuplicates'
    BY <2>5, <2>6 DEF NoDuplicates, DistinctInput, DistinctOutput, DistinctInHand
  <2>8. Disjoint' /\ Placed' = Placed \cup {r}
    BY <1>e, <2>1, <2>3, <2>5, <2>6 DEF SemPlaces, Disjoint, Placed
  <2> QED
    BY <1>e, <2>1, <2>2, <2>3, <2>7, <2>8 DEF SemPlaces
<1>7. CASE SemDrop(w)
  <2> DEFINE r == sheld[w].rec
  <2>1. /\ sheld[w] \in Job /\ sheld' = [sheld EXCEPT ![w] = NoJob]
        /\ dropped' = dropped \cup {r}
        /\ UNCHANGED <<inputCh, outputCh, held, lost>>
    BY <1>7, <1>h DEF SemDrop, outVars
  <2>2. SemDistinct' /\ SemHand' = SemHand \ {r} /\ r \in SemHand
    BY <1>0, <1>t, <2>1, SemHandGives
  <2>3. r \notin Placed
    BY <2>2 DEF SemPlaces
  <2>4. DistinctInput' /\ InInput' = InInput /\ DistinctOutput' /\ InOutput' = InOutput
    BY <1>0, <2>1 DEF DistinctInput, DistinctOutput, InInput, InOutput
  <2>5. DistinctInHand' /\ InHand' = InHand
    BY <1>0, <2>1 DEF DistinctInHand, InHand, Busy
  <2>6. NoDuplicates'
    BY <2>4, <2>5 DEF NoDuplicates, DistinctInput, DistinctOutput, DistinctInHand
  <2>7. Disjoint' /\ Placed' = Placed \cup {r}
    BY <1>e, <2>1, <2>3, <2>4, <2>5 DEF SemPlaces, Disjoint, Placed
  <2> QED
    BY <1>e, <2>1, <2>2, <2>3, <2>6, <2>7 DEF SemPlaces
<1> QED
  BY <1>2, <1>3, <1>4, <1>5, <1>6, <1>7 DEF SemWorkerStep

LEMMA SemPlacesStep == SemTypeInv /\ SemPlaces /\ [SemNext]_allVars => SemPlaces'
<1> SUFFICES ASSUME SemTypeInv, SemPlaces, [SemNext]_allVars PROVE SemPlaces'
  OBVIOUS
<1>1. ASSUME [Next]_vars, UNCHANGED semVars PROVE SemPlaces'
  <2>1. TypeInv /\ NoDuplicates /\ Disjoint /\ Placed \subseteq supplied
    BY DEF SemTypeInv, SemPlaces
  <2>2. NoDuplicates' /\ Disjoint' /\ Follow
    BY <1>1, <2>1, PlacesStep
  <2>3. lost' = lost /\ SemHand' = SemHand /\ SemDistinct'
    BY <1>1 DEF semVars, SemHand, SemBusy, SemPlaces, SemDistinct
  <2> QED
    BY <2>2, <2>3 DEF SemPlaces, Follow
<1>2. CASE PlainStep /\ UNCHANGED <<semVars, early>>
  BY <1>1, <1>2, PlainIsNext
<1>3. CASE StopBoth /\ UNCHANGED <<envVars, semVars>>
  BY <1>1, <1>3, PlainIsNext
<1> QED
  BY <1>2, <1>3, StepIs, SemPlacesSemStep

-----------------------------------------------------------------------------
(* Losses of both kinds of workers.                                        *)

SemExited == {w \in Workers : spc[w] = "exited"}
Gone == dropped \cup lost

SemLossInv ==
    /\ Gone # {} => poolCtx
    /\ IsFiniteSet(Gone) /\ Cardinality(Gone) <= Cardinality(Exited) + Cardinality(SemExited)

LEMMA ExitedNumbers ==
  /\ IsFiniteSet(Exited) /\ Cardinality(Exited) \in Nat /\ Cardinality(Exited') \in Nat
  /\ IsFiniteSet(SemExited) /\ Cardinality(SemExited) \in Nat /\ Cardinality(SemExited') \in Nat
<1>1. Exited \in SUBSET Workers /\ Exited' \in SUBSET Workers
      /\ SemExited \in SUBSET Workers /\ SemExited' \in SUBSET Workers
  BY DEF Exited, SemExited
<1> QED
  BY <1>1, WorkersAssumption, FS_Subset, FS_CardinalityType

\* A step that loses nothing or one record with a worker's exit, of either kind, is one
\* after which the losses are still covered by the exits.
LEMMA SemLossCovered ==
  ASSUME SemLossInv, Gone' # {} => poolCtx',
         \/ /\ Gone' = Gone /\ Cardinality(Exited') >= Cardinality(Exited)
            /\ Cardinality(SemExited') >= Cardinality(SemExited)
         \/ /\ \E r \in Records : Gone' = Gone \cup {r}
            /\ \/ /\ Cardinality(Exited') = Cardinality(Exited) + 1
                  /\ Cardinality(SemExited') = Cardinality(SemExited)
               \/ /\ Cardinality(Exited') = Cardinality(Exited)
                  /\ Cardinality(SemExited') = Cardinality(SemExited) + 1
  PROVE  SemLossInv'
<1> DEFINE n == Cardinality(Gone)
<1>1. IsFiniteSet(Gone) /\ n \in Nat /\ n <= Cardinality(Exited) + Cardinality(SemExited)
  BY FS_CardinalityType DEF SemLossInv
<1>2. CASE /\ Gone' = Gone /\ Cardinality(Exited') >= Cardinality(Exited)
           /\ Cardinality(SemExited') >= Cardinality(SemExited)
  BY <1>1, <1>2, ExitedNumbers DEF SemLossInv
<1>3. ASSUME NEW r \in Records, Gone' = Gone \cup {r},
             Cardinality(Exited') + Cardinality(SemExited') = Cardinality(Exited) + Cardinality(SemExited) + 1
      PROVE  SemLossInv'
  <2>1. IsFiniteSet(Gone') /\ (Cardinality(Gone') = n \/ Cardinality(Gone') = n + 1)
    BY <1>1, <1>3, FS_AddElement
  <2>2. Cardinality(Gone') <= Cardinality(Exited') + Cardinality(SemExited')
    BY <1>1, <1>3, <2>1, ExitedNumbers
  <2> QED
    BY <2>1, <2>2 DEF SemLossInv
<1> QED
  BY <1>2, <1>3, ExitedNumbers

LEMMA SemLossStep ==
  SemTypeInv /\ PanicInv /\ Lifecycle' /\ SemLossInv /\ [SemNext]_allVars => SemLossInv'
<1> SUFFICES ASSUME SemTypeInv, PanicInv, Lifecycle', SemLossInv, [SemNext]_allVars PROVE SemLossInv'
  OBVIOUS
<1>t. spc \in [Workers -> SemPc] /\ TypeInv
  BY DEF SemTypeInv, SemTypeOK
<1>1. ASSUME [Next]_vars, UNCHANGED semVars, poolCtx => poolCtx' PROVE SemLossInv'
  <2>1. Loses
    BY <1>1, <1>t, LosesStep
  <2>2. lost' = lost /\ SemExited' = SemExited
    BY <1>1 DEF semVars, SemExited
  <2>3. Gone' # {} => poolCtx'
    BY <1>1, <2>2 DEF Gone, Lifecycle, SemLossInv
  <2>4. CASE dropped' = dropped /\ Cardinality(Exited') >= Cardinality(Exited)
    <3>1. Gone' = Gone /\ Cardinality(SemExited') >= Cardinality(SemExited)
      BY <2>2, <2>4, ExitedNumbers DEF Gone
    <3> QED
      BY <2>3, <2>4, <3>1, SemLossCovered
  <2>5. ASSUME NEW r \in Records, dropped' = dropped \cup {r},
               Cardinality(Exited') = Cardinality(Exited) + 1
        PROVE  SemLossInv'
    <3>1. Gone' = Gone \cup {r} /\ Cardinality(SemExited') = Cardinality(SemExited)
      BY <2>2, <2>5 DEF Gone
    <3> QED
      BY <2>3, <2>5, <3>1, SemLossCovered
  <2> QED
    BY <2>1, <2>4, <2>5 DEF Loses
<1>2. CASE PlainStep /\ UNCHANGED <<semVars, early>>
  BY <1>1, <1>2, PlainIsNext, PlainKeepsContext
<1>3. CASE StopBoth /\ UNCHANGED <<envVars, semVars>>
  <2>1. poolCtx'
    BY <1>3 DEF StopBoth, Stop
  <2> QED
    BY <1>1, <1>3, <2>1, PlainIsNext
<1>4. ASSUME NEW w \in Workers, SemWorkerStep(w) PROVE SemLossInv'
  <2>1. wpc' = wpc /\ poolCtx' = poolCtx
    BY <1>4 DEF SemWorkerStep, AddSemWorker, SemStop, SemInputClosed, SemReceive, Acquire, AcquireCanceled,
       SemProcess, Release, PutSlot, SemSend, SemPutResult, SemSendPanics, SemDrop,
       poolVars, workerVars, ctlVars
  <2>2. Cardinality(Exited') = Cardinality(Exited)
    BY <2>1 DEF Exited
  <2>3. ASSUME spc[w] # "exited", spc' = [spc EXCEPT ![w] = "exited"]
        PROVE  Cardinality(SemExited') = Cardinality(SemExited) + 1
    <3>1. SemExited' = SemExited \cup {w} /\ w \notin SemExited
      BY <2>3, <1>t DEF SemExited
    <3> QED
      BY <3>1, ExitedNumbers, FS_AddElement
  <2>4. ASSUME spc[w] # "exited", NEW pc \in SemPc \ {"exited"}, spc' = [spc EXCEPT ![w] = pc]
        PROVE  SemExited' = SemExited
    BY <2>4, <1>t DEF SemExited
  <2>a. ASSUME UNCHANGED <<dropped, lost>>, Cardinality(SemExited') >= Cardinality(SemExited)
        PROVE  SemLossInv'
    <3>1. Gone' = Gone /\ (Gone' # {} => poolCtx')
      BY <2>1, <2>a DEF Gone, SemLossInv
    <3>2. Cardinality(Exited') >= Cardinality(Exited)
      BY <2>2, ExitedNumbers
    <3> QED
      BY <2>a, <3>1, <3>2, SemLossCovered
  <2>5. CASE SemStop(w) \/ SemInputClosed(w)
    <3>1. UNCHANGED <<dropped, lost>> /\ Cardinality(SemExited') = Cardinality(SemExited) + 1
      BY <2>3, <2>5 DEF SemStop, SemInputClosed, Moves, poolVars, workerVars
    <3> QED
      BY <2>a, <3>1, ExitedNumbers
  <2>6. CASE AddSemWorker(w) \/ SemReceive(w) \/ Acquire(w) \/ SemProcess(w) \/ Release(w)
             \/ SemSend(w) \/ SemSendPanics(w)
    <3>1. UNCHANGED <<dropped, lost>>
      BY <2>6 DEF AddSemWorker, SemReceive, Acquire, SemProcess, Release, PutSlot, SemSend, SemPutResult,
         SemSendPanics, poolVars, workerVars
    <3>4. SemExited' = SemExited
      <4>1. CASE SemSendPanics(w)
        BY <4>1 DEF SemSendPanics, SemExited
      <4>2. CASE ~SemSendPanics(w)
        BY <2>4, <2>6, <4>2 DEF AddSemWorker, SemReceive, Acquire, SemProcess, Release, PutSlot, SemSend,
           SemPutResult, Moves, SemPc
      <4> QED
        BY <4>1, <4>2
    <3> QED
      BY <2>a, <3>1, <3>4, ExitedNumbers
  <2>7. CASE AcquireCanceled(w) \/ SemDrop(w)
    <3>1. /\ poolCtx /\ sheld[w].rec \in Records /\ Gone' = Gone \cup {sheld[w].rec}
          /\ spc[w] # "exited" /\ spc' = [spc EXCEPT ![w] = "exited"]
      BY <2>7 DEF AcquireCanceled, SemDrop, Moves, Gone, poolVars, workerVars, SemTypeInv, SemHandsMatch, Job
    <3>2. Cardinality(SemExited') = Cardinality(SemExited) + 1
      BY <2>3, <3>1
    <3> QED
      BY <2>1, <2>2, <3>1, <3>2, SemLossCovered
  <2> QED
    BY <1>4, <2>5, <2>6, <2>7 DEF SemWorkerStep
<1> QED
  BY <1>2, <1>3, <1>4, StepIs

\* With two kinds of workers on the same channels every supplied record still is in
\* exactly one place, and records are given up only to a cancellation, at most one for
\* every worker of either kind that has exited (semaphore.go 91-147, pool.go 125-185).
THEOREM SemOnceCorrect == SemSafety => []SemExactlyOnce
<1>1. SemInit => PanicInv /\ SemLossInv
  <2> SUFFICES ASSUME SemInit PROVE PanicInv /\ SemLossInv
    OBVIOUS
  <2>1. Lifecycle /\ dropped = {} /\ lost = {}
    BY LifecycleInit DEF SemInit, Init, PoolInit
  <2>2. Gone = {} /\ Cardinality(Gone) = 0 /\ IsFiniteSet(Gone)
    BY <2>1, FS_EmptySet DEF Gone
  <2>3. SemLossInv
    BY <2>2, ExitedNumbers DEF SemLossInv
  <2> QED
    BY <2>1, <2>3 DEF SemInit, Init, PoolInit, PanicInv, Guarded, NoPanic
<1>2. SemTypeInv /\ PanicInv /\ SemPlaces /\ SemLossInv /\ [SemNext]_allVars
        => SemTypeInv' /\ PanicInv' /\ SemPlaces' /\ SemLossInv'
  <2> SUFFICES ASSUME SemTypeInv, PanicInv, SemPlaces, SemLossInv, [SemNext]_allVars
               PROVE  SemTypeInv' /\ PanicInv' /\ SemPlaces' /\ SemLossInv'
    OBVIOUS
  <2>1. SemTypeInv' /\ PanicInv' /\ SemPlaces'
    BY SemTypeStep, PanicStep, SemPlacesStep
  <2>2. Lifecycle'
    BY <2>1 DEF PanicInv
  <2> QED
    BY <2>1, <2>2, SemLossStep
<1>3. SemPlaces /\ SemLossInv => SemExactlyOnce
  BY DEF SemPlaces, SemLossInv, SemExactlyOnce, SemDistinct, SemHand, Placed, Gone, Exited, SemExited
<1> QED
  BY SemTypeInit, SemPlacesInit, <1>1, <1>2, <1>3, PTL DEF SemSafety
=============================================================================
