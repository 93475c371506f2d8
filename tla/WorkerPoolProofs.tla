-------------------------- MODULE WorkerPoolProofs --------------------------
(***************************************************************************)
(* Proofs about the worker pool of WorkerPool.tla, for every number of     *)
(* workers and records and every capacity.                                 *)
(***************************************************************************)
EXTENDS WorkerPool, SequenceTheorems, FiniteSetTheorems, TLAPS

TypeInv == TypeOK /\ HandsMatch

LEMMA TypeInit == Init => TypeInv
<1> SUFFICES ASSUME Init PROVE TypeInv
  OBVIOUS
<1>1. <<>> \in Seq(Records) /\ <<>> \in Seq(Job) /\ Len(<<>>) = 0
  BY EmptySeq
<1>2. 0 <= InCap /\ 0 <= OutCap /\ 0 <= ErrCap
  BY CapAssumption
<1> QED
  BY <1>1, <1>2 DEF Init, PoolInit, TypeInv, TypeOK, HandsMatch

LEMMA TypeStep == TypeInv /\ [Next]_vars => TypeInv'
<1> SUFFICES ASSUME TypeInv, [Next]_vars PROVE TypeInv'
  OBVIOUS
<1> USE DEF TypeInv, TypeOK, HandsMatch
<1>1. ASSUME NEW w \in Workers, AddWorker(w), UNCHANGED envVars PROVE TypeInv'
  BY <1>1 DEF AddWorker, envVars, outVars, ctlVars
<1>2. ASSUME NEW w \in Workers, WorkerStop(w), UNCHANGED envVars PROVE TypeInv'
  BY <1>2 DEF WorkerStop, envVars, outVars, ctlVars
<1>3. ASSUME NEW w \in Workers, WorkerInputClosed(w), UNCHANGED envVars PROVE TypeInv'
  BY <1>3 DEF WorkerInputClosed, InputEnds, envVars, outVars, ctlVars
<1>4. ASSUME NEW w \in Workers, WorkerReceive(w), UNCHANGED envVars PROVE TypeInv'
  <2> USE DEF WorkerReceive, envVars, outVars, ctlVars
  <2>1. Head(inputCh) \in Records /\ Tail(inputCh) \in Seq(Records)
        /\ Len(Tail(inputCh)) <= InCap
    BY <1>4, HeadTailProperties, LenProperties, CapAssumption
  <2>2. [rec |-> Head(inputCh), outcome |-> "pending"] \in Job
    BY <2>1 DEF Job
  <2> QED
    BY <1>4, <2>1, <2>2
<1>5. ASSUME NEW w \in Workers, WorkerProcess(w), UNCHANGED envVars PROVE TypeInv'
  <2> USE DEF WorkerProcess, Answer, OfferError, envVars, outVars, ctlVars
  <2>1. PICK o \in AllOutcomes :
          Answer(w, o) /\ (IF Len(errorCh) < ErrCap THEN OfferError(w, o) ELSE UNCHANGED errorCh)
    BY <1>5
  <2>2. held[w].rec \in Records
    BY <1>5, <2>1 DEF Job
  <2>3. [rec |-> held[w].rec, outcome |-> o] \in Job
    BY <2>2 DEF Job
  <2>4. CASE Len(errorCh) < ErrCap
    <3>1. errorCh' = Append(errorCh, held[w].rec) \/ UNCHANGED errorCh
      BY <2>1, <2>4
    <3>2. /\ Append(errorCh, held[w].rec) \in Seq(Records)
          /\ Len(Append(errorCh, held[w].rec)) = Len(errorCh) + 1
      BY <2>2, AppendProperties
    <3>3. Len(errorCh) \in Nat
      BY LenProperties
    <3>4. Len(errorCh) + 1 <= ErrCap
      BY <2>4, <3>3, CapAssumption
    <3>5. errorCh' \in Seq(Records) /\ Len(errorCh') <= ErrCap
      <4>1. CASE errorCh' = Append(errorCh, held[w].rec)
        BY <3>2, <3>4, <4>1
      <4>2. CASE UNCHANGED errorCh
        BY <4>2
      <4> QED
        BY <3>1, <4>1, <4>2
    <3> QED
      BY <1>5, <2>1, <2>3, <3>5
  <2>5. CASE ~(Len(errorCh) < ErrCap)
    BY <1>5, <2>1, <2>3, <2>5
  <2> QED
    BY <2>4, <2>5
<1>6. ASSUME NEW w \in Workers, WorkerSend(w), UNCHANGED envVars PROVE TypeInv'
  <2> USE DEF WorkerSend, PutResult, envVars, outVars, ctlVars
  <2>1. outputCh' \in Seq(Job) /\ Len(outputCh') <= OutCap
    BY <1>6, AppendProperties, LenProperties, CapAssumption
  <2> QED
    BY <1>6, <2>1
<1>7. ASSUME NEW w \in Workers, WorkerDrop(w), UNCHANGED envVars PROVE TypeInv'
  <2>1. held[w].rec \in Records
    BY <1>7 DEF WorkerDrop, GiveUp, Job
  <2> QED
    BY <1>7, <2>1 DEF WorkerDrop, GiveUp, envVars, outVars, ctlVars
<1>8. ASSUME BeginStart \/ FinishStart \/ CloserStep \/ Stop \/ WaitReturns, UNCHANGED envVars
      PROVE  TypeInv'
  BY <1>8 DEF BeginStart, FinishStart, CloserStep, CloseOutput, CloseResults, CloseErrors, Stop, WaitReturns,
              envVars, outVars, workerVars, ctlVars
<1>9. ASSUME NEW r \in Records, Supply(r) PROVE TypeInv'
  <2>1. inputCh' \in Seq(Records) /\ Len(inputCh') <= InCap
    BY <1>9, AppendProperties, LenProperties, CapAssumption DEF Supply
  <2> QED
    BY <1>9, <2>1 DEF Supply, outVars, workerVars, ctlVars
<1>10. ASSUME CloseInput \/ Consume \/ ConsumeError PROVE TypeInv'
  <2>1. CASE CloseInput
    BY <2>1 DEF CloseInput, poolVars, outVars, workerVars, ctlVars
  <2>2. CASE Consume
    <3>1. Head(outputCh) \in Job /\ Tail(outputCh) \in Seq(Job)
          /\ Len(Tail(outputCh)) <= OutCap
      BY <2>2, HeadTailProperties, LenProperties, CapAssumption DEF Consume
    <3>2. Head(outputCh).rec \in Records
      BY <3>1 DEF Job
    <3> QED
      BY <2>2, <3>1, <3>2 DEF Consume, workerVars, ctlVars
  <2>3. CASE ConsumeError
    <3>1. Tail(errorCh) \in Seq(Records) /\ Len(Tail(errorCh)) <= ErrCap
      BY <2>3, HeadTailProperties, LenProperties, CapAssumption DEF ConsumeError
    <3> QED
      BY <2>3, <3>1 DEF ConsumeError, envVars, workerVars, ctlVars
  <2> QED
    BY <1>10, <2>1, <2>2, <2>3
<1>11. ASSUME UNCHANGED vars PROVE TypeInv'
  BY <1>11 DEF vars, poolVars, envVars, outVars, workerVars, ctlVars
<1> QED
  BY <1>1, <1>2, <1>3, <1>4, <1>5, <1>6, <1>7, <1>8, <1>9, <1>10, <1>11
  DEF Next, PoolStep, EnvStep, WorkerStep, Terminated

\* Every variable of the pool stays in its type in every behaviour, the three
\* channels within their capacities (pool.go 14-48).
THEOREM TypeCorrect == Safety => []TypeOK
<1>1. TypeInv => TypeOK
  BY DEF TypeInv
<1> QED
  BY TypeInit, TypeStep, <1>1, PTL DEF Safety

-----------------------------------------------------------------------------
(* Start, the workers, the closer and Stop follow one another.             *)

LEMMA LifecycleInit == Init => Lifecycle
  BY WorkersAssumption DEF Init, PoolInit, Lifecycle

LEMMA LifecycleStep == TypeInv /\ Lifecycle /\ [Next]_vars => Lifecycle'
<1> SUFFICES ASSUME TypeInv, Lifecycle, [Next]_vars PROVE Lifecycle'
  OBVIOUS
<1> USE DEF TypeInv, TypeOK, Lifecycle
<1>1. ASSUME NEW w \in Workers, AddWorker(w), UNCHANGED envVars PROVE Lifecycle'
  BY <1>1 DEF AddWorker, envVars, outVars, ctlVars
<1>2. ASSUME NEW w \in Workers, WorkerStop(w), UNCHANGED envVars PROVE Lifecycle'
  BY <1>2 DEF WorkerStop, envVars, outVars, ctlVars
<1>3. ASSUME NEW w \in Workers, WorkerInputClosed(w), UNCHANGED envVars PROVE Lifecycle'
  BY <1>3 DEF WorkerInputClosed, InputEnds, envVars, outVars, ctlVars
<1>4. ASSUME NEW w \in Workers, WorkerReceive(w), UNCHANGED envVars PROVE Lifecycle'
  BY <1>4 DEF WorkerReceive, envVars, outVars, ctlVars
<1>5. ASSUME NEW w \in Workers, WorkerProcess(w), UNCHANGED envVars PROVE Lifecycle'
  BY <1>5 DEF WorkerProcess, Answer, OfferError, envVars, outVars, ctlVars
<1>6. ASSUME NEW w \in Workers, WorkerSend(w), UNCHANGED envVars PROVE Lifecycle'
  BY <1>6 DEF WorkerSend, PutResult, envVars, outVars, ctlVars
<1>7. ASSUME NEW w \in Workers, WorkerDrop(w), UNCHANGED envVars PROVE Lifecycle'
  BY <1>7 DEF WorkerDrop, GiveUp, envVars, outVars, ctlVars
<1>8. ASSUME BeginStart \/ FinishStart \/ Stop \/ WaitReturns, UNCHANGED envVars
      PROVE  Lifecycle'
  BY <1>8 DEF BeginStart, FinishStart, Stop, WaitReturns, envVars, outVars, workerVars, ctlVars
<1>9. ASSUME CloserStep, UNCHANGED envVars PROVE Lifecycle'
  <2>1. WgZero /\ closer = "wait" => \A w \in Workers : wpc[w] = "exited"
    BY DEF WgZero, Running
  <2> QED
    BY <1>9, <2>1 DEF CloserStep, CloseOutput, CloseResults, CloseErrors, envVars, workerVars, ctlVars
<1>10. ASSUME NEW r \in Records, Supply(r) PROVE Lifecycle'
  BY <1>10 DEF Supply, outVars, workerVars, ctlVars
<1>11. ASSUME CloseInput \/ Consume \/ ConsumeError PROVE Lifecycle'
  BY <1>11 DEF CloseInput, Consume, ConsumeError, envVars, poolVars, outVars, workerVars, ctlVars
<1>12. ASSUME UNCHANGED vars PROVE Lifecycle'
  BY <1>12 DEF vars, poolVars, envVars, outVars, workerVars, ctlVars
<1> QED
  BY <1>1, <1>2, <1>3, <1>4, <1>5, <1>6, <1>7, <1>8, <1>9, <1>10, <1>11, <1>12
  DEF Next, PoolStep, EnvStep, WorkerStep, Terminated

\* Nothing is ever sent on a closed channel: the closer closes outputCh and
\* errorCh only after every worker has exited (pool.go 119-123).
THEOREM ClosedCorrect == Safety => []ClosedMeansDone
<1>1. TypeInv /\ Lifecycle => ClosedMeansDone
  BY DEF TypeInv, TypeOK, HandsMatch, Lifecycle, ClosedMeansDone
<1> QED
  BY TypeInit, TypeStep, LifecycleInit, LifecycleStep, <1>1, PTL DEF Safety

-----------------------------------------------------------------------------
(* Sequences without repetition, of records and of jobs.                   *)

\* The head of a sequence without repetition is not in its tail.
LEMMA TailOfDistinct ==
  ASSUME NEW S, NEW s \in Seq(S), s # <<>>,
         \A i, j \in 1 .. Len(s) : s[i] = s[j] => i = j
  PROVE  LET t == Tail(s) IN
         /\ \A i, j \in 1 .. Len(t) : t[i] = t[j] => i = j
         /\ {t[i] : i \in 1 .. Len(t)} = {s[i] : i \in 1 .. Len(s)} \ {Head(s)}
         /\ Head(s) \in {s[i] : i \in 1 .. Len(s)}
<1> DEFINE t == Tail(s)
<1>1. /\ Len(s) \in Nat \ {0} /\ Len(t) = Len(s) - 1 /\ Head(s) = s[1]
      /\ \A i \in 1 .. Len(t) : t[i] = s[i + 1]
  BY HeadTailProperties, EmptySeq
<1> HIDE DEF t
<1>2. \A i, j \in 1 .. Len(t) : t[i] = t[j] => i = j
  BY <1>1
<1>3. \A i \in 1 .. Len(t) : i + 1 \in 1 .. Len(s) /\ t[i] # Head(s)
  BY <1>1
<1>4. \A k \in 1 .. Len(s) : s[k] # Head(s) => k - 1 \in 1 .. Len(t) /\ t[k - 1] = s[k]
  BY <1>1
<1>5. {t[i] : i \in 1 .. Len(t)} = {s[i] : i \in 1 .. Len(s)} \ {Head(s)}
  BY <1>1, <1>3, <1>4
<1>6. Head(s) \in {s[i] : i \in 1 .. Len(s)}
  BY <1>1
<1> QED
  BY <1>2, <1>5, <1>6 DEF t

\* The same for results, told apart by their record.
LEMMA TailOfDistinctJobs ==
  ASSUME NEW s \in Seq(Job), s # <<>>,
         \A i, j \in 1 .. Len(s) : s[i].rec = s[j].rec => i = j
  PROVE  LET t == Tail(s) IN
         /\ \A i, j \in 1 .. Len(t) : t[i].rec = t[j].rec => i = j
         /\ {t[i].rec : i \in 1 .. Len(t)} = {s[i].rec : i \in 1 .. Len(s)} \ {Head(s).rec}
         /\ Head(s).rec \in {s[i].rec : i \in 1 .. Len(s)}
<1> DEFINE t == Tail(s)
<1>1. /\ Len(s) \in Nat \ {0} /\ Len(t) = Len(s) - 1 /\ Head(s) = s[1]
      /\ \A i \in 1 .. Len(t) : t[i] = s[i + 1]
  BY HeadTailProperties, EmptySeq
<1> HIDE DEF t
<1>2. \A i, j \in 1 .. Len(t) : t[i].rec = t[j].rec => i = j
  BY <1>1
<1>3. \A i \in 1 .. Len(t) : i + 1 \in 1 .. Len(s) /\ t[i].rec # Head(s).rec
  BY <1>1
<1>4. \A k \in 1 .. Len(s) :
        s[k].rec # Head(s).rec => k - 1 \in 1 .. Len(t) /\ t[k - 1].rec = s[k].rec
  BY <1>1
<1>5. {t[i].rec : i \in 1 .. Len(t)} = {s[i].rec : i \in 1 .. Len(s)} \ {Head(s).rec}
  BY <1>1, <1>3, <1>4
<1>6. Head(s).rec \in {s[i].rec : i \in 1 .. Len(s)}
  BY <1>1
<1> QED
  BY <1>2, <1>5, <1>6 DEF t

\* A new element extends a sequence without repetition.
LEMMA AppendToDistinct ==
  ASSUME NEW S, NEW s \in Seq(S), NEW e \in S,
         \A i, j \in 1 .. Len(s) : s[i] = s[j] => i = j,
         e \notin {s[i] : i \in 1 .. Len(s)}
  PROVE  LET t == Append(s, e) IN
         /\ \A i, j \in 1 .. Len(t) : t[i] = t[j] => i = j
         /\ {t[i] : i \in 1 .. Len(t)} = {s[i] : i \in 1 .. Len(s)} \cup {e}
<1> DEFINE t == Append(s, e)
<1>1. /\ Len(s) \in Nat /\ Len(t) = Len(s) + 1 /\ t[Len(s) + 1] = e
      /\ \A i \in 1 .. Len(s) : t[i] = s[i]
  BY AppendProperties, LenProperties
<1> HIDE DEF t
<1>2. \A i \in 1 .. Len(t) : i \in 1 .. Len(s) \/ i = Len(s) + 1
  BY <1>1
<1>3. \A i, j \in 1 .. Len(t) : t[i] = t[j] => i = j
  BY <1>1, <1>2
<1>4. {t[i] : i \in 1 .. Len(t)} = {s[i] : i \in 1 .. Len(s)} \cup {e}
  BY <1>1, <1>2
<1> QED
  BY <1>3, <1>4 DEF t

LEMMA AppendToDistinctJobs ==
  ASSUME NEW s \in Seq(Job), NEW e \in Job,
         \A i, j \in 1 .. Len(s) : s[i].rec = s[j].rec => i = j,
         e.rec \notin {s[i].rec : i \in 1 .. Len(s)}
  PROVE  LET t == Append(s, e) IN
         /\ \A i, j \in 1 .. Len(t) : t[i].rec = t[j].rec => i = j
         /\ {t[i].rec : i \in 1 .. Len(t)} = {s[i].rec : i \in 1 .. Len(s)} \cup {e.rec}
<1> DEFINE t == Append(s, e)
<1>1. /\ Len(s) \in Nat /\ Len(t) = Len(s) + 1 /\ t[Len(s) + 1] = e
      /\ \A i \in 1 .. Len(s) : t[i] = s[i]
  BY AppendProperties, LenProperties
<1> HIDE DEF t
<1>2. \A i \in 1 .. Len(t) : i \in 1 .. Len(s) \/ i = Len(s) + 1
  BY <1>1
<1>3. \A i, j \in 1 .. Len(t) : t[i].rec = t[j].rec => i = j
  BY <1>1, <1>2
<1>4. {t[i].rec : i \in 1 .. Len(t)} = {s[i].rec : i \in 1 .. Len(s)} \cup {e.rec}
  BY <1>1, <1>2
<1> QED
  BY <1>3, <1>4 DEF t

-----------------------------------------------------------------------------
(* What the workers have in hand when one takes or gives away a job.       *)

DistinctInHand == \A v, w \in Busy : held[v].rec = held[w].rec => v = w

LEMMA HandTakes ==
  ASSUME NEW w \in Workers, NEW job \in Job,
         held \in [Workers -> Job \cup {NoJob}], held[w] = NoJob, DistinctInHand,
         job.rec \notin InHand, held' = [held EXCEPT ![w] = job]
  PROVE  DistinctInHand' /\ InHand' = InHand \cup {job.rec}
<1>1. Busy' = Busy \cup {w} /\ w \notin Busy
  BY NoJobAssumption DEF Busy
<1>2. held'[w] = job /\ \A v \in Busy : held'[v] = held[v] /\ held[v].rec # job.rec
  BY <1>1 DEF InHand, Busy
<1> QED
  BY <1>1, <1>2 DEF DistinctInHand, InHand

LEMMA HandGives ==
  ASSUME NEW w \in Workers,
         held \in [Workers -> Job \cup {NoJob}], held[w] \in Job, DistinctInHand,
         held' = [held EXCEPT ![w] = NoJob]
  PROVE  /\ DistinctInHand' /\ InHand' = InHand \ {held[w].rec}
         /\ held[w].rec \in InHand
<1>1. Busy' = Busy \ {w} /\ w \in Busy
  BY NoJobAssumption DEF Busy
<1>2. \A v \in Busy \ {w} : held'[v] = held[v] /\ held[v].rec # held[w].rec
  BY <1>1 DEF DistinctInHand, Busy
<1> QED
  BY <1>1, <1>2 DEF DistinctInHand, InHand

LEMMA HandKeeps ==
  ASSUME NEW w \in Workers, NEW job \in Job,
         held \in [Workers -> Job \cup {NoJob}], held[w] \in Job, DistinctInHand,
         job.rec = held[w].rec, held' = [held EXCEPT ![w] = job]
  PROVE  DistinctInHand' /\ InHand' = InHand
<1>1. Busy' = Busy /\ w \in Busy
  BY NoJobAssumption DEF Busy
<1>2. \A v \in Busy : held'[v].rec = held[v].rec
  BY <1>1 DEF Busy
<1> QED
  BY <1>1, <1>2 DEF DistinctInHand, InHand

-----------------------------------------------------------------------------
(* Every record is in one place.                                           *)

DistinctInput == \A i, j \in 1 .. Len(inputCh) : inputCh[i] = inputCh[j] => i = j
DistinctOutput ==
    \A i, j \in 1 .. Len(outputCh) : outputCh[i].rec = outputCh[j].rec => i = j

\* A worker takes the head of the input.
LEMMA InputTakes ==
  ASSUME inputCh \in Seq(Records), DistinctInput, inputCh # <<>>, inputCh' = Tail(inputCh)
  PROVE  /\ DistinctInput' /\ InInput' = InInput \ {Head(inputCh)}
         /\ Head(inputCh) \in InInput
<1>1. \A i, j \in 1 .. Len(inputCh) : inputCh[i] = inputCh[j] => i = j
  BY DEF DistinctInput
<1>2. LET t == Tail(inputCh) IN
      /\ \A i, j \in 1 .. Len(t) : t[i] = t[j] => i = j
      /\ {t[i] : i \in 1 .. Len(t)} = {inputCh[i] : i \in 1 .. Len(inputCh)} \ {Head(inputCh)}
      /\ Head(inputCh) \in {inputCh[i] : i \in 1 .. Len(inputCh)}
  BY <1>1, TailOfDistinct
<1>3. inputCh' = Tail(inputCh)
  OBVIOUS
<1>4. DistinctInput'
  BY ONLY <1>2, <1>3 DEF DistinctInput
<1>5. InInput' = InInput \ {Head(inputCh)} /\ Head(inputCh) \in InInput
  BY ONLY <1>2, <1>3 DEF InInput
<1> QED
  BY <1>4, <1>5

LEMMA DistinctParts == NoDuplicates <=> DistinctInput /\ DistinctOutput /\ DistinctInHand
  BY DEF NoDuplicates, DistinctInput, DistinctOutput, DistinctInHand

LEMMA OnceInit == Init => ExactlyOnce
<1> SUFFICES ASSUME Init PROVE ExactlyOnce
  OBVIOUS
<1>1. Len(<<>>) = 0 /\ 1 .. 0 = {}
  OBVIOUS
<1>2. inputCh = <<>> /\ outputCh = <<>> /\ Busy = {} /\ supplied = {} /\ received = {}
      /\ dropped = {}
  BY DEF Init, PoolInit, Busy
<1>3. InInput = {} /\ InOutput = {} /\ InHand = {}
  BY <1>1, <1>2 DEF InInput, InOutput, InHand
<1>4. NoDuplicates
  BY <1>1, <1>2 DEF NoDuplicates
<1> QED
  BY <1>2, <1>3, <1>4 DEF ExactlyOnce, Disjoint, Located

\* The records the pool has, wherever it has them.
Placed == InInput \cup InHand \cup InOutput \cup received \cup dropped

Follow == Placed' = Placed \cup (supplied' \ supplied) /\ supplied \subseteq supplied'

\* A step moves records from place to place and adds what the producer supplies with
\* it; this does not need every supplied record to be placed here.
LEMMA PlacesStep ==
  ASSUME TypeInv, NoDuplicates, Disjoint, Placed \subseteq supplied, [Next]_vars
  PROVE  NoDuplicates' /\ Disjoint' /\ Follow
<1> DEFINE Kept == NoDuplicates' /\ Disjoint' /\ Follow
<1> SUFFICES Kept
  OBVIOUS
<1>0. DistinctInput /\ DistinctOutput /\ DistinctInHand
  BY DistinctParts
<1>t. /\ inputCh \in Seq(Records) /\ outputCh \in Seq(Job)
      /\ held \in [Workers -> Job \cup {NoJob}]
  BY DEF TypeInv, TypeOK
<1>1. ASSUME UNCHANGED <<inputCh, outputCh, held, supplied, received, dropped>>
      PROVE  Kept
  <2>1. InInput' = InInput /\ InOutput' = InOutput /\ InHand' = InHand /\ Busy' = Busy
    BY <1>1 DEF InInput, InOutput, InHand, Busy
  <2>2. NoDuplicates'
    BY <1>1, <2>1 DEF NoDuplicates
  <2> QED
    BY <1>1, <2>1, <2>2 DEF Disjoint, Placed, Follow
<1>2. ASSUME NEW w \in Workers, WorkerReceive(w), UNCHANGED envVars PROVE Kept
  <2> DEFINE r == Head(inputCh)  job == [rec |-> r, outcome |-> "pending"]
  <2>1. /\ inputCh # <<>> /\ inputCh' = Tail(inputCh)
        /\ held' = [held EXCEPT ![w] = job] /\ held[w] = NoJob
        /\ UNCHANGED <<outputCh, supplied, received, dropped>>
    BY <1>2 DEF WorkerReceive, envVars, outVars, TypeInv, HandsMatch
  <2>2. DistinctInput' /\ InInput' = InInput \ {r} /\ r \in InInput
    BY <1>0, <1>t, <2>1, InputTakes
  <2>3. r \notin InHand
    BY <2>2 DEF Disjoint
  <2>4. job \in Job /\ job.rec = r
    BY <1>t, <2>1, HeadTailProperties DEF Job
  <2> HIDE DEF job
  <2>5. DistinctInHand' /\ InHand' = InHand \cup {r}
    BY <1>0, <1>t, <2>1, <2>3, <2>4, HandTakes
  <2>6. DistinctOutput' /\ InOutput' = InOutput
    BY <1>0, <2>1 DEF DistinctOutput, InOutput
  <2>7. Disjoint' /\ Follow
    BY <2>1, <2>2, <2>5, <2>6 DEF Disjoint, Placed, Follow
  <2>8. NoDuplicates'
    BY <2>2, <2>5, <2>6 DEF NoDuplicates, DistinctInput, DistinctOutput, DistinctInHand
  <2> QED
    BY <2>7, <2>8
<1>3. ASSUME NEW w \in Workers, WorkerProcess(w), UNCHANGED envVars PROVE Kept
  <2>1. PICK o \in AllOutcomes : held' = [held EXCEPT ![w] = [rec |-> held[w].rec, outcome |-> o]]
    BY <1>3 DEF WorkerProcess, Answer, OfferError
  <2> DEFINE job == [rec |-> held[w].rec, outcome |-> o]
  <2>2. /\ held[w] \in Job /\ UNCHANGED <<inputCh, outputCh, supplied, received, dropped>>
    BY <1>3 DEF WorkerProcess, Answer, OfferError, envVars, TypeInv, HandsMatch
  <2>3. job \in Job /\ job.rec = held[w].rec
    BY <2>2 DEF Job
  <2>4. held' = [held EXCEPT ![w] = job]
    BY <2>1
  <2> HIDE DEF job
  <2>5. DistinctInHand' /\ InHand' = InHand
    BY <1>0, <1>t, <2>2, <2>3, <2>4, HandKeeps
  <2>6. DistinctInput' /\ InInput' = InInput /\ DistinctOutput' /\ InOutput' = InOutput
    BY <1>0, <2>2 DEF DistinctInput, DistinctOutput, InInput, InOutput
  <2>7. Disjoint' /\ Follow
    BY <2>2, <2>5, <2>6 DEF Disjoint, Placed, Follow
  <2>8. NoDuplicates'
    BY <2>5, <2>6 DEF NoDuplicates, DistinctInput, DistinctOutput, DistinctInHand
  <2> QED
    BY <2>7, <2>8
<1>4. ASSUME NEW w \in Workers, WorkerSend(w), UNCHANGED envVars PROVE Kept
  <2> DEFINE r == held[w].rec
  <2>1. /\ held[w] \in Job /\ held' = [held EXCEPT ![w] = NoJob]
        /\ outputCh' = Append(outputCh, held[w])
        /\ UNCHANGED <<inputCh, supplied, received, dropped>>
    BY <1>4 DEF WorkerSend, PutResult, envVars, TypeInv, HandsMatch
  <2>2. DistinctInHand' /\ InHand' = InHand \ {r} /\ r \in InHand
    BY <1>0, <1>t, <2>1, HandGives
  <2>3. r \notin InOutput
    BY <2>2 DEF Disjoint
  <2>4. DistinctOutput' /\ InOutput' = InOutput \cup {r}
    BY <1>0, <1>t, <2>1, <2>3, AppendToDistinctJobs DEF DistinctOutput, InOutput
  <2>5. DistinctInput' /\ InInput' = InInput
    BY <1>0, <2>1 DEF DistinctInput, InInput
  <2>6. Disjoint' /\ Follow
    BY <2>1, <2>2, <2>4, <2>5 DEF Disjoint, Placed, Follow
  <2>7. NoDuplicates'
    BY <2>2, <2>4, <2>5 DEF NoDuplicates, DistinctInput, DistinctOutput, DistinctInHand
  <2> QED
    BY <2>6, <2>7
<1>5. ASSUME NEW w \in Workers, WorkerDrop(w), UNCHANGED envVars PROVE Kept
  <2> DEFINE r == held[w].rec
  <2>1. /\ held[w] \in Job /\ held' = [held EXCEPT ![w] = NoJob]
        /\ dropped' = dropped \cup {r}
        /\ UNCHANGED <<inputCh, outputCh, supplied, received>>
    BY <1>5 DEF WorkerDrop, GiveUp, envVars, outVars, TypeInv, HandsMatch
  <2>2. DistinctInHand' /\ InHand' = InHand \ {r} /\ r \in InHand
    BY <1>0, <1>t, <2>1, HandGives
  <2>3. DistinctInput' /\ InInput' = InInput /\ DistinctOutput' /\ InOutput' = InOutput
    BY <1>0, <2>1 DEF DistinctInput, DistinctOutput, InInput, InOutput
  <2>4. Disjoint' /\ Follow
    BY <2>1, <2>2, <2>3 DEF Disjoint, Placed, Follow
  <2>5. NoDuplicates'
    BY <2>2, <2>3 DEF NoDuplicates, DistinctInput, DistinctOutput, DistinctInHand
  <2> QED
    BY <2>4, <2>5
<1>6. ASSUME NEW r \in Records, Supply(r) PROVE Kept
  <2>1. /\ inputCh' = Append(inputCh, r) /\ supplied' = supplied \cup {r} /\ r \notin supplied
        /\ UNCHANGED <<outputCh, held, received, dropped>>
    BY <1>6 DEF Supply, outVars, workerVars
  <2>2. r \notin InInput
    BY <2>1 DEF Placed
  <2>3. DistinctInput' /\ InInput' = InInput \cup {r}
    BY <1>0, <1>t, <2>1, <2>2, AppendToDistinct DEF DistinctInput, InInput
  <2>4. DistinctOutput' /\ InOutput' = InOutput /\ DistinctInHand' /\ InHand' = InHand
    BY <1>0, <2>1 DEF DistinctOutput, InOutput, DistinctInHand, InHand, Busy
  <2>5. Disjoint' /\ Follow
    BY <2>1, <2>3, <2>4 DEF Disjoint, Placed, Follow
  <2>6. NoDuplicates'
    BY <2>3, <2>4 DEF NoDuplicates, DistinctInput, DistinctOutput, DistinctInHand
  <2> QED
    BY <2>5, <2>6
<1>7. ASSUME Consume PROVE Kept
  <2> DEFINE r == Head(outputCh).rec
  <2>1. /\ outputCh # <<>> /\ outputCh' = Tail(outputCh) /\ received' = received \cup {r}
        /\ UNCHANGED <<inputCh, held, supplied, dropped>>
    BY <1>7 DEF Consume, workerVars
  <2>2. DistinctOutput' /\ InOutput' = InOutput \ {r} /\ r \in InOutput
    <3>1. \A i, j \in 1 .. Len(outputCh) : outputCh[i].rec = outputCh[j].rec => i = j
      BY <1>0 DEF DistinctOutput
    <3>2. LET t == Tail(outputCh) IN
          /\ \A i, j \in 1 .. Len(t) : t[i].rec = t[j].rec => i = j
          /\ {t[i].rec : i \in 1 .. Len(t)}
               = {outputCh[i].rec : i \in 1 .. Len(outputCh)} \ {r}
          /\ r \in {outputCh[i].rec : i \in 1 .. Len(outputCh)}
      BY <1>t, <2>1, <3>1, TailOfDistinctJobs
    <3> QED
      BY <2>1, <3>2 DEF DistinctOutput, InOutput
  <2>3. DistinctInput' /\ InInput' = InInput /\ DistinctInHand' /\ InHand' = InHand
    BY <1>0, <2>1 DEF DistinctInput, InInput, DistinctInHand, InHand, Busy
  <2>4. Disjoint' /\ Follow
    BY <2>1, <2>2, <2>3 DEF Disjoint, Placed, Follow
  <2>5. NoDuplicates'
    BY <2>2, <2>3 DEF NoDuplicates, DistinctInput, DistinctOutput, DistinctInHand
  <2> QED
    BY <2>4, <2>5
<1>8. ASSUME NEW w \in Workers, AddWorker(w) \/ WorkerStop(w) \/ WorkerInputClosed(w),
             UNCHANGED envVars
      PROVE  Kept
  BY <1>1, <1>8 DEF AddWorker, WorkerStop, WorkerInputClosed, InputEnds, envVars, outVars
<1>9. ASSUME BeginStart \/ FinishStart \/ CloserStep \/ Stop \/ WaitReturns, UNCHANGED envVars
      PROVE  Kept
  BY <1>1, <1>9 DEF BeginStart, FinishStart, CloserStep, CloseOutput, CloseResults, CloseErrors, Stop,
                    WaitReturns, envVars, outVars, workerVars
<1>10. ASSUME CloseInput \/ ConsumeError \/ UNCHANGED vars PROVE Kept
  BY <1>1, <1>10 DEF CloseInput, ConsumeError, vars, poolVars, envVars, outVars, workerVars
<1> QED
  BY <1>2, <1>3, <1>4, <1>5, <1>6, <1>7, <1>8, <1>9, <1>10
  DEF Next, PoolStep, EnvStep, WorkerStep, Terminated

LEMMA OnceStep == TypeInv /\ ExactlyOnce /\ [Next]_vars => ExactlyOnce'
<1> SUFFICES ASSUME TypeInv, ExactlyOnce, [Next]_vars PROVE ExactlyOnce'
  OBVIOUS
<1>1. NoDuplicates /\ Disjoint /\ Placed = supplied
  BY DEF ExactlyOnce, Located, Placed
<1>2. NoDuplicates' /\ Disjoint' /\ Follow
  BY <1>1, PlacesStep
<1>3. Located'
  BY <1>1, <1>2 DEF Follow, Placed, Located
<1> QED
  BY <1>2, <1>3 DEF ExactlyOnce

\* Exactly-once: in every behaviour every supplied record is in exactly one
\* place, so no result is delivered twice and none disappears (pool.go worker).
THEOREM ExactlyOnceCorrect == Safety => []ExactlyOnce
  BY TypeInit, TypeStep, OnceInit, OnceStep, PTL DEF Safety

\* A consumer that reads Results to the end has a result for every record that
\* was supplied, unless the pool was cancelled (pool.go 102-159).
THEOREM DeliveryCorrect == Safety => []CompleteDelivery
<1>1. TypeInv /\ Lifecycle /\ ExactlyOnce => CompleteDelivery
  <2> SUFFICES ASSUME TypeInv, Lifecycle, ExactlyOnce,
                      outputClosed, outputCh = <<>>, ~poolCtx
               PROVE  inputClosed /\ received = supplied
    BY DEF CompleteDelivery
  <2>1. \A w \in Workers : wpc[w] = "exited"
    BY DEF Lifecycle
  <2>2. inputClosed /\ inputCh = <<>> /\ dropped = {}
    BY <2>1, WorkersAssumption DEF Lifecycle
  <2>3. Busy = {}
    BY <2>1 DEF Busy, TypeInv, HandsMatch
  <2>4. Len(<<>>) = 0 /\ 1 .. 0 = {}
    OBVIOUS
  <2>5. InInput = {} /\ InOutput = {} /\ InHand = {}
    BY <2>2, <2>3, <2>4 DEF InInput, InOutput, InHand
  <2> QED
    BY <2>2, <2>5 DEF ExactlyOnce, Located
<1> QED
  BY TypeInit, TypeStep, LifecycleInit, LifecycleStep, OnceInit, OnceStep, <1>1, PTL DEF Safety

-----------------------------------------------------------------------------
(* Losses.                                                                 *)

Exited == {w \in Workers : wpc[w] = "exited"}

LossInv == IsFiniteSet(dropped) /\ Cardinality(dropped) <= Cardinality(Exited)

LEMMA LossInit == Init => LossInv
<1> SUFFICES ASSUME Init PROVE LossInv
  OBVIOUS
<1>1. dropped = {} /\ Exited = {}
  BY DEF Init, PoolInit, Exited
<1> QED
  BY <1>1, FS_EmptySet DEF LossInv

LEMMA ExitedFinite == IsFiniteSet(Exited) /\ Cardinality(Exited) \in Nat
<1>1. Exited \in SUBSET Workers
  BY DEF Exited
<1> QED
  BY <1>1, WorkersAssumption, FS_Subset, FS_CardinalityType

\* A step loses nothing, or it loses one result and one worker exits with it.
Loses ==
    \/ dropped' = dropped /\ Cardinality(Exited') >= Cardinality(Exited)
    \/ /\ \E r \in Records : dropped' = dropped \cup {r}
       /\ Cardinality(Exited') = Cardinality(Exited) + 1

LEMMA LosesStep == TypeInv /\ [Next]_vars => Loses
<1> SUFFICES ASSUME TypeInv, [Next]_vars PROVE Loses
  OBVIOUS
<1>t. wpc \in [Workers -> {"none", "select", "process", "send", "exited"}]
  BY DEF TypeInv, TypeOK
<1>f. IsFiniteSet(Exited) /\ Cardinality(Exited) \in Nat
  BY ExitedFinite
<1>1. ASSUME UNCHANGED <<wpc, dropped>> PROVE Loses
  <2>1. Exited' = Exited
    BY <1>1 DEF Exited
  <2> QED
    BY <1>1, <1>f, <2>1 DEF Loses
<1>2. ASSUME NEW w \in Workers, wpc[w] # "exited", NEW pc, pc # "exited",
             wpc' = [wpc EXCEPT ![w] = pc], UNCHANGED dropped
      PROVE  Loses
  <2>1. Exited' = Exited
    BY <1>2, <1>t DEF Exited
  <2> QED
    BY <1>2, <1>f, <2>1 DEF Loses
<1>3. ASSUME NEW w \in Workers, wpc[w] # "exited", wpc' = [wpc EXCEPT ![w] = "exited"]
      PROVE  Cardinality(Exited') = Cardinality(Exited) + 1
  <2>1. Exited' = Exited \cup {w} /\ w \notin Exited
    BY <1>3, <1>t DEF Exited
  <2> QED
    BY <1>f, <2>1, FS_AddElement
<1>4. ASSUME NEW w \in Workers, AddWorker(w) PROVE Loses
  BY <1>2, <1>4 DEF AddWorker
<1>5. ASSUME NEW w \in Workers, WorkerStep(w) PROVE Loses
  <2>1. CASE WorkerStop(w) \/ WorkerInputClosed(w)
    <3>1. UNCHANGED dropped /\ Cardinality(Exited') = Cardinality(Exited) + 1
      BY <1>3, <2>1 DEF WorkerStop, WorkerInputClosed, InputEnds
    <3> QED
      BY <1>f, <3>1 DEF Loses
  <2>2. CASE WorkerReceive(w) \/ WorkerProcess(w)
    BY <1>2, <2>2 DEF WorkerReceive, WorkerProcess, Answer
  <2>3. CASE WorkerSend(w)
    BY <1>2, <2>3 DEF WorkerSend, PutResult
  <2>4. CASE WorkerDrop(w)
    <3>1. dropped' = dropped \cup {held[w].rec} /\ Cardinality(Exited') = Cardinality(Exited) + 1
      BY <1>3, <2>4 DEF WorkerDrop, GiveUp
    <3>2. held[w].rec \in Records
      BY <2>4 DEF WorkerDrop, GiveUp, TypeInv, HandsMatch, Job
    <3> QED
      BY <3>1, <3>2 DEF Loses
  <2> QED
    BY <1>5, <2>1, <2>2, <2>3, <2>4 DEF WorkerStep
<1>6. CASE BeginStart \/ FinishStart \/ CloserStep \/ Stop \/ WaitReturns
  BY <1>1, <1>6 DEF BeginStart, FinishStart, CloserStep, CloseOutput, CloseResults, CloseErrors, Stop,
     WaitReturns, workerVars
<1>7. CASE EnvStep \/ UNCHANGED vars
  BY <1>1, <1>7 DEF EnvStep, CloseInput, Consume, ConsumeError, Supply, vars, poolVars, workerVars
<1> QED
  BY <1>4, <1>5, <1>6, <1>7 DEF Next, PoolStep, Terminated

LEMMA LossStep == TypeInv /\ LossInv /\ [Next]_vars => LossInv'
<1> SUFFICES ASSUME TypeInv, LossInv, [Next]_vars PROVE LossInv'
  OBVIOUS
<1>1. Loses
  BY LosesStep
<1>2. /\ IsFiniteSet(dropped) /\ Cardinality(dropped) \in Nat /\ Cardinality(Exited) \in Nat
      /\ Cardinality(dropped) <= Cardinality(Exited) /\ Cardinality(Exited') \in Nat
  <2>1. Cardinality(Exited) \in Nat /\ Cardinality(Exited') \in Nat
    <3>1. Exited \in SUBSET Workers /\ Exited' \in SUBSET Workers
      BY DEF Exited
    <3> QED
      BY <3>1, WorkersAssumption, FS_Subset, FS_CardinalityType
  <2> QED
    BY <2>1, FS_CardinalityType DEF LossInv
<1>3. CASE dropped' = dropped /\ Cardinality(Exited') >= Cardinality(Exited)
  BY <1>2, <1>3 DEF LossInv
<1>4. ASSUME NEW r \in Records, dropped' = dropped \cup {r},
             Cardinality(Exited') = Cardinality(Exited) + 1
      PROVE  LossInv'
  <2>1. /\ IsFiniteSet(dropped')
        /\ \/ Cardinality(dropped') = Cardinality(dropped)
           \/ Cardinality(dropped') = Cardinality(dropped) + 1
    BY <1>2, <1>4, FS_AddElement
  <2>2. Cardinality(dropped') <= Cardinality(dropped) + 1 /\ Cardinality(dropped') \in Nat
    BY <1>2, <2>1
  <2> QED
    BY <1>2, <1>4, <2>1, <2>2 DEF LossInv
<1> QED
  BY <1>1, <1>3, <1>4 DEF Loses

\* Results are lost to a cancellation only, and at most one for each worker that has
\* exited, whatever the number of workers (pool.go 150-157).
THEOREM LossCorrect == Safety => []LossBounded
<1>1. Lifecycle /\ LossInv => LossBounded
  BY DEF Lifecycle, LossInv, Exited, LossBounded
<1> QED
  BY TypeInit, TypeStep, LifecycleInit, LifecycleStep, LossInit, LossStep, <1>1, PTL DEF Safety

-----------------------------------------------------------------------------
(* Results carry the processor's answer.                                   *)

\* What a worker sends, and what waits in outputCh, has been answered.
Answered ==
    /\ \A w \in Workers : wpc[w] = "send" => held[w].outcome \in AllOutcomes
    /\ \A i \in 1 .. Len(outputCh) : outputCh[i].outcome \in AllOutcomes

LEMMA AnsweredInit == Init => Answered
<1> SUFFICES ASSUME Init PROVE Answered
  OBVIOUS
<1>1. outputCh = <<>> /\ Len(<<>>) = 0 /\ 1 .. 0 = {}
  BY DEF Init, PoolInit
<1> QED
  BY <1>1 DEF Init, PoolInit, Answered

LEMMA AnsweredStep == TypeInv /\ Answered /\ [Next]_vars => Answered'
<1> SUFFICES ASSUME TypeInv, Answered, [Next]_vars PROVE Answered'
  OBVIOUS
<1>t. /\ outputCh \in Seq(Job) /\ held \in [Workers -> Job \cup {NoJob}]
      /\ wpc \in [Workers -> {"none", "select", "process", "send", "exited"}]
  BY DEF TypeInv, TypeOK
\* A worker that comes to its send elsewhere than from the processor: there is none.
<1>1. ASSUME NEW w \in Workers, NEW pc, pc # "send", wpc' = [wpc EXCEPT ![w] = pc],
             \A v \in Workers \ {w} : held'[v] = held[v], UNCHANGED outputCh
      PROVE  Answered'
  BY <1>1, <1>t DEF Answered
<1>2. ASSUME NEW w \in Workers, AddWorker(w) \/ WorkerStop(w) \/ WorkerInputClosed(w)
      PROVE  Answered'
  BY <1>1, <1>2 DEF AddWorker, WorkerStop, WorkerInputClosed, InputEnds, outVars
<1>3. ASSUME NEW w \in Workers, WorkerReceive(w) \/ WorkerDrop(w) PROVE Answered'
  <2>1. \A v \in Workers \ {w} : held'[v] = held[v]
    BY <1>3, <1>t DEF WorkerReceive, WorkerDrop, GiveUp
  <2> QED
    BY <1>1, <1>3, <2>1 DEF WorkerReceive, WorkerDrop, GiveUp, outVars
<1>4. ASSUME NEW w \in Workers, WorkerProcess(w) PROVE Answered'
  <2>1. PICK o \in AllOutcomes : Answer(w, o)
    BY <1>4 DEF WorkerProcess
  <2>2. /\ held'[w].outcome = o /\ UNCHANGED outputCh
        /\ \A v \in Workers \ {w} : held'[v] = held[v] /\ wpc'[v] = wpc[v]
    BY <1>t, <2>1 DEF Answer
  <2> QED
    BY <2>2 DEF Answered
<1>5. ASSUME NEW w \in Workers, WorkerSend(w) PROVE Answered'
  <2>1. /\ wpc[w] = "send" /\ outputCh' = Append(outputCh, held[w])
        /\ wpc' = [wpc EXCEPT ![w] = "select"] /\ held' = [held EXCEPT ![w] = NoJob]
    BY <1>5 DEF WorkerSend, PutResult
  <2>2. \A v \in Workers \ {w} : held'[v] = held[v] /\ wpc'[v] = wpc[v]
    BY <1>t, <2>1
  <2>3. wpc'[w] = "select"
    BY <1>t, <2>1
  <2>4. held[w] \in Job /\ held[w].outcome \in AllOutcomes
    BY <2>1 DEF TypeInv, HandsMatch, Answered
  <2>5. \A i \in 1 .. Len(outputCh') : outputCh'[i].outcome \in AllOutcomes
    <3>1. /\ Len(outputCh) \in Nat /\ Len(outputCh') = Len(outputCh) + 1
          /\ outputCh'[Len(outputCh) + 1] = held[w]
          /\ \A i \in 1 .. Len(outputCh) : outputCh'[i] = outputCh[i]
      BY <1>t, <2>1, <2>4, AppendProperties, LenProperties
    <3>2. \A i \in 1 .. Len(outputCh) + 1 : i \in 1 .. Len(outputCh) \/ i = Len(outputCh) + 1
      BY <3>1
    <3> QED
      BY <2>4, <3>1, <3>2 DEF Answered
  <2> QED
    BY <2>2, <2>3, <2>5 DEF Answered
<1>6. CASE Consume
  <2>1. outputCh # <<>> /\ outputCh' = Tail(outputCh) /\ UNCHANGED <<wpc, held>>
    BY <1>6 DEF Consume, workerVars
  <2>2. /\ Len(outputCh') = Len(outputCh) - 1 /\ Len(outputCh) \in Nat
        /\ \A i \in 1 .. Len(outputCh') : outputCh'[i] = outputCh[i + 1]
    BY <1>t, <2>1, HeadTailProperties, LenProperties
  <2>3. \A i \in 1 .. Len(outputCh') : i + 1 \in 1 .. Len(outputCh)
    BY <2>2
  <2> QED
    BY <2>1, <2>2, <2>3 DEF Answered
<1>7. CASE UNCHANGED <<wpc, held, outputCh>>
  BY <1>7 DEF Answered
<1>8. CASE BeginStart \/ FinishStart \/ CloserStep \/ Stop \/ WaitReturns
  BY <1>7, <1>8 DEF BeginStart, FinishStart, CloserStep, CloseOutput, CloseResults, CloseErrors, Stop,
     WaitReturns, outVars, workerVars
<1>9. CASE CloseInput \/ ConsumeError \/ (\E r \in Records : Supply(r)) \/ UNCHANGED vars
  BY <1>7, <1>9 DEF CloseInput, ConsumeError, Supply, vars, poolVars, outVars, workerVars
<1> QED
  BY <1>2, <1>3, <1>4, <1>5, <1>6, <1>8, <1>9
  DEF Next, PoolStep, WorkerStep, EnvStep, Terminated
=============================================================================
