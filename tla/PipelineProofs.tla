---------------------------- MODULE PipelineProofs ----------------------------
(***************************************************************************)
(* Proofs about the pipeline of Pipeline.tla, for any finite sets of files *)
(* and workers, any contents, buffer sizes, thresholds and interrupts.     *)
(*                                                                         *)
(* A step of the pipeline is a step of the reader, of the pool, of both at *)
(* once (a record that one sends and the other takes) or of neither.  The  *)
(* theorems about the two components then hold of the pipeline, and what   *)
(* the handlers add is proved on top of them.                              *)
(***************************************************************************)
EXTENDS Pipeline, SequenceTheorems, FiniteSetTheorems, TLAPS

\* The components with the theorems about them.
ReaderP == INSTANCE CSVReaderProofs WITH taken <- Taken, reported <- Reported

PoolP == INSTANCE WorkerPoolProofs WITH
            Records <- AllRecords, InCap <- RecordCap, EarlyStop <- TRUE,
            inputCh <- recordCh, inputClosed <- recordClosed,
            supplied <- Supplied, received <- Handled

-----------------------------------------------------------------------------
(* The assumptions of the components hold of the pipeline's constants.     *)

LEMMA SameCardinality ==
  \A S : /\ Cardinality(S) = PoolP!Cardinality(S) /\ Cardinality(S) = ReaderP!Cardinality(S)
         /\ Cardinality(S) = Reader!Cardinality(S)
  BY Zenon DEF Cardinality, PoolP!Cardinality, ReaderP!Cardinality, Reader!Cardinality

LEMMA SameFinite ==
  \A S : /\ IsFiniteSet(S) <=> PoolP!IsFiniteSet(S)
         /\ IsFiniteSet(S) <=> ReaderP!IsFiniteSet(S)
  BY Zenon DEF IsFiniteSet, PoolP!IsFiniteSet, ReaderP!IsFiniteSet

LEMMA CapsPositive ==
  RecordCap \in Nat \ {0} /\ OutCap \in Nat \ {0} /\ ErrCap \in Nat \ {0}
<1>1. Cardinality(Workers) \in Nat \ {0}
  BY PipelineAssumption, FS_CardinalityType, FS_EmptySet
<1>2. BufferSize \in Nat /\ ErrCap \in Nat \ {0}
  BY PipelineAssumption
<1> HIDE DEF Cardinality
<1> QED
  BY <1>1, <1>2 DEF RecordCap, OutCap

LEMMA PoolAssumed ==
  /\ PoolP!WorkersAssumption /\ PoolP!CapAssumption /\ PoolP!OutcomesAssumption
  /\ PoolP!NoJobAssumption /\ PoolP!EarlyStopAssumption
<1>1. PoolP!WorkersAssumption
  BY PipelineAssumption, SameFinite DEF PoolP!WorkersAssumption
<1>2. PoolP!CapAssumption
  BY CapsPositive DEF PoolP!CapAssumption
<1>3. PoolP!OutcomesAssumption /\ PoolP!NoJobAssumption
  BY OutcomesAssumption DEF PoolP!OutcomesAssumption, PoolP!NoJobAssumption, PoolP!AllOutcomes,
     PoolP!Job, Pool!AllOutcomes, Pool!Job
<1> QED
  BY <1>1, <1>2, <1>3 DEF PoolP!EarlyStopAssumption

LEMMA ReaderAssumed ==
  /\ ReaderP!FilesAssumption /\ ReaderP!RecordCapAssumption /\ ReaderP!FlagsAssumption
  /\ ReaderP!ContentsAssumption /\ ReaderP!RowsAssumption
<1>1. ReaderP!FilesAssumption
  BY PipelineAssumption, SameFinite DEF ReaderP!FilesAssumption
<1>2. ReaderP!RecordCapAssumption
  BY CapsPositive DEF ReaderP!RecordCapAssumption
<1>3. ReaderP!FlagsAssumption
  BY PipelineAssumption DEF ReaderP!FlagsAssumption
<1> QED
  BY <1>1, <1>2, <1>3, ContentsAssumption DEF ReaderP!ContentsAssumption, ReaderP!RowsAssumption

-----------------------------------------------------------------------------
(* Counting in a sequence.                                                 *)

\* The places of s that hold an element of P.
Places(s, P) == {i \in DOMAIN s : s[i] \in P}

LEMMA PlacesFinite ==
  ASSUME NEW S, NEW s \in Seq(S), NEW P
  PROVE  IsFiniteSet(Places(s, P)) /\ Cardinality(Places(s, P)) \in Nat
<1>1. DOMAIN s = 1 .. Len(s) /\ Len(s) \in Nat
  BY LenProperties
<1>2. Places(s, P) \in SUBSET (1 .. Len(s))
  BY <1>1 DEF Places
<1>3. IsFiniteSet(1 .. Len(s))
  BY <1>1, FS_Interval
<1>4. IsFiniteSet(Places(s, P))
  BY <1>2, <1>3, FS_Subset
<1> QED
  BY <1>4, FS_CardinalityType

LEMMA PlacesAppend ==
  ASSUME NEW S, NEW s \in Seq(S), NEW e \in S, NEW P
  PROVE  Cardinality(Places(Append(s, e), P)) =
           IF e \in P THEN Cardinality(Places(s, P)) + 1 ELSE Cardinality(Places(s, P))
<1> DEFINE t == Append(s, e)  n == Len(s) + 1
<1>1. /\ Len(s) \in Nat /\ DOMAIN s = 1 .. Len(s) /\ DOMAIN t = 1 .. n /\ t[n] = e
      /\ \A i \in 1 .. Len(s) : t[i] = s[i]
  BY AppendProperties, LenProperties
<1> HIDE DEF t
<1>2. 1 .. n = (1 .. Len(s)) \cup {n} /\ n \notin 1 .. Len(s)
  BY <1>1
<1>3. Places(t, P) = IF e \in P THEN Places(s, P) \cup {n} ELSE Places(s, P)
  BY <1>1, <1>2 DEF Places
<1>4. n \notin Places(s, P)
  BY <1>1, <1>2 DEF Places
<1>5. IsFiniteSet(Places(s, P))
  BY PlacesFinite
<1>6. Cardinality(Places(s, P) \cup {n}) = Cardinality(Places(s, P)) + 1
  BY ONLY <1>4, <1>5, FS_AddElement
<1> QED
  BY <1>3, <1>6 DEF t

LEMMA PlacesTail ==
  ASSUME NEW S, NEW s \in Seq(S), s # <<>>, NEW P
  PROVE  Cardinality(Places(Tail(s), P)) =
           IF Head(s) \in P THEN Cardinality(Places(s, P)) - 1 ELSE Cardinality(Places(s, P))
<1> DEFINE t == Tail(s)  T == Places(t, P)  R == Places(s, P) \ {1}
           shift == [i \in T |-> i + 1]
<1>1. /\ Len(s) \in Nat \ {0} /\ Len(t) = Len(s) - 1 /\ Head(s) = s[1] /\ t \in Seq(S)
      /\ DOMAIN s = 1 .. Len(s) /\ DOMAIN t = 1 .. Len(t)
      /\ \A i \in 1 .. Len(t) : t[i] = s[i + 1]
  BY HeadTailProperties, EmptySeq, LenProperties
<1> HIDE DEF t
<1>2. \A i \in T : i \in Nat /\ i + 1 \in R
  BY <1>1 DEF Places
<1>3. \A k \in R : k - 1 \in T /\ k = (k - 1) + 1
  BY <1>1 DEF Places
<1> HIDE DEF T, R
<1>4. shift \in Bijection(T, R)
  <2>1. shift \in [T -> R]
    BY <1>2
  <2>2. \A i, j \in T : shift[i] = shift[j] => i = j
    BY <1>2
  <2>3. \A k \in R : \E i \in T : shift[i] = k
    BY <1>3
  <2> QED
    BY <2>1, <2>2, <2>3 DEF Bijection, Injection, Surjection, IsInjective
<1>5. IsFiniteSet(T)
  BY <1>1, PlacesFinite DEF T
<1>6. Cardinality(R) = Cardinality(T)
  BY <1>4, <1>5, FS_Bijection DEF ExistsBijection
<1>7. 1 \in Places(s, P) <=> Head(s) \in P
  BY <1>1 DEF Places
<1>8. IsFiniteSet(Places(s, P)) /\ Cardinality(Places(s, P)) \in Nat
  BY PlacesFinite
<1>9. Cardinality(R) = IF Head(s) \in P THEN Cardinality(Places(s, P)) - 1
                                        ELSE Cardinality(Places(s, P))
  BY <1>7, <1>8, FS_RemoveElement DEF R
<1> QED
  BY <1>6, <1>9 DEF T, t

-----------------------------------------------------------------------------
(* What the pipeline's state says of the components' histories.            *)

Record == Files \X (Nat \ {0})
OfFile(f) == {r \in Record : r[1] = f}

ReaderTypes ==
    /\ recordCh \in Seq(Record)
    /\ errCh \in Seq([file : Files, kind : ReaderP!Kinds])
    /\ line \in [Files -> Nat] /\ sent \in [Files -> Nat]
    /\ rpc \in [Files -> {"none", "open", "header", "loop", "send", "validate", "report", "done"}]
    /\ rerr \in [Files -> ReaderP!Kinds \cup {"nil"}]

LEMMA ReaderTyped == ReaderP!TypeInv => ReaderTypes
  BY DEF ReaderP!TypeInv, ReaderP!TypeOK, ReaderTypes, Record

LEMMA TakenIs ==
  recordCh \in Seq(Record) =>
      Taken = [f \in Files |-> sent[f] - Cardinality(Places(recordCh, OfFile(f)))]
<1> SUFFICES ASSUME recordCh \in Seq(Record)
             PROVE  Taken = [f \in Files |-> sent[f] - Cardinality(Places(recordCh, OfFile(f)))]
  OBVIOUS
<1>1. \A i \in DOMAIN recordCh : recordCh[i] \in Record
  BY ElementOfSeq, LenProperties
<1>2. \A f \in Files : {i \in DOMAIN recordCh : recordCh[i][1] = f} = Places(recordCh, OfFile(f))
  BY <1>1 DEF Places, OfFile
<1> QED
  BY <1>2 DEF Taken

LEMMA TakenIsNext ==
  recordCh' \in Seq(Record) =>
      Taken' = [f \in Files |-> sent'[f] - Cardinality(Places(recordCh', OfFile(f)))]
<1>1. (recordCh \in Seq(Record) =>
        Taken = [f \in Files |-> sent[f] - Cardinality(Places(recordCh, OfFile(f)))])'
  BY TakenIs, PTL
<1> QED
  BY <1>1 DEF Places, OfFile, Record

\* A record that a goroutine sends is not taken yet.
LEMMA TakenSends ==
  ASSUME ReaderTypes, NEW f \in Files, NEW n \in Nat \ {0},
         recordCh' = Append(recordCh, <<f, n>>), sent' = [sent EXCEPT ![f] = @ + 1]
  PROVE  Taken' = Taken
<1>1. /\ recordCh \in Seq(Record) /\ <<f, n>> \in Record /\ sent \in [Files -> Nat]
      /\ recordCh' \in Seq(Record)
  BY AppendProperties DEF ReaderTypes, Record
<1>2. ASSUME NEW g \in Files
      PROVE  sent'[g] - Cardinality(Places(recordCh', OfFile(g)))
               = sent[g] - Cardinality(Places(recordCh, OfFile(g)))
  <2> DEFINE c == Cardinality(Places(recordCh, OfFile(g)))
             d == Cardinality(Places(recordCh', OfFile(g)))
  <2>1. d = IF <<f, n>> \in OfFile(g) THEN c + 1 ELSE c
    BY <1>1, PlacesAppend
  <2>2. c \in Nat
    BY <1>1, PlacesFinite
  <2>3. <<f, n>> \in OfFile(g) <=> g = f
    BY <1>1 DEF OfFile
  <2>4. sent[g] \in Nat /\ sent'[g] = IF g = f THEN sent[g] + 1 ELSE sent[g]
    BY <1>1
  <2> HIDE DEF c, d
  <2>5. sent'[g] - d = sent[g] - c
    BY <2>1, <2>2, <2>3, <2>4
  <2> QED
    BY <2>5 DEF c, d
<1>3. Taken' = [g \in Files |-> sent'[g] - Cardinality(Places(recordCh', OfFile(g)))]
  BY <1>1, TakenIsNext
<1> QED
  BY <1>1, <1>2, <1>3, TakenIs

LEMMA TakenStays ==
  ASSUME UNCHANGED <<sent, recordCh>>
  PROVE  Taken' = Taken
  BY DEF Taken

\* A record that a worker receives is taken from its file.
LEMMA TakenReceives ==
  ASSUME ReaderTypes, recordCh # <<>>, recordCh' = Tail(recordCh), UNCHANGED sent
  PROVE  Taken' = [Taken EXCEPT ![Head(recordCh)[1]] = @ + 1]
<1>1. /\ recordCh \in Seq(Record) /\ sent \in [Files -> Nat]
      /\ recordCh' \in Seq(Record) /\ Head(recordCh) \in Record
  BY HeadTailProperties DEF ReaderTypes
<1>2. PICK f \in Files : f = Head(recordCh)[1]
  BY <1>1 DEF Record
<1>3. Taken = [g \in Files |-> sent[g] - Cardinality(Places(recordCh, OfFile(g)))]
  BY <1>1, TakenIs
<1>4. Taken' = [g \in Files |-> sent[g] - Cardinality(Places(recordCh', OfFile(g)))]
  BY <1>1, TakenIsNext
<1>5. ASSUME NEW g \in Files
      PROVE  Taken'[g] = IF g = f THEN Taken[g] + 1 ELSE Taken[g]
  <2> DEFINE c == Cardinality(Places(recordCh, OfFile(g)))
             d == Cardinality(Places(recordCh', OfFile(g)))
  <2>1. d = IF Head(recordCh) \in OfFile(g) THEN c - 1 ELSE c
    BY <1>1, PlacesTail
  <2>2. c \in Nat
    BY <1>1, PlacesFinite
  <2>3. Head(recordCh) \in OfFile(g) <=> g = f
    BY <1>1, <1>2 DEF OfFile
  <2>4. sent[g] \in Nat /\ Taken[g] = sent[g] - c /\ Taken'[g] = sent[g] - d
    BY <1>1, <1>3, <1>4
  <2> HIDE DEF c, d
  <2> QED
    BY <2>1, <2>2, <2>3, <2>4
<1>6. DOMAIN Taken = Files /\ Taken' = [g \in Files |-> Taken'[g]]
  BY <1>3, <1>4
<1> HIDE DEF Taken
<1>7. Taken' = [g \in Files |-> IF g = f THEN Taken[g] + 1 ELSE Taken[g]]
  BY <1>5, <1>6
<1>8. Taken = [g \in Files |-> Taken[g]]
  BY <1>3
<1>9. [Taken EXCEPT ![f] = @ + 1] = [g \in Files |-> IF g = f THEN Taken[g] + 1 ELSE Taken[g]]
  BY <1>8
<1> QED
  BY <1>2, <1>7, <1>9

\* The errors of the goroutines that are done, and those of them still in errCh.
DoneErrors == {[file |-> f, kind |-> rerr[f]] : f \in {g \in Files : rpc[g] = "done" /\ rerr[g] # "nil"}}
InErrCh == {errCh[i] : i \in 1 .. Len(errCh)}

LEMMA ReportedIs == Reported = DoneErrors \ InErrCh
  BY DEF Reported, DoneErrors, InErrCh

LEMMA ReportedStays ==
  ASSUME UNCHANGED <<rpc, rerr, errCh>>
  PROVE  Reported' = Reported
  BY DEF Reported

\* A goroutine that moves without coming to its end with an error reports nothing.
LEMMA ReportedMoves ==
  ASSUME NEW f \in Files, \A g \in Files \ {f} : rpc'[g] = rpc[g] /\ rerr'[g] = rerr[g],
         rpc[f] = "done" => rerr[f] = "nil", rpc'[f] = "done" => rerr'[f] = "nil",
         UNCHANGED errCh
  PROVE  Reported' = Reported
<1>1. {g \in Files : rpc'[g] = "done" /\ rerr'[g] # "nil"}
        = {g \in Files : rpc[g] = "done" /\ rerr[g] # "nil"}
  OBVIOUS
<1>2. \A g \in Files : rpc[g] = "done" /\ rerr[g] # "nil" => rerr'[g] = rerr[g]
  OBVIOUS
<1>3. DoneErrors' = DoneErrors
  BY <1>1, <1>2 DEF DoneErrors
<1> QED
  BY <1>3 DEF Reported, DoneErrors

\* An error that is sent to errCh is not received yet.
LEMMA ReportedSends ==
  ASSUME ReaderTypes, NEW f \in Files, rpc[f] = "report", rerr[f] # "nil",
         rpc' = [rpc EXCEPT ![f] = "done"], UNCHANGED rerr,
         errCh' = Append(errCh, [file |-> f, kind |-> rerr[f]])
  PROVE  Reported' = Reported
<1> DEFINE e == [file |-> f, kind |-> rerr[f]]
<1>1. rpc'[f] = "done" /\ \A g \in Files \ {f} : rpc'[g] = rpc[g]
  BY DEF ReaderTypes
<1>2. DoneErrors' = DoneErrors \cup {e} /\ e \notin DoneErrors
  BY <1>1 DEF DoneErrors
<1>3. /\ Len(errCh) \in Nat /\ Len(errCh') = Len(errCh) + 1 /\ errCh'[Len(errCh) + 1] = e
      /\ \A i \in 1 .. Len(errCh) : errCh'[i] = errCh[i]
  <2>1. errCh \in Seq([file : Files, kind : ReaderP!Kinds]) /\ e \in [file : Files, kind : ReaderP!Kinds]
    BY DEF ReaderTypes
  <2> HIDE DEF e
  <2> QED
    BY <2>1, AppendProperties, LenProperties DEF e
<1> HIDE DEF e
<1>4. 1 .. Len(errCh') = (1 .. Len(errCh)) \cup {Len(errCh) + 1}
  BY <1>3
<1>5. InErrCh' = InErrCh \cup {e}
  BY <1>3, <1>4 DEF InErrCh
<1> QED
  BY <1>2, <1>5 DEF Reported, DoneErrors, InErrCh

\* An error that is received leaves errCh and is reported.
LEMMA ReportedReceives ==
  ASSUME ReaderTypes, ReaderP!ErrorsMatch, errCh # <<>>, errCh' = Tail(errCh),
         UNCHANGED <<rpc, rerr>>
  PROVE  Reported' = Reported \cup {Head(errCh)} /\ Head(errCh) \notin Reported
<1>1. errCh \in Seq([file : Files, kind : ReaderP!Kinds])
  BY DEF ReaderTypes
<1>2. \A i, j \in 1 .. Len(errCh) : errCh[i] = errCh[j] => i = j
  BY DEF ReaderP!ErrorsMatch
<1>3. Head(errCh) \in InErrCh /\ InErrCh' = InErrCh \ {Head(errCh)}
  <2>1. LET t == Tail(errCh) IN
        /\ \A i, j \in 1 .. Len(t) : t[i] = t[j] => i = j
        /\ {t[i] : i \in 1 .. Len(t)} = {errCh[i] : i \in 1 .. Len(errCh)} \ {Head(errCh)}
        /\ Head(errCh) \in {errCh[i] : i \in 1 .. Len(errCh)}
    BY <1>1, <1>2, PoolAssumed, PoolP!TailOfDistinct
  <2> QED
    BY <2>1 DEF InErrCh
<1>4. InErrCh \subseteq DoneErrors
  <2>1. ASSUME NEW i \in 1 .. Len(errCh) PROVE errCh[i] \in DoneErrors
    <3>1. errCh[i] \in [file : Files, kind : ReaderP!Kinds]
      BY <1>1, ElementOfSeq
    <3>2. rpc[errCh[i].file] = "done" /\ rerr[errCh[i].file] = errCh[i].kind
      BY DEF ReaderP!ErrorsMatch, ReaderP!Errors
    <3>3. errCh[i].kind # "nil" /\ errCh[i] = [file |-> errCh[i].file, kind |-> errCh[i].kind]
      BY <3>1 DEF ReaderP!Kinds
    <3> QED
      BY <3>1, <3>2, <3>3 DEF DoneErrors
  <2> QED
    BY <2>1 DEF InErrCh
<1>5. DoneErrors' = DoneErrors
  BY DEF DoneErrors
<1> QED
  BY <1>3, <1>4, <1>5 DEF Reported, DoneErrors, InErrCh

LEMMA FirstLineIs == FirstLine \in {1, 2} /\ ReaderP!FirstLine = FirstLine
  BY DEF FirstLine, ReaderP!FirstLine

LEMMA SuppliedStays ==
  ASSUME UNCHANGED sent
  PROVE  Supplied' = Supplied
  BY DEF Supplied

\* The lines that are sent of a file.
Lines(f) == FirstLine .. FirstLine + sent[f] - 1

LEMMA SuppliedAre ==
  \A p : p \in Supplied <=> \E f \in Files : \E n \in Lines(f) : p = <<f, n>>
<1> SUFFICES ASSUME NEW p
             PROVE  p \in Supplied <=> \E f \in Files : \E n \in Lines(f) : p = <<f, n>>
  OBVIOUS
<1>1. p \in Supplied <=> \E f \in Files : p \in {f} \X Lines(f)
  BY DEF Supplied, Lines
<1>2. \A f : p \in {f} \X Lines(f) <=> \E n \in Lines(f) : p = <<f, n>>
  OBVIOUS
<1> QED
  BY <1>1, <1>2

LEMMA SuppliedAreNext ==
  \A p : p \in Supplied' <=> \E f \in Files : \E n \in Lines(f)' : p = <<f, n>>
<1>1. (\A p : p \in Supplied <=> \E f \in Files : \E n \in Lines(f) : p = <<f, n>>)'
  BY SuppliedAre, PTL
<1> QED
  BY <1>1

\* A record that a goroutine sends is the next one of its file.
LEMMA SuppliedSends ==
  ASSUME ReaderTypes, NEW f \in Files, sent' = [sent EXCEPT ![f] = @ + 1]
  PROVE  /\ Supplied' = Supplied \cup {<<f, FirstLine + sent[f]>>}
         /\ <<f, FirstLine + sent[f]>> \notin Supplied
<1> DEFINE n == FirstLine + sent[f]
<1>1. /\ FirstLine \in Nat /\ sent \in [Files -> Nat]
      /\ sent'[f] = sent[f] + 1 /\ \A g \in Files \ {f} : sent'[g] = sent[g]
  BY FirstLineIs DEF ReaderTypes
<1>2. Lines(f)' = Lines(f) \cup {n} /\ n \notin Lines(f)
  BY <1>1 DEF Lines, FirstLine
<1>3. \A g \in Files \ {f} : Lines(g)' = Lines(g)
  BY <1>1 DEF Lines, FirstLine
<1> HIDE DEF n
<1>4. <<f, n>> \notin Supplied
  BY <1>2, SuppliedAre
<1>5. \A p : p \in Supplied' <=> p \in Supplied \/ p = <<f, n>>
  BY <1>2, <1>3, SuppliedAre, SuppliedAreNext
<1> QED
  BY <1>4, <1>5 DEF n

LEMMA HandledStays ==
  ASSUME UNCHANGED handled
  PROVE  Handled' = Handled
  BY DEF Handled

LEMMA HandledReceives ==
  ASSUME NEW job, handled' = handled \cup {job}
  PROVE  Handled' = Handled \cup {job.rec}
  BY DEF Handled

-----------------------------------------------------------------------------
(* Reader and ReaderP, Pool and PoolP have the same actions.               *)

LEMMA SameFileStep ==
  ASSUME NEW f \in Files
  PROVE  Reader!FileStep(f) <=> ReaderP!FileStep(f)
<1>1. /\ Reader!OpenFile(f) <=> ReaderP!OpenFile(f)
      /\ Reader!ReadHeader(f) <=> ReaderP!ReadHeader(f)
      /\ Reader!LoopCanceled(f) <=> ReaderP!LoopCanceled(f)
      /\ Reader!EndOfFile(f) <=> ReaderP!EndOfFile(f)
      /\ Reader!ReadRow(f) <=> ReaderP!ReadRow(f)
      /\ Reader!SendRecord(f) <=> ReaderP!SendRecord(f)
      /\ Reader!SendCanceled(f) <=> ReaderP!SendCanceled(f)
      /\ Reader!CheckHeader(f) <=> ReaderP!CheckHeader(f)
  BY DEF Reader!OpenFile, ReaderP!OpenFile, Reader!ReadHeader, ReaderP!ReadHeader,
     Reader!LoopCanceled, ReaderP!LoopCanceled, Reader!EndOfFile, ReaderP!EndOfFile,
     Reader!ReadRow, ReaderP!ReadRow, Reader!SendRecord, ReaderP!SendRecord,
     Reader!PutRecord, ReaderP!PutRecord, Reader!SendCanceled, ReaderP!SendCanceled,
     Reader!CheckHeader, ReaderP!CheckHeader, Reader!CompareHeader, ReaderP!CompareHeader,
     Reader!Local, ReaderP!Local, Reader!Goto, ReaderP!Goto, Reader!Fail, ReaderP!Fail,
     Reader!Rows, ReaderP!Rows, Reader!HeaderOf, ReaderP!HeaderOf,
     Reader!chanVars, ReaderP!chanVars
<1>2. Reader!ReportError(f) <=> ReaderP!ReportError(f)
  BY SameCardinality DEF Reader!ReportError, ReaderP!ReportError, Reader!PutError, ReaderP!PutError
<1> QED
  BY <1>1, <1>2 DEF Reader!FileStep, ReaderP!FileStep

LEMMA SameCloserStep == Reader!CloserStep <=> ReaderP!CloserStep
  BY DEF Reader!CloserStep, ReaderP!CloserStep, Reader!CloseRecords, ReaderP!CloseRecords,
     Reader!CloseAfter, ReaderP!CloseAfter, Reader!CloseErrs, ReaderP!CloseErrs,
     Reader!fileVars, ReaderP!fileVars

LEMMA SameRead == Reader!Read <=> ReaderP!Read
  BY DEF Reader!Read, ReaderP!Read

LEMMA SamePoolStep ==
  /\ \A w \in Workers : /\ Pool!AddWorker(w) <=> PoolP!AddWorker(w)
                        /\ Pool!WorkerStep(w) <=> PoolP!WorkerStep(w)
  /\ Pool!BeginStart <=> PoolP!BeginStart
  /\ Pool!FinishStart <=> PoolP!FinishStart
  /\ Pool!CloserStep <=> PoolP!CloserStep
  /\ Pool!Stop <=> PoolP!Stop
  /\ Pool!WaitReturns <=> PoolP!WaitReturns
<1> USE DEF Pool!outVars, PoolP!outVars, Pool!workerVars, PoolP!workerVars, Pool!ctlVars, PoolP!ctlVars
<1>1. ASSUME NEW w \in Workers
      PROVE  /\ Pool!AddWorker(w) <=> PoolP!AddWorker(w)
             /\ Pool!WorkerStep(w) <=> PoolP!WorkerStep(w)
  BY DEF Pool!AddWorker, PoolP!AddWorker, Pool!WorkerStep, PoolP!WorkerStep, Pool!WorkerStop,
     PoolP!WorkerStop, Pool!WorkerInputClosed, PoolP!WorkerInputClosed, Pool!InputEnds,
     PoolP!InputEnds, Pool!WorkerReceive, PoolP!WorkerReceive, Pool!WorkerProcess,
     PoolP!WorkerProcess, Pool!Answer, PoolP!Answer, Pool!OfferError, PoolP!OfferError,
     Pool!AllOutcomes, PoolP!AllOutcomes, Pool!WorkerSend, PoolP!WorkerSend, Pool!PutResult,
     PoolP!PutResult, Pool!WorkerDrop, PoolP!WorkerDrop, Pool!GiveUp, PoolP!GiveUp
<1>2. /\ Pool!BeginStart <=> PoolP!BeginStart
      /\ Pool!FinishStart <=> PoolP!FinishStart
      /\ Pool!CloserStep <=> PoolP!CloserStep
      /\ Pool!Stop <=> PoolP!Stop
      /\ Pool!WaitReturns <=> PoolP!WaitReturns
  BY DEF Pool!BeginStart, PoolP!BeginStart, Pool!FinishStart, PoolP!FinishStart, Pool!CloserStep,
     PoolP!CloserStep, Pool!CloseOutput, PoolP!CloseOutput, Pool!CloseResults, PoolP!CloseResults,
     Pool!CloseErrors, PoolP!CloseErrors, Pool!Stop, PoolP!Stop, Pool!WaitReturns,
     PoolP!WaitReturns, Pool!WgZero, PoolP!WgZero, Pool!Running, PoolP!Running
<1> QED
  BY <1>1, <1>2

-----------------------------------------------------------------------------
(* Every step of the pipeline is a step of each component, or leaves it be.*)

ReaderMay == [ReaderP!Next]_(ReaderP!vars)
PoolMay == [PoolP!Next]_(PoolP!vars)

\* No goroutine has read more rows than its file has.
LineFits == content \in [Files -> Contents] /\ \A f \in Files : line[f] <= Len(content[f].rows)

ReaderInv == ReaderP!TypeInv /\ ReaderP!ErrorsInv /\ LineFits

LEMMA ReaderRests ==
  ASSUME UNCHANGED <<readerOwn, recordCh, errCh, ctxDone>>
  PROVE  UNCHANGED ReaderP!vars
<1>1. Taken' = Taken /\ Reported' = Reported
  BY TakenStays, ReportedStays DEF readerOwn
<1> QED
  BY <1>1 DEF readerOwn, ReaderP!vars, ReaderP!readerVars, ReaderP!envVars, ReaderP!fileVars,
     ReaderP!chanVars

LEMMA PoolEnvRests ==
  ASSUME UNCHANGED <<recordClosed, sent, handled>>
  PROVE  UNCHANGED PoolP!envVars
<1>1. Supplied' = Supplied /\ Handled' = Handled
  BY SuppliedStays, HandledStays
<1> QED
  BY <1>1 DEF PoolP!envVars

LEMMA PoolRests ==
  ASSUME UNCHANGED <<poolOwn, recordCh, outputCh, errorCh, recordClosed, sent, handled>>
  PROVE  UNCHANGED PoolP!vars
<1>1. UNCHANGED PoolP!envVars
  BY PoolEnvRests
<1> QED
  BY <1>1 DEF poolOwn, PoolP!vars, PoolP!poolVars, PoolP!outVars, PoolP!workerVars, PoolP!ctlVars

\* A goroutine of the reader moves; the record it sends is supplied to the pool.
LEMMA FileStepMaps ==
  ASSUME ReaderInv, NEW f \in Files, ReaderStep(f)
  PROVE  ReaderMay /\ PoolMay /\ Reported' = Reported
<1>t. ReaderTypes
  BY ReaderTyped DEF ReaderInv
<1>0. /\ ReaderP!FileStep(f)
      /\ UNCHANGED <<poolOwn, outputCh, errorCh, ctxDone, collectorVars, handlerVars, runVars>>
  BY SameFileStep DEF ReaderStep
<1>1. ASSUME Taken' = Taken, Reported' = Reported
      PROVE  ReaderMay
  <2>1. UNCHANGED ReaderP!envVars
    BY <1>0, <1>1 DEF ReaderP!envVars
  <2> QED
    BY <1>0, <2>1 DEF ReaderMay, ReaderP!Next, ReaderP!ReaderStep
<1>2. CASE ReaderP!SendRecord(f)
  <2>1. /\ rpc[f] = "send" /\ Len(recordCh) < RecordCap
        /\ recordCh' = Append(recordCh, <<f, line[f]>>) /\ sent' = [sent EXCEPT ![f] = @ + 1]
        /\ rpc' = [rpc EXCEPT ![f] = "loop"]
        /\ UNCHANGED <<rerr, errCh, recordClosed>>
    BY <1>2 DEF ReaderP!SendRecord, ReaderP!PutRecord, ReaderP!Goto
  <2>2. line[f] = FirstLine + sent[f] /\ line[f] \in Nat \ {0} /\ rerr[f] = "nil"
    <3>1. line[f] = ReaderP!FirstLine + sent[f] /\ rerr[f] = "nil"
      BY <2>1 DEF ReaderInv, ReaderP!TypeInv, ReaderP!LinesMatch
    <3>2. sent[f] \in Nat /\ line[f] \in Nat
      BY <1>t DEF ReaderTypes
    <3> QED
      BY <3>1, <3>2, FirstLineIs
  <2>3. Taken' = Taken
    BY <1>t, <2>1, <2>2, TakenSends
  <2>4. Reported' = Reported
    BY <1>t, <2>1, <2>2, ReportedMoves DEF ReaderTypes
  <2>5. <<f, line[f]>> \in AllRecords
    <3>1. content[f] \in Contents /\ line[f] <= Len(content[f].rows)
      BY DEF ReaderInv, LineFits
    <3>2. Len(content[f].rows) <= MaxRows /\ Len(content[f].rows) \in Nat
      BY <3>1, ContentsAssumption, LenProperties
    <3>3. line[f] \in 1 .. MaxRows
      BY <2>2, <3>1, <3>2, PipelineAssumption
    <3> QED
      BY <3>3 DEF AllRecords
  <2>6. Supplied' = Supplied \cup {<<f, line[f]>>} /\ <<f, line[f]>> \notin Supplied
    BY <1>t, <2>1, <2>2, SuppliedSends
  <2>7. ~recordClosed
    BY <2>1 DEF ReaderInv, ReaderP!ErrorsInv, ReaderP!ReaderLife
  <2>8. Handled' = Handled
    BY <1>0, HandledStays DEF handlerVars
  <2>9. PoolP!Supply(<<f, line[f]>>)
    BY <1>0, <2>1, <2>6, <2>7, <2>8 DEF poolOwn, PoolP!Supply, PoolP!outVars, PoolP!workerVars, PoolP!ctlVars
  <2>10. PoolMay
    BY <2>5, <2>9 DEF PoolMay, PoolP!Next, PoolP!EnvStep
  <2> QED
    BY <1>1, <2>3, <2>4, <2>10
<1>3. ASSUME ~ReaderP!SendRecord(f) PROVE UNCHANGED <<sent, recordCh, recordClosed>>
  BY <1>0, <1>3 DEF ReaderP!FileStep, ReaderP!OpenFile, ReaderP!ReadHeader, ReaderP!LoopCanceled,
     ReaderP!EndOfFile, ReaderP!ReadRow, ReaderP!SendCanceled, ReaderP!CheckHeader,
     ReaderP!CompareHeader, ReaderP!ReportError, ReaderP!PutError, ReaderP!Local, ReaderP!chanVars
<1>4. ASSUME ~ReaderP!SendRecord(f) PROVE PoolMay /\ Taken' = Taken
  <2>1. UNCHANGED <<poolOwn, recordCh, outputCh, errorCh, recordClosed, sent, handled>>
    BY <1>0, <1>3, <1>4 DEF handlerVars
  <2> QED
    BY <2>1, PoolRests, TakenStays DEF PoolMay
<1>5. CASE ReaderP!ReportError(f)
  <2>1. /\ rpc[f] = "report" /\ rpc' = [rpc EXCEPT ![f] = "done"] /\ UNCHANGED <<rerr, sent, recordCh>>
        /\ errCh' = Append(errCh, [file |-> f, kind |-> rerr[f]])
    BY <1>5 DEF ReaderP!ReportError, ReaderP!PutError
  <2>2. rerr[f] # "nil"
    BY <2>1 DEF ReaderInv, ReaderP!TypeInv, ReaderP!LinesMatch
  <2>3. Reported' = Reported
    BY <1>t, <2>1, <2>2, ReportedSends
  <2>4. ~ReaderP!SendRecord(f)
    BY <2>1 DEF ReaderP!SendRecord, ReaderP!PutRecord
  <2> QED
    BY <1>1, <1>4, <2>3, <2>4
<1>6. CASE ~ReaderP!SendRecord(f) /\ ~ReaderP!ReportError(f)
  <2>1. /\ rpc[f] \in {"open", "header", "loop", "send", "validate"} /\ UNCHANGED errCh
        /\ \/ \E kind : ReaderP!Fail(f, kind)
           \/ \E pc : ReaderP!Goto(f, pc)
    <3>1. CASE ReaderP!OpenFile(f)
      <4>1. content[f].open \in {"ok", "missing", "unreadable", "empty"}
        BY ContentsAssumption DEF ReaderInv, LineFits
      <4> QED
        BY <3>1, <4>1 DEF ReaderP!OpenFile, ReaderP!Local, ReaderP!chanVars
    <3>2. CASE ReaderP!ReadHeader(f) \/ ReaderP!LoopCanceled(f) \/ ReaderP!EndOfFile(f)
      BY <3>2 DEF ReaderP!ReadHeader, ReaderP!LoopCanceled, ReaderP!EndOfFile, ReaderP!Local,
         ReaderP!chanVars
    <3>3. CASE ReaderP!ReadRow(f) \/ ReaderP!SendCanceled(f)
      BY <3>3 DEF ReaderP!ReadRow, ReaderP!SendCanceled, ReaderP!Local, ReaderP!chanVars
    <3>4. CASE ReaderP!CheckHeader(f)
      BY <3>4 DEF ReaderP!CheckHeader, ReaderP!CompareHeader, ReaderP!chanVars
    <3> QED
      BY <1>0, <1>6, <3>1, <3>2, <3>3, <3>4 DEF ReaderP!FileStep
  <2>2. rpc[f] # "done" /\ rerr[f] = "nil"
    BY <2>1 DEF ReaderInv, ReaderP!TypeInv, ReaderP!LinesMatch
  <2>3. /\ \A g \in Files \ {f} : rpc'[g] = rpc[g] /\ rerr'[g] = rerr[g]
        /\ rpc'[f] = "done" => rerr'[f] = "nil"
    BY <1>t, <2>1, <2>2 DEF ReaderTypes, ReaderP!Fail, ReaderP!Goto
  <2>4. Reported' = Reported
    BY <2>1, <2>2, <2>3, ReportedMoves
  <2> QED
    BY <1>1, <1>4, <1>6, <2>4
<1> QED
  BY <1>2, <1>5, <1>6

LEMMA ReaderCloserMaps == ReaderInv /\ ReaderCloserStep => ReaderMay /\ PoolMay
<1> SUFFICES ASSUME ReaderInv, ReaderCloserStep PROVE ReaderMay /\ PoolMay
  OBVIOUS
<1>1. /\ ReaderP!CloserStep
      /\ UNCHANGED <<poolOwn, outputCh, errorCh, ctxDone, collectorVars, handlerVars, runVars>>
  BY SameCloserStep DEF ReaderCloserStep
<1>2. UNCHANGED <<rpc, rerr, sent, recordCh, errCh>>
  BY <1>1 DEF ReaderP!CloserStep, ReaderP!CloseRecords, ReaderP!CloseAfter, ReaderP!CloseErrs, ReaderP!fileVars
<1>3. Taken' = Taken /\ Reported' = Reported /\ Supplied' = Supplied /\ Handled' = Handled
  BY <1>1, <1>2, TakenStays, ReportedStays, SuppliedStays, HandledStays DEF handlerVars
<1>4. ReaderMay
  BY <1>1, <1>3 DEF ReaderMay, ReaderP!Next, ReaderP!ReaderStep, ReaderP!envVars
<1>5. CASE ReaderP!CloseRecords
  <2>1. ~recordClosed /\ recordClosed' = TRUE
    BY <1>5 DEF ReaderP!CloseRecords, ReaderP!CloseAfter, ReaderInv, ReaderP!ErrorsInv, ReaderP!ReaderLife
  <2>2. PoolP!CloseInput
    BY <1>1, <1>2, <1>3, <2>1 DEF PoolP!CloseInput, PoolP!poolVars, PoolP!outVars, PoolP!workerVars,
       PoolP!ctlVars, poolOwn
  <2> QED
    BY <1>4, <2>2 DEF PoolMay, PoolP!Next, PoolP!EnvStep
<1>6. CASE ReaderP!CloseErrs
  <2>1. UNCHANGED recordClosed
    BY <1>6 DEF ReaderP!CloseErrs
  <2>2. UNCHANGED PoolP!vars
    BY <1>1, <1>2, <2>1, PoolRests DEF handlerVars
  <2> QED
    BY <1>4, <2>2 DEF PoolMay
<1> QED
  BY <1>1, <1>5, <1>6 DEF ReaderP!CloserStep

\* A worker moves; the record it receives is taken from the reader.
LEMMA WorkerStepMaps ==
  ASSUME ReaderInv, NEW w \in Workers, WorkerStep(w)
  PROVE  ReaderMay /\ PoolMay
<1>t. ReaderTypes
  BY ReaderTyped DEF ReaderInv
<1>1. /\ PoolP!AddWorker(w) \/ PoolP!WorkerStep(w)
      /\ UNCHANGED <<readerOwn, errCh, ctxDone, collectorVars, handlerVars, runVars>>
  BY SamePoolStep DEF WorkerStep
<1>2. UNCHANGED PoolP!envVars
  BY <1>1, PoolEnvRests DEF readerOwn, handlerVars
<1>3. PoolMay
  BY <1>1, <1>2 DEF PoolMay, PoolP!Next, PoolP!PoolStep
<1>4. CASE PoolP!WorkerReceive(w)
  <2>1. recordCh # <<>> /\ recordCh' = Tail(recordCh)
    BY <1>4 DEF PoolP!WorkerReceive
  <2>2. Taken' = [Taken EXCEPT ![Head(recordCh)[1]] = @ + 1] /\ Reported' = Reported
    BY <1>1, <1>t, <2>1, TakenReceives, ReportedStays DEF readerOwn
  <2>3. ReaderP!ReceiveRecord
    BY <1>1, <2>1, <2>2 DEF ReaderP!ReceiveRecord, ReaderP!fileVars, readerOwn
  <2> QED
    BY <1>3, <2>3 DEF ReaderMay, ReaderP!Next, ReaderP!EnvStep
<1>5. CASE ~PoolP!WorkerReceive(w)
  <2>1. UNCHANGED recordCh
    BY <1>1, <1>5 DEF PoolP!AddWorker, PoolP!WorkerStep, PoolP!WorkerStop, PoolP!WorkerInputClosed,
       PoolP!InputEnds, PoolP!WorkerProcess, PoolP!Answer, PoolP!WorkerSend, PoolP!PutResult,
       PoolP!WorkerDrop, PoolP!GiveUp
  <2> QED
    BY <1>1, <1>3, <2>1, ReaderRests DEF ReaderMay
<1> QED
  BY <1>4, <1>5

\* The pool's other goroutines, Start and Stop leave the reader alone.
LEMMA PoolStepMaps ==
  ASSUME \/ StartPool \/ PoolRunStep \/ StopDone
         \/ StopPool /\ runPc \notin {"init", "armed", "reading"}
  PROVE  ReaderMay /\ PoolMay
<1>1. /\ PoolP!BeginStart \/ PoolP!FinishStart \/ PoolP!CloserStep \/ PoolP!Stop \/ PoolP!WaitReturns
      /\ UNCHANGED <<readerOwn, errCh, handled, ctxDone>>
  BY SamePoolStep DEF StartPool, RunTo, PoolRunStep, StopDone, StopPool, handlerVars
<1>2. UNCHANGED recordCh
  BY <1>1 DEF PoolP!BeginStart, PoolP!FinishStart, PoolP!CloserStep, PoolP!CloseOutput,
     PoolP!CloseResults, PoolP!CloseErrors, PoolP!Stop, PoolP!WaitReturns
<1>3. UNCHANGED PoolP!envVars
  BY <1>1, PoolEnvRests DEF readerOwn
<1>4. PoolMay
  BY <1>1, <1>3 DEF PoolMay, PoolP!Next, PoolP!PoolStep
<1> QED
  BY <1>1, <1>2, <1>4, ReaderRests DEF ReaderMay

\* The handlers consume the results and the errors.
LEMMA HandlerMaps ==
  ASSUME ReaderInv, HandleResult \/ HandleReaderError \/ HandleWorkerError
  PROVE  ReaderMay /\ PoolMay
<1>t. ReaderTypes
  BY ReaderTyped DEF ReaderInv
<1>1. CASE HandleResult
  <2>1. /\ outputCh # <<>> /\ outputCh' = Tail(outputCh)
        /\ handled' = handled \cup {Head(outputCh)}
        /\ UNCHANGED <<readerOwn, poolOwn, recordCh, errCh, errorCh, ctxDone>>
    BY <1>1 DEF HandleResult, ResultsTo
  <2>2. Supplied' = Supplied /\ Handled' = Handled \cup {Head(outputCh).rec}
    BY <2>1, SuppliedStays, HandledReceives DEF readerOwn
  <2>3. PoolP!Consume
    BY <2>1, <2>2 DEF PoolP!Consume, PoolP!workerVars, PoolP!ctlVars, readerOwn, poolOwn
  <2> QED
    BY <2>1, <2>3, ReaderRests DEF ReaderMay, PoolMay, PoolP!Next, PoolP!EnvStep
<1>2. CASE HandleReaderError
  <2>1. /\ errCh # <<>> /\ errCh' = Tail(errCh)
        /\ UNCHANGED <<readerOwn, poolOwn, recordCh, outputCh, errorCh, handled, ctxDone>>
    BY <1>2 DEF HandleReaderError, InErrorHandler
  <2>2. Reported' = Reported \cup {Head(errCh)} /\ Taken' = Taken
    BY <1>t, <2>1, ReportedReceives, TakenStays DEF readerOwn, ReaderInv, ReaderP!ErrorsInv
  <2>3. ReaderP!ReceiveError
    BY <2>1, <2>2 DEF ReaderP!ReceiveError, ReaderP!fileVars, readerOwn
  <2>4. UNCHANGED PoolP!vars
    BY <2>1, PoolRests DEF readerOwn
  <2> QED
    BY <2>3, <2>4 DEF ReaderMay, PoolMay, ReaderP!Next, ReaderP!EnvStep
<1>3. CASE HandleWorkerError
  <2>1. /\ errorCh # <<>> /\ errorCh' = Tail(errorCh)
        /\ UNCHANGED <<readerOwn, poolOwn, recordCh, errCh, outputCh, handled, ctxDone>>
    BY <1>3 DEF HandleWorkerError, InErrorHandler
  <2>2. UNCHANGED PoolP!envVars
    BY <2>1, PoolEnvRests DEF readerOwn
  <2>3. PoolP!ConsumeError
    BY <2>1, <2>2 DEF PoolP!ConsumeError, PoolP!workerVars, PoolP!ctlVars, poolOwn
  <2> QED
    BY <2>1, <2>3, ReaderRests DEF ReaderMay, PoolMay, PoolP!Next, PoolP!EnvStep
<1> QED
  BY <1>1, <1>2, <1>3

\* A cancellation of the pipeline's context reaches the reader only.
LEMMA CancelMaps ==
  ASSUME ReaderInv, AbortRun \/ Signal \/ StopCancel
  PROVE  ReaderMay /\ PoolMay
<1>1. /\ ctxDone' = TRUE
      /\ UNCHANGED <<readerOwn, poolOwn, recordCh, errCh, outputCh, errorCh, handled>>
  BY DEF AbortRun, ResultsTo, Signal, SignalArrives, StopCancel, handlerVars, channels
<1>2. UNCHANGED PoolP!vars
  BY <1>1, PoolRests DEF readerOwn
<1>3. CASE ctxDone
  <2>1. ctxDone \in BOOLEAN
    BY DEF ReaderInv, ReaderP!TypeInv, ReaderP!TypeOK
  <2>2. UNCHANGED ctxDone
    BY <1>1, <1>3, <2>1
  <2> QED
    BY <1>1, <1>2, <2>2, ReaderRests DEF ReaderMay, PoolMay
<1>4. CASE ~ctxDone
  <2>1. Taken' = Taken /\ Reported' = Reported
    BY <1>1, TakenStays, ReportedStays DEF readerOwn
  <2>2. ReaderP!Cancel
    BY <1>1, <1>4, <2>1 DEF ReaderP!Cancel, ReaderP!fileVars, ReaderP!chanVars, readerOwn
  <2> QED
    BY <1>2, <2>2 DEF ReaderMay, PoolMay, ReaderP!Next, ReaderP!EnvStep
<1> QED
  BY <1>3, <1>4

LEMMA StartReadingMaps == ReaderInv /\ StartReading => ReaderMay /\ PoolMay
<1> SUFFICES ASSUME ReaderInv, StartReading PROVE ReaderMay /\ PoolMay
  OBVIOUS
<1>1. /\ ReaderP!Read
      /\ UNCHANGED <<poolOwn, outputCh, errorCh, handled, ctxDone>>
  BY SameRead DEF StartReading, RunTo
<1>2. /\ rcloser = "none" /\ rpc' = [f \in Files |-> "open"]
      /\ UNCHANGED <<rerr, sent, recordCh, recordClosed, errCh>>
  BY <1>1 DEF ReaderP!Read
<1>3. \A f \in Files : rpc[f] = "none" /\ rpc'[f] = "open"
  BY <1>2 DEF ReaderInv, ReaderP!TypeInv, ReaderP!LinesMatch
<1>4. Reported = {} /\ Reported' = {}
  BY <1>3 DEF Reported
<1>5. UNCHANGED ReaderP!envVars
  BY <1>1, <1>2, <1>4, TakenStays DEF ReaderP!envVars
<1>6. UNCHANGED PoolP!vars
  BY <1>1, <1>2, PoolRests
<1> QED
  BY <1>1, <1>5, <1>6 DEF ReaderMay, PoolMay, ReaderP!Next, ReaderP!ReaderStep

\* The steps that are Run's, the collector's and the handlers' own.
LEMMA OwnStepMaps ==
  ASSUME \/ SetupSignalHandling \/ StorePool \/ StartHandlers \/ Finish
         \/ ResultsClosed \/ CollectError \/ CountProcessed \/ WriteResult
         \/ ReaderErrorsClosed \/ AddWorkerError \/ WorkerErrorsClosed
         \/ StopPool /\ runPc \in {"init", "armed", "reading"}
         \/ UNCHANGED vars
  PROVE  ReaderMay /\ PoolMay
<1>1. UNCHANGED <<readerOwn, poolOwn, recordCh, errCh, outputCh, errorCh, handled, ctxDone>>
  BY DEF SetupSignalHandling, StorePool, StartHandlers, RunTo, Finish, ReturnAfter, ResultsClosed,
     CollectError, CountProcessed, WriteResult, WriteIf, ResultsTo, ReaderErrorsClosed,
     AddWorkerError, WorkerErrorsClosed, InErrorHandler, StopPool, vars, handlerVars, channels
<1>2. UNCHANGED ReaderP!vars
  BY <1>1, ReaderRests
<1>3. UNCHANGED PoolP!vars
  BY <1>1, PoolRests DEF readerOwn
<1> QED
  BY <1>2, <1>3 DEF ReaderMay, PoolMay

LEMMA StepMaps == ReaderInv /\ [Next]_vars => ReaderMay /\ PoolMay
  BY FileStepMaps, ReaderCloserMaps, WorkerStepMaps, PoolStepMaps, HandlerMaps, CancelMaps,
     StartReadingMaps, OwnStepMaps
  DEF Next, OwnStep, RunStep, ResultsStep, ReaderErrorsStep, WorkerErrorsStep, CallerStep, Terminated

-----------------------------------------------------------------------------
(* The components' invariants hold of the pipeline.                        *)

PoolInv == PoolP!TypeInv /\ PoolP!Lifecycle /\ PoolP!ExactlyOnce

LEMMA InitMaps == Init => ReaderP!Init /\ PoolP!Init
<1> SUFFICES ASSUME Init PROVE ReaderP!Init /\ PoolP!Init
  OBVIOUS
<1>1. DOMAIN recordCh = {} /\ recordCh = <<>> /\ errCh = <<>>
  BY DEF Init
<1>2. Taken = [f \in Files |-> 0]
  <2>1. \A f \in Files : {i \in DOMAIN recordCh : recordCh[i][1] = f} = {}
    BY <1>1
  <2>2. Cardinality({}) = 0
    BY FS_EmptySet
  <2>3. \A f \in Files : sent[f] = 0
    BY DEF Init
  <2>4. \A f \in Files : sent[f] - Cardinality({i \in DOMAIN recordCh : recordCh[i][1] = f}) = 0
    BY <2>1, <2>2, <2>3
  <2> QED
    BY <2>4 DEF Taken
<1>3. Reported = {}
  BY DEF Init, Reported
<1>4. Handled = {}
  BY DEF Init, Handled
<1>5. Supplied = {}
  <2>1. \A f \in Files : Lines(f) = {}
    BY FirstLineIs DEF Init, Lines
  <2> QED
    BY <2>1, SuppliedAre
<1>6. ReaderP!Init
  BY <1>2, <1>3 DEF Init, ReaderP!Init
<1>7. PoolP!Init
  BY <1>4, <1>5 DEF Init, PoolP!Init, Pool!PoolInit, PoolP!PoolInit
<1> QED
  BY <1>6, <1>7

LEMMA FitsInit == Init => LineFits
<1> SUFFICES ASSUME Init, NEW f \in Files PROVE line[f] <= Len(content[f].rows)
  BY DEF Init, LineFits
<1>1. content[f].rows \in Seq(RowKinds)
  BY ContentsAssumption DEF Init
<1> QED
  BY <1>1, LenProperties DEF Init

LEMMA FitsStep == ReaderInv /\ ReaderMay => LineFits'
<1> SUFFICES ASSUME ReaderInv, ReaderMay PROVE LineFits'
  OBVIOUS
<1>1. /\ content \in [Files -> Contents] /\ line \in [Files -> Nat]
      /\ \A f \in Files : line[f] <= Len(content[f].rows)
  BY ReaderTyped DEF ReaderInv, LineFits, ReaderTypes
<1>2. CASE UNCHANGED <<content, line>>
  BY <1>1, <1>2 DEF LineFits
<1>3. ASSUME NEW f \in Files, ReaderP!FileStep(f), ~UNCHANGED line PROVE LineFits'
  <2>1. /\ UNCHANGED content
        /\ \/ content[f].rows # <<>> /\ line' = [line EXCEPT ![f] = 1]
           \/ line[f] < Len(content[f].rows) /\ line' = [line EXCEPT ![f] = @ + 1]
    <3>1. CASE ReaderP!ReadHeader(f)
      BY <1>3, <3>1 DEF ReaderP!ReadHeader, ReaderP!Local, ReaderP!Rows
    <3>2. CASE ReaderP!ReadRow(f)
      BY <1>3, <3>2 DEF ReaderP!ReadRow, ReaderP!Local, ReaderP!Rows
    <3> QED
      BY <1>3, <3>1, <3>2 DEF ReaderP!FileStep, ReaderP!OpenFile, ReaderP!LoopCanceled,
         ReaderP!EndOfFile, ReaderP!SendCanceled, ReaderP!SendRecord, ReaderP!PutRecord,
         ReaderP!CheckHeader, ReaderP!CompareHeader, ReaderP!ReportError, ReaderP!PutError
  <2>2. content[f].rows \in Seq(RowKinds)
    BY <1>1, ContentsAssumption
  <2>3. Len(content[f].rows) \in Nat /\ (content[f].rows # <<>> => Len(content[f].rows) >= 1)
    BY <2>2, LenProperties, EmptySeq
  <2>4. line'[f] <= Len(content[f].rows)
    BY <1>1, <2>1, <2>3
  <2>5. \A g \in Files \ {f} : line'[g] = line[g]
    BY <1>1, <2>1
  <2> QED
    BY <1>1, <2>1, <2>4, <2>5 DEF LineFits
<1>4. ASSUME NEW f \in Files, ReaderP!FileStep(f) PROVE UNCHANGED content
  BY <1>4 DEF ReaderP!FileStep, ReaderP!OpenFile, ReaderP!ReadHeader, ReaderP!LoopCanceled,
     ReaderP!EndOfFile, ReaderP!ReadRow, ReaderP!SendCanceled, ReaderP!SendRecord, ReaderP!PutRecord,
     ReaderP!CheckHeader, ReaderP!CompareHeader, ReaderP!ReportError, ReaderP!PutError, ReaderP!Local
<1>5. (\E f \in Files : ReaderP!FileStep(f)) \/ UNCHANGED <<content, line>>
  BY DEF ReaderMay, ReaderP!Next, ReaderP!ReaderStep, ReaderP!EnvStep, ReaderP!Read,
     ReaderP!CloserStep, ReaderP!CloseRecords, ReaderP!CloseAfter, ReaderP!CloseErrs,
     ReaderP!ReceiveRecord, ReaderP!ReceiveError, ReaderP!Cancel, ReaderP!Terminated,
     ReaderP!vars, ReaderP!readerVars, ReaderP!fileVars
<1> QED
  BY <1>2, <1>3, <1>4, <1>5

LEMMA ReaderInvInit == Init => ReaderInv
<1>1. Init => ReaderP!Init /\ LineFits
  BY InitMaps, FitsInit
<1>2. ReaderP!Init => ReaderP!TypeInv
  BY ReaderAssumed, ReaderP!TypeInit
<1>3. ReaderP!Init => ReaderP!ErrorsInv
  BY ReaderAssumed, ReaderP!ErrorsInit
<1> QED
  BY <1>1, <1>2, <1>3 DEF ReaderInv

LEMMA ReaderInvStep == ReaderInv /\ [Next]_vars => ReaderInv'
<1>1. ReaderP!TypeInv /\ ReaderMay => ReaderP!TypeInv'
  BY ReaderAssumed, ReaderP!TypeStep DEF ReaderMay
<1>2. ReaderP!TypeInv /\ ReaderP!ErrorsInv /\ ReaderMay => ReaderP!ErrorsInv'
  BY ReaderAssumed, ReaderP!ErrorsStep DEF ReaderMay
<1> QED
  BY <1>1, <1>2, StepMaps, FitsStep DEF ReaderInv

LEMMA PoolInvInit == Init => PoolInv
<1>1. Init => PoolP!Init
  BY InitMaps
<1>2. PoolP!Init => PoolP!TypeInv
  BY PoolAssumed, PoolP!TypeInit
<1>3. PoolP!Init => PoolP!Lifecycle
  BY PoolAssumed, PoolP!LifecycleInit
<1>4. PoolP!Init => PoolP!ExactlyOnce
  BY PoolAssumed, PoolP!OnceInit
<1> QED
  BY <1>1, <1>2, <1>3, <1>4 DEF PoolInv

LEMMA PoolInvStep == PoolInv /\ PoolMay => PoolInv'
<1>1. PoolP!TypeInv /\ PoolMay => PoolP!TypeInv'
  BY PoolAssumed, PoolP!TypeStep DEF PoolMay
<1>2. PoolP!TypeInv /\ PoolP!Lifecycle /\ PoolMay => PoolP!Lifecycle'
  BY PoolAssumed, PoolP!LifecycleStep DEF PoolMay
<1>3. PoolP!TypeInv /\ PoolP!ExactlyOnce /\ PoolMay => PoolP!ExactlyOnce'
  BY PoolAssumed, PoolP!OnceStep DEF PoolMay
<1> QED
  BY <1>1, <1>2, <1>3 DEF PoolInv

\* The pipeline drives the pool and the reader only as their modules allow, so what
\* is proved of each of them holds inside a run (pipeline.go 56-125).
THEOREM ComponentsCorrect == Safety => ComponentsImplemented
<1>1. Init => Reader!Init /\ Pool!Init
  BY InitMaps DEF Reader!Init, ReaderP!Init, Pool!Init, PoolP!Init, Pool!PoolInit, PoolP!PoolInit
<1>2. ReaderInv /\ [Next]_vars => [Reader!Next]_(Reader!vars)
  <2>1. UNCHANGED Reader!vars <=> UNCHANGED ReaderP!vars
    BY DEF Reader!vars, ReaderP!vars, Reader!readerVars, ReaderP!readerVars, Reader!envVars,
       ReaderP!envVars, Reader!fileVars, ReaderP!fileVars, Reader!chanVars, ReaderP!chanVars
  <2>2. Reader!Next <=> ReaderP!Next
    BY SameFileStep, SameCloserStep, SameRead DEF Reader!Next, ReaderP!Next, Reader!ReaderStep,
       ReaderP!ReaderStep, Reader!EnvStep, ReaderP!EnvStep, Reader!ReceiveRecord,
       ReaderP!ReceiveRecord, Reader!ReceiveError, ReaderP!ReceiveError, Reader!Cancel,
       ReaderP!Cancel, Reader!Terminated, ReaderP!Terminated, Reader!vars, ReaderP!vars,
       Reader!readerVars, ReaderP!readerVars, Reader!envVars, ReaderP!envVars,
       Reader!fileVars, ReaderP!fileVars, Reader!chanVars, ReaderP!chanVars
  <2> QED
    BY <2>1, <2>2, StepMaps DEF ReaderMay
<1>3. ReaderInv /\ [Next]_vars => [Pool!Next]_(Pool!vars)
  <2>1. UNCHANGED Pool!vars <=> UNCHANGED PoolP!vars
    BY DEF Pool!vars, PoolP!vars, Pool!poolVars, PoolP!poolVars, Pool!outVars, PoolP!outVars,
       Pool!workerVars, PoolP!workerVars, Pool!ctlVars, PoolP!ctlVars, Pool!envVars, PoolP!envVars
  <2>2. Pool!Next <=> PoolP!Next
    BY SamePoolStep DEF Pool!Next, PoolP!Next, Pool!PoolStep, PoolP!PoolStep, Pool!EnvStep,
       PoolP!EnvStep, Pool!CloseInput, PoolP!CloseInput, Pool!Consume, PoolP!Consume,
       Pool!ConsumeError, PoolP!ConsumeError, Pool!Supply, PoolP!Supply, Pool!Terminated,
       PoolP!Terminated, Pool!vars, PoolP!vars, Pool!poolVars, PoolP!poolVars, Pool!outVars,
       PoolP!outVars, Pool!workerVars, PoolP!workerVars, Pool!ctlVars, PoolP!ctlVars,
       Pool!envVars, PoolP!envVars
  <2> QED
    BY <2>1, <2>2, StepMaps DEF PoolMay
<1> QED
  BY <1>1, <1>2, <1>3, ReaderInvInit, ReaderInvStep, PTL
  DEF Safety, ComponentsImplemented, Reader!Safety, Pool!Safety

-----------------------------------------------------------------------------
(* The ends of the channels and of the handlers.                           *)

\* What has been closed stays closed, and empty once it is empty.
LEMMA ReaderEndsStay ==
  ReaderInv /\ ReaderMay =>
      /\ errClosed => errClosed'
      /\ errClosed /\ errCh = <<>> => errCh' = <<>>
<1> SUFFICES ASSUME ReaderInv, ReaderMay
             PROVE  /\ errClosed => errClosed'
                    /\ errClosed /\ errCh = <<>> => errCh' = <<>>
  OBVIOUS
<1>1. errClosed => rcloser = "done" /\ \A f \in Files : rpc[f] = "done"
  BY DEF ReaderInv, ReaderP!ErrorsInv, ReaderP!ReaderLife
<1>2. ASSUME NEW f \in Files, ReaderP!FileStep(f)
      PROVE  UNCHANGED errClosed /\ rpc[f] # "done"
  BY <1>2 DEF ReaderP!FileStep, ReaderP!OpenFile, ReaderP!ReadHeader, ReaderP!LoopCanceled,
     ReaderP!EndOfFile, ReaderP!ReadRow, ReaderP!SendCanceled, ReaderP!SendRecord, ReaderP!PutRecord,
     ReaderP!CheckHeader, ReaderP!CompareHeader, ReaderP!ReportError, ReaderP!PutError, ReaderP!Local,
     ReaderP!chanVars
<1>3. CASE ReaderP!Read \/ ReaderP!CloserStep
  BY <1>1, <1>3 DEF ReaderP!Read, ReaderP!CloserStep, ReaderP!CloseRecords, ReaderP!CloseAfter,
     ReaderP!CloseErrs
<1>4. CASE ReaderP!EnvStep \/ UNCHANGED ReaderP!vars
  BY <1>4 DEF ReaderP!EnvStep, ReaderP!ReceiveRecord, ReaderP!ReceiveError, ReaderP!Cancel,
     ReaderP!vars, ReaderP!readerVars, ReaderP!chanVars
<1> QED
  BY <1>1, <1>2, <1>3, <1>4 DEF ReaderMay, ReaderP!Next, ReaderP!ReaderStep, ReaderP!Terminated

LEMMA PoolEndsStay ==
  PoolInv /\ PoolMay =>
      /\ outputClosed => outputClosed'
      /\ errorClosed => errorClosed'
      /\ outputClosed /\ outputCh = <<>> => outputCh' = <<>>
      /\ errorClosed /\ errorCh = <<>> => errorCh' = <<>>
<1> SUFFICES ASSUME PoolInv, PoolMay
             PROVE  /\ outputClosed => outputClosed'
                    /\ errorClosed => errorClosed'
                    /\ outputClosed /\ outputCh = <<>> => outputCh' = <<>>
                    /\ errorClosed /\ errorCh = <<>> => errorCh' = <<>>
  OBVIOUS
<1>1. outputClosed \/ errorClosed => \A w \in Workers : wpc[w] = "exited"
  BY DEF PoolInv, PoolP!Lifecycle
<1>2. ASSUME NEW w \in Workers, PoolP!AddWorker(w) \/ PoolP!WorkerStep(w)
      PROVE  wpc[w] # "exited" /\ UNCHANGED <<outputClosed, errorClosed>>
  BY <1>2 DEF PoolP!AddWorker, PoolP!WorkerStep, PoolP!WorkerStop, PoolP!WorkerInputClosed,
     PoolP!InputEnds, PoolP!WorkerReceive, PoolP!WorkerProcess, PoolP!Answer, PoolP!WorkerSend,
     PoolP!PutResult, PoolP!WorkerDrop, PoolP!GiveUp, PoolP!outVars
<1>3. CASE PoolP!BeginStart \/ PoolP!FinishStart \/ PoolP!CloserStep \/ PoolP!Stop \/ PoolP!WaitReturns
  BY <1>3 DEF PoolP!BeginStart, PoolP!FinishStart, PoolP!CloserStep, PoolP!CloseOutput,
     PoolP!CloseResults, PoolP!CloseErrors, PoolP!Stop, PoolP!WaitReturns, PoolP!outVars
<1>4. CASE PoolP!EnvStep \/ UNCHANGED PoolP!vars
  BY <1>4 DEF PoolP!EnvStep, PoolP!CloseInput, PoolP!Consume, PoolP!ConsumeError, PoolP!Supply,
     PoolP!vars, PoolP!poolVars, PoolP!outVars
<1> QED
  BY <1>1, <1>2, <1>3, <1>4 DEF PoolMay, PoolP!Next, PoolP!PoolStep, PoolP!Terminated

\* The steps in which neither Run nor a handler nor a caller of Stop takes part.
ComponentStep ==
    \/ \E f \in Files : ReaderStep(f)
    \/ ReaderCloserStep
    \/ \E w \in Workers : WorkerStep(w)
    \/ PoolRunStep
    \/ Signal

LEMMA ComponentFrame ==
  ComponentStep \/ UNCHANGED vars => UNCHANGED <<collectorVars, handlerVars, runVars, poolCtx>>
<1>1. ASSUME NEW f \in Files, ReaderStep(f) PROVE UNCHANGED <<collectorVars, handlerVars, runVars, poolCtx>>
  BY <1>1 DEF ReaderStep, poolOwn
<1>2. ASSUME NEW w \in Workers, WorkerStep(w) PROVE UNCHANGED <<collectorVars, handlerVars, runVars, poolCtx>>
  BY <1>2, SamePoolStep DEF WorkerStep, PoolP!AddWorker, PoolP!WorkerStep, PoolP!WorkerStop,
     PoolP!WorkerInputClosed, PoolP!InputEnds, PoolP!WorkerReceive, PoolP!WorkerProcess, PoolP!Answer,
     PoolP!WorkerSend, PoolP!PutResult, PoolP!WorkerDrop, PoolP!GiveUp, PoolP!ctlVars
<1>3. PoolRunStep => UNCHANGED <<collectorVars, handlerVars, runVars, poolCtx>>
  BY SamePoolStep DEF PoolRunStep, Pool!FinishStart, PoolP!CloserStep, PoolP!CloseOutput,
     PoolP!CloseResults, PoolP!CloseErrors, PoolP!ctlVars, Pool!workerVars
<1> QED
  BY <1>1, <1>2, <1>3 DEF ComponentStep, ReaderCloserStep, Signal, SignalArrives, vars, poolOwn

\* Where Run, the handlers and a caller of Stop are together.  A handler that is done
\* has seen its channel closed and empty; handleResults, which may also have given up,
\* still has the result in hand then.
HandlersInv ==
    /\ handled \subseteq Pool!Job
    /\ runPc \in {"waiting", "returned"} <=> hr # "none"
    /\ runPc \in {"waiting", "returned"} <=> rh # "none"
    /\ runPc \in {"waiting", "returned"} <=> wh # "none"
    /\ Returned => hr = "done" /\ rh = "done" /\ wh = "done"
    /\ rh = "done" => errClosed /\ errCh = <<>>
    /\ wh = "done" => errorClosed /\ errorCh = <<>>
    /\ hr \in {"none", "recv"} => cur = NoResult
    /\ hr \notin {"none", "recv", "done"} => cur \in handled
    /\ hr = "done" /\ cur # NoResult => cur \in handled
    /\ hr = "done" /\ cur = NoResult => outputClosed /\ outputCh = <<>>
    /\ caller = "idle" => ~poolCtx

LEMMA SameJob == PoolP!Job = Pool!Job
  BY DEF PoolP!Job, Pool!Job, PoolP!AllOutcomes, Pool!AllOutcomes

\* handleResults is the only one that adds to what was handled.
LEMMA HandledGrows ==
  [Next]_vars => UNCHANGED handled \/ (HandleResult /\ handled' = handled \cup {Head(outputCh)})
<1>1. ComponentStep \/ UNCHANGED vars => UNCHANGED handled
  BY ComponentFrame DEF handlerVars
<1>2. RunStep \/ CallerStep \/ StopCancel => UNCHANGED handled
  BY DEF RunStep, SetupSignalHandling, StartReading, StorePool, StartPool, StartHandlers, Finish,
     ReturnAfter, RunTo, CallerStep, StopPool, StopDone, StopCancel, handlerVars
<1>3. ReaderErrorsStep \/ WorkerErrorsStep => UNCHANGED handled
  BY DEF ReaderErrorsStep, HandleReaderError, ReaderErrorsClosed, WorkerErrorsStep, HandleWorkerError,
     AddWorkerError, WorkerErrorsClosed, InErrorHandler
<1>4. ResultsStep =>
        UNCHANGED handled \/ (HandleResult /\ handled' = handled \cup {Head(outputCh)})
  BY DEF ResultsStep, HandleResult, ResultsClosed, CollectError, CountProcessed, AbortRun,
     WriteResult, WriteIf
<1> QED
  BY <1>1, <1>2, <1>3, <1>4 DEF Next, OwnStep, ComponentStep, Terminated

LEMMA HandledTyped ==
  PoolInv /\ handled \subseteq Pool!Job /\ [Next]_vars => handled' \subseteq Pool!Job
<1> SUFFICES ASSUME PoolInv, handled \subseteq Pool!Job, HandleResult PROVE Head(outputCh) \in Pool!Job
  BY HandledGrows
<1>1. outputCh \in Seq(Pool!Job) /\ outputCh # <<>>
  BY SameJob DEF HandleResult, PoolInv, PoolP!TypeInv, PoolP!TypeOK
<1> QED
  BY <1>1, HeadTailProperties

LEMMA HandlersInit == Init => HandlersInv
  BY DEF Init, HandlersInv, Pool!PoolInit, Returned

LEMMA HandlersStep == ReaderInv /\ PoolInv /\ HandlersInv /\ [Next]_vars => HandlersInv'
<1> SUFFICES ASSUME ReaderInv, PoolInv, HandlersInv, [Next]_vars PROVE HandlersInv'
  OBVIOUS
<1>0. /\ errClosed => errClosed'
      /\ errClosed /\ errCh = <<>> => errCh' = <<>>
      /\ outputClosed => outputClosed'
      /\ errorClosed => errorClosed'
      /\ outputClosed /\ outputCh = <<>> => outputCh' = <<>>
      /\ errorClosed /\ errorCh = <<>> => errorCh' = <<>>
  BY StepMaps, ReaderEndsStay, PoolEndsStay
<1>j. handled' \subseteq Pool!Job
  BY HandledTyped DEF HandlersInv
<1>1. CASE ComponentStep \/ UNCHANGED vars
  BY <1>0, <1>j, <1>1, ComponentFrame DEF HandlersInv, handlerVars, runVars, Returned
<1>2. CASE SetupSignalHandling \/ StartReading \/ StorePool \/ StartPool \/ StartHandlers
  <2>1. /\ UNCHANGED <<poolCtx, cur, handled, caller>>
        /\ runPc \notin {"waiting", "returned"} /\ runPc' # "returned"
        /\ IF runPc' = "waiting" THEN hr' = "recv" /\ rh' = "recv" /\ wh' = "recv"
                                 ELSE UNCHANGED <<hr, rh, wh>>
    BY <1>2, SamePoolStep DEF SetupSignalHandling, StartReading, StorePool, StartPool, StartHandlers,
       RunTo, PoolP!BeginStart, poolOwn
  <2> QED
    BY <1>0, <1>j, <2>1 DEF HandlersInv, Returned
<1>3. CASE Finish
  BY <1>0, <1>j, <1>3 DEF Finish, ReturnAfter, poolOwn, handlerVars, HandlersInv, Returned
<1>4. CASE ResultsStep
  <2>1. /\ UNCHANGED <<runPc, rh, wh, caller, poolCtx>> /\ hr \notin {"none", "done"} /\ hr' # "none"
    BY <1>4 DEF ResultsStep, HandleResult, ResultsClosed, CollectError, CountProcessed, AbortRun,
       WriteResult, WriteIf, ResultsTo, runVars, poolOwn
  <2>2. /\ hr' = "recv" => cur' = NoResult
        /\ hr' \notin {"none", "recv", "done"} => cur' \in handled'
        /\ hr' = "done" /\ cur' # NoResult => cur' \in handled'
    BY <1>4 DEF ResultsStep, HandleResult, ResultsClosed, CollectError, CountProcessed, AbortRun,
       WriteResult, WriteIf, ResultsTo, HandlersInv
  <2>3. hr' = "done" /\ cur' = NoResult => outputClosed' /\ outputCh' = <<>>
    <3>1. CASE ResultsClosed
      BY <3>1, <1>0 DEF ResultsClosed
    <3>2. CASE AbortRun
      <4>1. cur \in handled /\ cur' = cur
        BY <3>2 DEF AbortRun, ResultsTo, HandlersInv
      <4>2. cur # NoResult
        BY <4>1, OutcomesAssumption DEF HandlersInv, NoResult
      <4> QED
        BY <4>1, <4>2
    <3> QED
      BY <1>4, <3>1, <3>2 DEF ResultsStep, HandleResult, CollectError, CountProcessed, WriteResult,
         WriteIf, ResultsTo
  <2> QED
    BY <1>0, <1>j, <2>1, <2>2, <2>3 DEF HandlersInv, Returned
<1>5. CASE ReaderErrorsStep
  <2>1. /\ UNCHANGED <<runPc, hr, wh, cur, handled, caller, poolCtx>> /\ rh = "recv"
        /\ rh' \in {"recv", "done"} /\ (rh' = "done" => errClosed /\ errCh = <<>>)
    BY <1>5 DEF ReaderErrorsStep, HandleReaderError, ReaderErrorsClosed, InErrorHandler, runVars, poolOwn
  <2> QED
    BY <1>0, <1>j, <2>1 DEF HandlersInv, Returned
<1>6. CASE WorkerErrorsStep
  <2>1. /\ UNCHANGED <<runPc, hr, rh, cur, handled, caller, poolCtx>> /\ wh \in {"recv", "add"}
        /\ wh' \in {"recv", "add", "done"} /\ (wh' = "done" => errorClosed /\ errorCh = <<>>)
    BY <1>6 DEF WorkerErrorsStep, HandleWorkerError, AddWorkerError, WorkerErrorsClosed,
       InErrorHandler, runVars, poolOwn
  <2> QED
    BY <1>0, <1>j, <2>1 DEF HandlersInv, Returned
<1>7. CASE CallerStep \/ StopCancel
  <2>1. UNCHANGED <<runPc, handlerVars>> /\ caller' # "idle"
    BY <1>7 DEF CallerStep, StopPool, StopDone, StopCancel, handlerVars
  <2> QED
    BY <1>0, <1>j, <2>1 DEF HandlersInv, Returned, handlerVars
<1> QED
  BY <1>1, <1>2, <1>3, <1>4, <1>5, <1>6, <1>7 DEF Next, OwnStep, RunStep, ComponentStep, Terminated

RunInv == ReaderInv /\ PoolInv /\ HandlersInv

LEMMA RunInvInit == Init => RunInv
  BY ReaderInvInit, PoolInvInit, HandlersInit DEF RunInv

LEMMA RunInvStep == RunInv /\ [Next]_vars => RunInv'
  BY ReaderInvStep, StepMaps, PoolInvStep, HandlersStep DEF RunInv

LEMMA ReturnedEnds == RunInv => NoGoroutineLeft
<1> SUFFICES ASSUME RunInv, Returned
             PROVE  /\ rcloser = "done" /\ closer = "done"
                    /\ \A f \in Files : rpc[f] = "done"
                    /\ \A w \in Workers : wpc[w] = "exited"
  BY DEF NoGoroutineLeft
<1>1. errClosed /\ errorClosed
  BY DEF RunInv, HandlersInv
<1>2. rcloser = "done" /\ \A f \in Files : rpc[f] = "done"
  BY <1>1 DEF RunInv, ReaderInv, ReaderP!ErrorsInv, ReaderP!ReaderLife
<1>3. closer = "done" /\ \A w \in Workers : wpc[w] = "exited"
  BY <1>1 DEF RunInv, PoolInv, PoolP!Lifecycle
<1> QED
  BY <1>2, <1>3

\* Run returns only when no goroutine of the reader or the pool is left behind and
\* every channel is closed, whatever interrupted it (pipeline.go 100-125).
THEOREM ReturnCorrect == Safety => []NoGoroutineLeft
  BY RunInvInit, RunInvStep, ReturnedEnds, PTL DEF Safety

-----------------------------------------------------------------------------
(* What was handled.                                                       *)

\* The result that handleResults receives is about a record it has not handled.
LEMMA HandledFresh ==
  ASSUME PoolInv, outputCh # <<>>
  PROVE  Head(outputCh) \in Pool!Job /\ Head(outputCh).rec \notin Handled
<1>1. outputCh \in Seq(Pool!Job)
  BY SameJob DEF PoolInv, PoolP!TypeInv, PoolP!TypeOK
<1>2. Head(outputCh) = outputCh[1] /\ 1 \in 1 .. Len(outputCh) /\ Head(outputCh) \in Pool!Job
  BY <1>1, HeadTailProperties, LenProperties, EmptySeq
<1>3. Head(outputCh).rec \in PoolP!InOutput
  BY <1>2 DEF PoolP!InOutput
<1> QED
  BY <1>2, <1>3 DEF PoolInv, PoolP!ExactlyOnce, PoolP!Disjoint

\* One result per record was handled.
HandledOnce ==
    /\ IsFiniteSet(handled) /\ IsFiniteSet(Handled)
    /\ Cardinality(handled) = Cardinality(Handled)

LEMMA HandledOnceInit == Init => HandledOnce
<1> SUFFICES ASSUME Init PROVE HandledOnce
  OBVIOUS
<1>1. handled = {} /\ Handled = {}
  BY DEF Init, Handled
<1> QED
  BY <1>1, FS_EmptySet DEF HandledOnce

LEMMA HandledOnceStep == PoolInv /\ HandledOnce /\ [Next]_vars => HandledOnce'
<1> SUFFICES ASSUME PoolInv, HandledOnce, [Next]_vars PROVE HandledOnce'
  OBVIOUS
<1>1. CASE UNCHANGED handled
  BY <1>1, HandledStays DEF HandledOnce
<1>2. CASE HandleResult /\ handled' = handled \cup {Head(outputCh)}
  <2> DEFINE job == Head(outputCh)
  <2>1. job.rec \notin Handled
    BY <1>2, HandledFresh DEF HandleResult
  <2>2. job \notin handled
    BY <2>1 DEF Handled
  <2>3. handled' = handled \cup {job} /\ Handled' = Handled \cup {job.rec}
    BY <1>2, HandledReceives
  <2> HIDE DEF job
  <2>4. IsFiniteSet(handled') /\ Cardinality(handled') = Cardinality(handled) + 1
    BY <2>2, <2>3, FS_AddElement DEF HandledOnce
  <2>5. IsFiniteSet(Handled') /\ Cardinality(Handled') = Cardinality(Handled) + 1
    BY <2>1, <2>3, FS_AddElement DEF HandledOnce
  <2> QED
    BY <2>4, <2>5 DEF HandledOnce
<1> QED
  BY <1>1, <1>2, HandledGrows

\* Without a Stop, a run that has come to the end of the results has handled every
\* record the reader sent.
LEMMA AllHandled ==
  ASSUME RunInv, Returned, caller = "idle", ~Aborted
  PROVE  Handled = Supplied
<1>1. ~poolCtx /\ outputClosed /\ outputCh = <<>>
  BY DEF RunInv, HandlersInv, Aborted
<1>2. /\ \A w \in Workers : wpc[w] = "exited"
      /\ \E w \in Workers : wpc[w] = "exited"
  BY ReturnedEnds, PipelineAssumption DEF NoGoroutineLeft
<1>3. recordCh = <<>> /\ dropped = {}
  BY <1>1, <1>2 DEF RunInv, PoolInv, PoolP!Lifecycle
<1>4. PoolP!Busy = {}
  BY <1>2 DEF PoolP!Busy, RunInv, PoolInv, PoolP!TypeInv, PoolP!HandsMatch
<1>5. Len(<<>>) = 0 /\ 1 .. 0 = {}
  OBVIOUS
<1>6. PoolP!InInput = {} /\ PoolP!InOutput = {} /\ PoolP!InHand = {}
  BY <1>1, <1>3, <1>4, <1>5 DEF PoolP!InInput, PoolP!InOutput, PoolP!InHand
<1> QED
  BY <1>3, <1>6 DEF RunInv, PoolInv, PoolP!ExactlyOnce, PoolP!Located

\* A file that a run left short of its rows has an error, and it was received.
LEMMA ShortHasError ==
  ASSUME RunInv, Returned, NEW f \in Files, FirstLine - 1 + sent[f] < Len(content[f].rows)
  PROVE  \E e \in Reported : e.file = f
<1>1. rpc[f] = "done" /\ errCh = <<>>
  BY ReturnedEnds DEF NoGoroutineLeft, RunInv, HandlersInv
<1>2. rerr[f] = "nil" => FirstLine - 1 + sent[f] = Len(content[f].rows)
  BY <1>1, FirstLineIs DEF RunInv, ReaderInv, ReaderP!TypeInv, ReaderP!LinesMatch, ReaderP!Rows
<1>3. Len(content[f].rows) \in Nat
  BY ContentsAssumption, LenProperties DEF RunInv, ReaderInv, LineFits
<1>4. rerr[f] # "nil"
  BY <1>2, <1>3
<1>5. InErrCh = {}
  <2>1. Len(<<>>) = 0 /\ 1 .. 0 = {}
    OBVIOUS
  <2> QED
    BY <1>1, <2>1 DEF InErrCh
<1>6. [file |-> f, kind |-> rerr[f]] \in Reported
  BY <1>1, <1>4, <1>5, ReportedIs DEF DoneErrors
<1> QED
  BY <1>6

\* A run on which Stop was not called and that did not abort hands every record the
\* reader sent to handleResults exactly once, and every file it left short has an
\* error, for any files, workers and buffers (pipeline.go 127-179, 243-258).
THEOREM NothingLostCorrect == Safety => []NothingLost
<1>1. RunInv /\ HandledOnce => NothingLost
  BY AllHandled, ShortHasError DEF NothingLost, HandledOnce
<1>2. RunInv /\ HandledOnce /\ [Next]_vars => RunInv' /\ HandledOnce'
  BY RunInvStep, HandledOnceStep DEF RunInv
<1> QED
  BY RunInvInit, HandledOnceInit, <1>1, <1>2, PTL DEF Safety

-----------------------------------------------------------------------------
(* The summary and the output.                                             *)

\* What is handled, and what is on its way there, carries an answer.
AnsweredInv == PoolP!Answered /\ \A job \in handled : job.outcome \in Pool!AllOutcomes

LEMMA AnsweredInit == Init => AnsweredInv
<1>1. PoolP!Init => PoolP!Answered
  BY PoolAssumed, PoolP!AnsweredInit
<1> QED
  BY <1>1, InitMaps DEF Init, AnsweredInv

LEMMA AnsweredStep == RunInv /\ AnsweredInv /\ [Next]_vars => AnsweredInv'
<1> SUFFICES ASSUME RunInv, AnsweredInv, [Next]_vars PROVE AnsweredInv'
  OBVIOUS
<1>1. PoolP!Answered'
  <2>1. PoolP!TypeInv /\ PoolP!Answered /\ PoolMay => PoolP!Answered'
    BY PoolAssumed, PoolP!AnsweredStep DEF PoolMay
  <2> QED
    BY <2>1, StepMaps DEF RunInv, PoolInv, AnsweredInv
<1>2. ASSUME outputCh # <<>> PROVE Head(outputCh).outcome \in Pool!AllOutcomes
  <2>1. outputCh \in Seq(Pool!Job)
    BY SameJob DEF RunInv, PoolInv, PoolP!TypeInv, PoolP!TypeOK
  <2>2. Head(outputCh) = outputCh[1] /\ 1 \in 1 .. Len(outputCh)
    BY <1>2, <2>1, LenProperties, EmptySeq, HeadTailProperties
  <2>3. outputCh[1].outcome \in PoolP!AllOutcomes
    BY <2>2 DEF AnsweredInv, PoolP!Answered
  <2> QED
    BY <2>2, <2>3 DEF PoolP!AllOutcomes, Pool!AllOutcomes
<1>3. \A job \in handled' : job.outcome \in Pool!AllOutcomes
  BY <1>2, HandledGrows DEF AnsweredInv, HandleResult
<1> QED
  BY <1>1, <1>3 DEF AnsweredInv

Statuses == {"success", "failed", "skipped"}

LEMMA StatusIs ==
  ASSUME NEW job, job.outcome \in Pool!AllOutcomes
  PROVE  StatusOf(job) \in Statuses /\ (StatusOf(job) = "success" <=> job.outcome = "success")
  BY DEF StatusOf, Failures, Statuses, Pool!AllOutcomes

\* Only handleResults changes the result in hand, the summary and the output.
LEMMA OutputFrame ==
  [Next]_vars => UNCHANGED <<cur, handled, summary, written>> \/ HandleResult \/ WriteResult
<1>1. ComponentStep \/ UNCHANGED vars => UNCHANGED <<cur, handled, summary, written>>
  BY ComponentFrame DEF handlerVars
<1>2. RunStep \/ CallerStep \/ StopCancel => UNCHANGED <<cur, handled, summary, written>>
  BY DEF RunStep, SetupSignalHandling, StartReading, StorePool, StartPool, StartHandlers, Finish,
     ReturnAfter, RunTo, CallerStep, StopPool, StopDone, StopCancel, handlerVars
<1>3. ReaderErrorsStep \/ WorkerErrorsStep => UNCHANGED <<cur, handled, summary, written>>
  BY DEF ReaderErrorsStep, HandleReaderError, ReaderErrorsClosed, WorkerErrorsStep, HandleWorkerError,
     AddWorkerError, WorkerErrorsClosed, InErrorHandler
<1>4. ResultsStep => UNCHANGED <<cur, handled, summary, written>> \/ HandleResult \/ WriteResult
  BY DEF ResultsStep, ResultsClosed, CollectError, CountProcessed, AbortRun
<1> QED
  BY <1>1, <1>2, <1>3, <1>4 DEF Next, OwnStep, ComponentStep, Terminated

WithStatus(s) == {job \in handled : StatusOf(job) = s}

SummaryInv == summary \in [Statuses -> Nat] /\ \A s \in Statuses : summary[s] = CountOf(s)

LEMMA SummaryInit == Init => SummaryInv
<1> SUFFICES ASSUME Init PROVE SummaryInv
  OBVIOUS
<1>1. \A s : {job \in handled : StatusOf(job) = s} = {}
  BY DEF Init
<1>2. \A s \in Statuses : CountOf(s) = 0
  BY <1>1, FS_EmptySet DEF CountOf
<1> QED
  BY <1>2 DEF Init, SummaryInv, Statuses

LEMMA SummaryStep ==
  RunInv /\ AnsweredInv' /\ HandledOnce /\ SummaryInv /\ [Next]_vars => SummaryInv'
<1> SUFFICES ASSUME RunInv, AnsweredInv', HandledOnce, SummaryInv, [Next]_vars PROVE SummaryInv'
  OBVIOUS
<1>1. CASE UNCHANGED <<handled, summary>>
  BY <1>1 DEF SummaryInv, CountOf
<1>2. CASE HandleResult
  <2> DEFINE job == Head(outputCh)
  <2>1. job.rec \notin Handled
    BY <1>2, HandledFresh DEF HandleResult, RunInv
  <2>2. /\ job \notin handled /\ handled' = handled \cup {job}
        /\ summary' = [summary EXCEPT ![StatusOf(job)] = @ + 1]
    BY <1>2, <2>1 DEF Handled, HandleResult, AddResult
  <2>3. StatusOf(job) \in Statuses
    BY <2>2, StatusIs DEF AnsweredInv
  <2> HIDE DEF job
  <2>4. ASSUME NEW s \in Statuses
        PROVE  CountOf(s)' = IF s = StatusOf(job) THEN CountOf(s) + 1 ELSE CountOf(s)
    <3>1. /\ CountOf(s) = Cardinality(WithStatus(s)) /\ CountOf(s)' = Cardinality(WithStatus(s)')
          /\ job \notin WithStatus(s)
      BY <2>2 DEF CountOf, WithStatus
    <3>2. IsFiniteSet(WithStatus(s))
      BY FS_Subset DEF HandledOnce, WithStatus
    <3>3. WithStatus(s)' = IF s = StatusOf(job) THEN WithStatus(s) \cup {job} ELSE WithStatus(s)
      BY <2>2 DEF WithStatus
    <3>4. Cardinality(WithStatus(s) \cup {job}) = Cardinality(WithStatus(s)) + 1
      BY <3>1, <3>2, FS_AddElement
    <3> QED
      BY <3>1, <3>3, <3>4
  <2>5. \A s \in Statuses : summary'[s] = IF s = StatusOf(job) THEN summary[s] + 1 ELSE summary[s]
    BY <2>2 DEF SummaryInv
  <2>6. summary' \in [Statuses -> Nat]
    BY <2>2, <2>3 DEF SummaryInv
  <2> QED
    BY <2>4, <2>5, <2>6 DEF SummaryInv
<1>3. CASE WriteResult
  BY <1>1, <1>3 DEF WriteResult, WriteIf
<1> QED
  BY <1>1, <1>2, <1>3, OutputFrame

\* What was written are the handled successes but for the one in hand.
InHandSuccess == IF cur # NoResult /\ StatusOf(cur) = "success" THEN 1 ELSE 0

WrittenInv ==
    /\ IsFiniteSet(written)
    /\ \A r \in written : [rec |-> r, outcome |-> "success"] \in handled
    /\ cur # NoResult => cur \in handled /\ cur.rec \notin written
    /\ WriteOutput => Cardinality(written) + InHandSuccess = summary["success"]

LEMMA WrittenInit == Init => WrittenInv
<1> SUFFICES ASSUME Init PROVE WrittenInv
  OBVIOUS
<1>1. written = {} /\ cur = NoResult /\ summary["success"] = 0
  BY DEF Init
<1> QED
  BY <1>1, FS_EmptySet DEF WrittenInv, InHandSuccess

LEMMA WrittenStep ==
  RunInv /\ AnsweredInv /\ AnsweredInv' /\ SummaryInv /\ WrittenInv /\ [Next]_vars => WrittenInv'
<1> SUFFICES ASSUME RunInv, AnsweredInv, AnsweredInv', SummaryInv, WrittenInv, [Next]_vars
             PROVE  WrittenInv'
  OBVIOUS
<1>n. Cardinality(written) \in Nat /\ summary["success"] \in Nat
  BY FS_CardinalityType DEF WrittenInv, SummaryInv, Statuses
<1>1. CASE UNCHANGED <<cur, handled, summary, written>>
  BY <1>1 DEF WrittenInv, InHandSuccess
<1>2. CASE HandleResult
  <2> DEFINE job == Head(outputCh)
  <2>1. job \in Pool!Job /\ job.rec \notin Handled /\ job # NoResult
    BY <1>2, HandledFresh, OutcomesAssumption DEF HandleResult, RunInv, NoResult
  <2>2. /\ handled' = handled \cup {job} /\ cur' = job /\ written' = written /\ cur = NoResult
        /\ summary' = [summary EXCEPT ![StatusOf(job)] = @ + 1]
    BY <1>2 DEF HandleResult, ResultsTo, AddResult, RunInv, HandlersInv
  <2>3. job.rec \notin written
    <3>1. ASSUME NEW r \in written PROVE r \in Handled
      <4>1. PICK j \in handled : j = [rec |-> r, outcome |-> "success"]
        BY DEF WrittenInv
      <4> QED
        BY <4>1 DEF Handled
    <3> QED
      BY <2>1, <3>1
  <2>4. StatusOf(job) \in Statuses
    BY <2>2, StatusIs DEF AnsweredInv
  <2> HIDE DEF job
  <2>5. InHandSuccess = 0 /\ InHandSuccess' = IF StatusOf(job) = "success" THEN 1 ELSE 0
    BY <2>1, <2>2 DEF InHandSuccess, StatusOf, NoResult
  <2>6. summary'["success"] = IF StatusOf(job) = "success" THEN summary["success"] + 1
                                                           ELSE summary["success"]
    BY <2>2 DEF SummaryInv, Statuses
  <2>7. WriteOutput => Cardinality(written') + InHandSuccess' = summary'["success"]
    BY <1>n, <2>2, <2>5, <2>6 DEF WrittenInv
  <2> QED
    BY <2>1, <2>2, <2>3, <2>7 DEF WrittenInv
<1>3. CASE WriteResult
  <2>1. /\ cur \in handled /\ cur' = NoResult /\ UNCHANGED <<handled, summary>>
        /\ written' = IF WriteOutput /\ StatusOf(cur) = "success" THEN written \cup {cur.rec} ELSE written
    BY <1>3 DEF WriteResult, WriteIf, ResultsTo, RunInv, HandlersInv
  <2>2. cur # NoResult /\ cur \in Pool!Job /\ cur.rec \notin written
    BY <2>1, OutcomesAssumption DEF RunInv, HandlersInv, NoResult, WrittenInv
  <2>3. InHandSuccess' = 0
    BY <2>1 DEF InHandSuccess
  <2>4. CASE WriteOutput /\ StatusOf(cur) = "success"
    <3>1. written' = written \cup {cur.rec} /\ InHandSuccess = 1
      BY <2>1, <2>2, <2>4 DEF InHandSuccess
    <3>2. cur.outcome = "success"
      BY <2>1, <2>4, StatusIs DEF AnsweredInv
    <3>3. [rec |-> cur.rec, outcome |-> "success"] = cur
      BY <2>2, <3>2 DEF Pool!Job
    <3>4. IsFiniteSet(written') /\ Cardinality(written') = Cardinality(written) + 1
      BY <2>2, <3>1, FS_AddElement DEF WrittenInv
    <3>5. Cardinality(written') + InHandSuccess' = summary'["success"]
      BY <1>n, <2>1, <2>3, <2>4, <3>1, <3>4 DEF WrittenInv
    <3>6. \A r \in written' : [rec |-> r, outcome |-> "success"] \in handled'
      BY <2>1, <3>1, <3>3 DEF WrittenInv
    <3> QED
      BY <2>1, <3>4, <3>5, <3>6 DEF WrittenInv
  <2>5. CASE ~(WriteOutput /\ StatusOf(cur) = "success")
    <3>1. written' = written
      BY <2>1, <2>5
    <3>2. WriteOutput => InHandSuccess = 0
      BY <2>5 DEF InHandSuccess
    <3> QED
      BY <1>n, <2>1, <2>3, <3>1, <3>2 DEF WrittenInv
  <2> QED
    BY <2>4, <2>5
<1> QED
  BY <1>1, <1>2, <1>3, OutputFrame

\* In every state the summary counts the handled results by their status, and the
\* output holds each handled success once, but for the one in hand (pipeline.go 127-179).
THEOREM OutputCorrect == Safety => []OutputMatchesSummary
<1> DEFINE Inv == RunInv /\ HandledOnce /\ AnsweredInv /\ SummaryInv /\ WrittenInv
<1>1. Init => Inv
  BY RunInvInit, HandledOnceInit, AnsweredInit, SummaryInit, WrittenInit
<1>2. Inv /\ [Next]_vars => Inv'
  <2> SUFFICES ASSUME Inv, [Next]_vars PROVE Inv'
    OBVIOUS
  <2>1. RunInv' /\ AnsweredInv' /\ HandledOnce'
    BY RunInvStep, AnsweredStep, HandledOnceStep DEF RunInv
  <2> QED
    BY <2>1, SummaryStep, WrittenStep
<1>3. Inv => OutputMatchesSummary
  BY DEF SummaryInv, WrittenInv, OutputMatchesSummary, InHandSuccess, Statuses
<1> QED
  BY <1>1, <1>2, <1>3, PTL DEF Safety

-----------------------------------------------------------------------------
(* The collector.                                                          *)

ErrKinds == {"ProcessingError", "ErrInvalidRecord", "other"}
OfErr(err) == {entry \in Col!Entry : entry.err = err}
Entries(err) == Cardinality(Places(errs, OfErr(err)))

\* How many entries n errors leave.
Capped(n) == IF MaxErrors > 0 /\ n > MaxErrors THEN MaxErrors ELSE n

\* Add keeps an entry while there is room, and never another one.
LEMMA AddCounts ==
  ASSUME errs \in Seq(Col!Entry), NEW err \in ErrKinds, Col!Add(err),
         NEW n \in Nat, Len(errs) = Capped(n)
  PROVE  /\ errs' \in Seq(Col!Entry) /\ Len(errs') = Capped(n + 1)
         /\ UNCHANGED totalProcessed
         /\ Entries(err)' <= Entries(err) + 1
         /\ \A e \in ErrKinds \ {err} : Entries(e)' = Entries(e)
<1>n. MaxErrors \in Nat /\ Len(errs) \in Nat
  BY PipelineAssumption, LenProperties
<1>p. \A e \in ErrKinds : Entries(e) \in Nat
  BY PlacesFinite DEF Entries
<1>e. \A e \in ErrKinds : Entries(e)' = Cardinality(Places(errs', OfErr(e)))
  BY DEF Entries, Places, OfErr, Col!Entry
<1>1. CASE Col!Full /\ UNCHANGED errs /\ UNCHANGED totalProcessed
  <2>1. MaxErrors > 0 /\ n >= MaxErrors /\ Len(errs) = MaxErrors
    BY <1>1, <1>n DEF Col!Full, Capped
  <2>2. Capped(n + 1) = MaxErrors
    BY <1>n, <2>1 DEF Capped
  <2>3. \A e \in ErrKinds : Entries(e)' = Entries(e)
    BY <1>1, <1>e DEF Entries
  <2> QED
    BY <1>1, <1>p, <2>1, <2>2, <2>3
<1>2. CASE ~Col!Full /\ Col!Store(err, Col!Category(err)) /\ UNCHANGED totalProcessed
  <2> DEFINE entry == [err |-> err, category |-> Col!Category(err)]
  <2>1. Col!Category(err) \in Col!Categories
    BY DEF Col!Category, Col!Categories
  <2>2. entry \in Col!Entry /\ entry.err = err
    BY <2>1 DEF Col!Entry, ErrKinds
  <2>3. errs' = Append(errs, entry)
    BY <1>2 DEF Col!Store
  <2> HIDE DEF entry
  <2>4. errs' \in Seq(Col!Entry) /\ Len(errs') = Len(errs) + 1
    BY <2>2, <2>3, AppendProperties
  <2>5. ~(MaxErrors > 0 /\ Len(errs) >= MaxErrors)
    BY <1>2 DEF Col!Full
  <2>6. Len(errs) + 1 = Capped(n + 1)
    BY <1>n, <2>5 DEF Capped
  <2>7. \A e \in ErrKinds : entry \in OfErr(e) <=> e = err
    BY <2>2 DEF OfErr
  <2>8. \A e \in ErrKinds :
          Entries(e)' = IF entry \in OfErr(e) THEN Entries(e) + 1 ELSE Entries(e)
    BY <1>e, <2>2, <2>3, PlacesAppend DEF Entries
  <2> QED
    BY <1>2, <1>p, <2>4, <2>6, <2>7, <2>8
<1> QED
  BY <1>1, <1>2 DEF Col!Add, Col!colVars

\* The error of the result in hand, and of the worker error in hand, before it is added.
Owed(outcome) == IF hr = "collect" /\ cur.outcome = outcome THEN 1 ELSE 0
OwedWorker == IF wh = "add" THEN 1 ELSE 0
\* The result in hand, before it is counted.
Uncounted == IF hr \in {"collect", "count"} THEN 1 ELSE 0

\* How many errors of each kind were handed to the collector.
Added == [ProcessingError  |-> Cardinality(Reported),
          ErrInvalidRecord |-> ResultErrors("failed") - Owed("failed"),
          other            |-> ResultErrors("error") - Owed("error") + workerErrs - OwedWorker]
AddedInAll == Added.ProcessingError + Added.ErrInvalidRecord + Added.other

AddedMore(err) ==
    /\ Added'[err] = Added[err] + 1
    /\ \A e \in ErrKinds \ {err} : Added'[e] = Added[e]

AddedSame == \A e \in ErrKinds : Added'[e] = Added[e]

\* A step that has nothing to do with errors.
AccountRests ==
    /\ UNCHANGED <<collectorVars, handled, workerErrs>> /\ Reported' = Reported
    /\ \/ UNCHANGED <<hr, cur>>
       \/ {hr, hr'} \cap {"collect", "count"} = {}
    /\ wh' = "add" <=> wh = "add"

LEMMA AccountFrame ==
  ASSUME RunInv, [Next]_vars
  PROVE  \/ AccountRests \/ HandleResult \/ CollectError \/ CountProcessed
         \/ HandleReaderError \/ HandleWorkerError \/ AddWorkerError
<1>1. ASSUME UNCHANGED <<readerOwn, errCh>> PROVE Reported' = Reported
  BY <1>1, ReportedStays DEF readerOwn
<1>2. CASE ComponentStep \/ UNCHANGED vars
  <2>1. UNCHANGED <<collectorVars, handlerVars>>
    BY <1>2, ComponentFrame
  <2>2. Reported' = Reported
    <3>1. ASSUME NEW f \in Files, ReaderStep(f) PROVE Reported' = Reported
      BY <3>1, FileStepMaps DEF RunInv
    <3>2. ASSUME ReaderCloserStep PROVE Reported' = Reported
      <4>1. UNCHANGED <<rpc, rerr, errCh>>
        BY <3>2, SameCloserStep DEF ReaderCloserStep, ReaderP!CloserStep, ReaderP!CloseRecords,
           ReaderP!CloseAfter, ReaderP!CloseErrs, ReaderP!fileVars
      <4> QED
        BY <4>1, ReportedStays
    <3> QED
      BY <1>1, <1>2, <3>1, <3>2 DEF ComponentStep, WorkerStep, PoolRunStep, Signal, SignalArrives,
         channels, vars
  <2> QED
    BY <2>1, <2>2 DEF AccountRests, handlerVars
<1>3. CASE StartReading
  <2>1. UNCHANGED errCh /\ Reported = {} /\ Reported' = {}
    <3>1. rcloser = "none" /\ rpc' = [f \in Files |-> "open"]
      BY <1>3, SameRead DEF StartReading, ReaderP!Read
    <3>2. \A f \in Files : rpc[f] = "none" /\ rpc'[f] = "open"
      BY <3>1 DEF RunInv, ReaderInv, ReaderP!TypeInv, ReaderP!LinesMatch
    <3> QED
      BY <1>3, <3>2, SameRead DEF Reported, StartReading, ReaderP!Read
  <2> QED
    BY <1>3, <2>1 DEF StartReading, RunTo, AccountRests
<1>4. CASE SetupSignalHandling \/ StorePool \/ StartPool \/ Finish \/ CallerStep \/ StopCancel
  BY <1>1, <1>4 DEF SetupSignalHandling, StorePool, StartPool, RunTo, Finish, ReturnAfter, CallerStep,
     StopPool, StopDone, StopCancel, AccountRests, handlerVars, channels
<1>5. CASE StartHandlers
  <2>1. hr = "none" /\ wh = "none" /\ hr' = "recv" /\ wh' = "recv"
    BY <1>5 DEF StartHandlers, RunTo, RunInv, HandlersInv
  <2> QED
    BY <1>1, <1>5, <2>1 DEF StartHandlers, RunTo, channels, AccountRests
<1>6. CASE ResultsClosed \/ AbortRun \/ WriteResult
  BY <1>1, <1>6 DEF ResultsClosed, AbortRun, WriteResult, WriteIf, ResultsTo, AccountRests
<1>7. CASE ReaderErrorsClosed \/ WorkerErrorsClosed
  BY <1>1, <1>7 DEF ReaderErrorsClosed, WorkerErrorsClosed, InErrorHandler, AccountRests
<1> QED
  BY <1>2, <1>3, <1>4, <1>5, <1>6, <1>7 DEF Next, OwnStep, RunStep, ResultsStep, ReaderErrorsStep,
     WorkerErrorsStep, ComponentStep, Terminated

\* The collector's entries are the errors handed to it, up to MaxErrors in all, and
\* it has counted every handled result but the one that is about to be counted.
AccountInv ==
    /\ IsFiniteSet(Reported) /\ workerErrs \in Nat
    /\ hr = "collect" => cur.outcome \in {"failed", "error"}
    /\ errs \in Seq(Col!Entry) /\ totalProcessed \in Nat
    /\ \A e \in ErrKinds : Added[e] \in Nat /\ Entries(e) <= Added[e]
    /\ Len(errs) = Capped(AddedInAll)
    /\ totalProcessed + Uncounted = Cardinality(handled)

LEMMA AccountInit == Init => AccountInv
<1> SUFFICES ASSUME Init PROVE AccountInv
  OBVIOUS
<1>1. /\ Reported = {} /\ handled = {} /\ workerErrs = 0 /\ errs = <<>> /\ totalProcessed = 0
      /\ hr = "none" /\ wh = "none"
  BY DEF Init, Reported, Col!Init
<1>2. Cardinality({}) = 0 /\ IsFiniteSet({})
  BY FS_EmptySet
<1>3. \A o : {job \in handled : job.outcome = o} = {}
  BY <1>1
<1>4. \A o : ResultErrors(o) = 0 /\ Owed(o) = 0
  BY <1>1, <1>2, <1>3 DEF ResultErrors, Owed
<1>5. \A e \in ErrKinds : Added[e] = 0
  BY <1>1, <1>2, <1>4 DEF Added, OwedWorker, ErrKinds
<1>6. AddedInAll = 0
  BY <1>5 DEF AddedInAll, ErrKinds
<1>7. errs \in Seq(Col!Entry) /\ Len(errs) = 0 /\ \A P : Places(errs, P) = {}
  BY <1>1, EmptySeq DEF Places
<1>8. \A e \in ErrKinds : Entries(e) = 0
  BY <1>2, <1>7 DEF Entries
<1>9. Len(errs) = Capped(AddedInAll)
  BY <1>6, <1>7, PipelineAssumption DEF Capped
<1>10. totalProcessed + Uncounted = Cardinality(handled)
  BY <1>1, <1>2 DEF Uncounted
<1> QED
  BY <1>1, <1>2, <1>5, <1>7, <1>8, <1>9, <1>10 DEF AccountInv

\* What follows from handing one more error to the collector, and from none.
LEMMA AccountAdds ==
  ASSUME AccountInv, NEW err \in ErrKinds, Col!Add(err), AddedMore(err)
  PROVE  /\ errs' \in Seq(Col!Entry) /\ UNCHANGED totalProcessed
         /\ \A e \in ErrKinds : Added'[e] \in Nat /\ Entries(e)' <= Added'[e]
         /\ Len(errs') = Capped(AddedInAll')
<1>1. \A e \in ErrKinds : Added[e] \in Nat /\ Entries(e) \in Nat /\ Entries(e) <= Added[e]
  BY PlacesFinite DEF AccountInv, Entries
<1>2. AddedInAll \in Nat /\ AddedInAll' = AddedInAll + 1
  <2>1. AddedInAll = Added["ProcessingError"] + Added["ErrInvalidRecord"] + Added["other"]
    BY DEF AddedInAll, Added
  <2>2. AddedInAll' = Added'["ProcessingError"] + Added'["ErrInvalidRecord"] + Added'["other"]
    BY DEF AddedInAll, Added
  <2> QED
    BY <1>1, <2>1, <2>2 DEF AddedMore, ErrKinds
<1>3. /\ errs' \in Seq(Col!Entry) /\ Len(errs') = Capped(AddedInAll + 1)
      /\ UNCHANGED totalProcessed
      /\ Entries(err)' <= Entries(err) + 1
      /\ \A e \in ErrKinds \ {err} : Entries(e)' = Entries(e)
  BY <1>2, AddCounts DEF AccountInv
<1>4. Entries(err)' \in Nat
  <2>1. Entries(err)' = Cardinality(Places(errs', OfErr(err)))
    BY DEF Entries, Places, OfErr, Col!Entry
  <2> QED
    BY <1>3, <2>1, PlacesFinite
<1>5. \A e \in ErrKinds : Added'[e] \in Nat /\ Entries(e)' <= Added'[e]
  BY <1>1, <1>3, <1>4 DEF AddedMore
<1> QED
  BY <1>2, <1>3, <1>5

LEMMA AccountKeeps ==
  ASSUME AccountInv, UNCHANGED errs, AddedSame
  PROVE  /\ \A e \in ErrKinds : Added'[e] \in Nat /\ Entries(e)' <= Added'[e]
         /\ Len(errs') = Capped(AddedInAll')
<1>1. \A e \in ErrKinds : Entries(e)' = Entries(e)
  BY DEF Entries, Places, OfErr, Col!Entry
<1>2. AddedInAll' = AddedInAll
  <2>1. AddedInAll = Added["ProcessingError"] + Added["ErrInvalidRecord"] + Added["other"]
    BY DEF AddedInAll, Added
  <2>2. AddedInAll' = Added'["ProcessingError"] + Added'["ErrInvalidRecord"] + Added'["other"]
    BY DEF AddedInAll, Added
  <2> QED
    BY <2>1, <2>2 DEF AddedSame, ErrKinds
<1>3. Capped(AddedInAll') = Capped(AddedInAll)
  BY <1>2 DEF Capped
<1> QED
  BY <1>1, <1>3 DEF AccountInv, AddedSame

ResultsWith(outcome) == {job \in handled : job.outcome = outcome}

LEMMA ResultErrorsNumber ==
  HandledOnce => \A o : ResultErrors(o) \in Nat
<1> SUFFICES ASSUME HandledOnce, NEW o PROVE ResultErrors(o) \in Nat
  OBVIOUS
<1>1. IsFiniteSet(ResultsWith(o))
  BY FS_Subset DEF HandledOnce, ResultsWith
<1>2. ResultErrors(o) = Cardinality(ResultsWith(o))
  BY DEF ResultErrors, ResultsWith
<1> QED
  BY <1>1, <1>2, FS_CardinalityType

LEMMA ResultErrorsGrow ==
  ASSUME HandledOnce, NEW job, job \notin handled, handled' = handled \cup {job}, NEW o
  PROVE  ResultErrors(o)' = IF job.outcome = o THEN ResultErrors(o) + 1 ELSE ResultErrors(o)
<1>1. /\ ResultErrors(o) = Cardinality(ResultsWith(o)) /\ ResultErrors(o)' = Cardinality(ResultsWith(o)')
      /\ job \notin ResultsWith(o)
  BY DEF ResultErrors, ResultsWith
<1>2. IsFiniteSet(ResultsWith(o))
  BY FS_Subset DEF HandledOnce, ResultsWith
<1>3. ResultsWith(o)' = IF job.outcome = o THEN ResultsWith(o) \cup {job} ELSE ResultsWith(o)
  BY DEF ResultsWith
<1>4. Cardinality(ResultsWith(o) \cup {job}) = Cardinality(ResultsWith(o)) + 1
  BY <1>1, <1>2, FS_AddElement
<1> QED
  BY <1>1, <1>3, <1>4

LEMMA ResultErrorsStay == UNCHANGED handled => \A o : ResultErrors(o)' = ResultErrors(o)
  BY DEF ResultErrors

LEMMA AddedIs ==
  /\ Added["ProcessingError"] = Cardinality(Reported)
  /\ Added["ErrInvalidRecord"] = ResultErrors("failed") - Owed("failed")
  /\ Added["other"] = ResultErrors("error") - Owed("error") + workerErrs - OwedWorker
  /\ Added'["ProcessingError"] = Cardinality(Reported')
  /\ Added'["ErrInvalidRecord"] = ResultErrors("failed")' - Owed("failed")'
  /\ Added'["other"] = ResultErrors("error")' - Owed("error")' + workerErrs' - OwedWorker'
  BY DEF Added

LEMMA AccountRestsStep == AccountInv /\ AccountRests => AccountInv'
<1> SUFFICES ASSUME AccountInv, AccountRests PROVE AccountInv'
  OBVIOUS
<1>1. \A o : ResultErrors(o)' = ResultErrors(o) /\ Owed(o)' = Owed(o)
  BY ResultErrorsStay DEF AccountRests, Owed
<1>2. OwedWorker' = OwedWorker /\ Uncounted' = Uncounted
  BY DEF AccountRests, OwedWorker, Uncounted
<1>3. AddedSame
  BY <1>1, <1>2, AddedIs DEF AddedSame, ErrKinds, AccountRests
<1>4. hr' = "collect" => cur'.outcome \in {"failed", "error"}
  BY DEF AccountInv, AccountRests
<1>5. UNCHANGED <<errs, totalProcessed, handled, workerErrs>> /\ Reported' = Reported
  BY DEF AccountRests, collectorVars
<1>6. /\ \A e \in ErrKinds : Added'[e] \in Nat /\ Entries(e)' <= Added'[e]
      /\ Len(errs') = Capped(AddedInAll')
  BY <1>3, <1>5, AccountKeeps
<1>7. AccountInv' <=>
        /\ IsFiniteSet(Reported') /\ workerErrs' \in Nat
        /\ hr' = "collect" => cur'.outcome \in {"failed", "error"}
        /\ errs' \in Seq(Col!Entry) /\ totalProcessed' \in Nat
        /\ \A e \in ErrKinds : Added'[e] \in Nat /\ Entries(e)' <= Added'[e]
        /\ Len(errs') = Capped(AddedInAll')
        /\ totalProcessed' + Uncounted' = Cardinality(handled')
  BY DEF AccountInv, Col!Entry, Capped
<1> QED
  BY <1>2, <1>4, <1>5, <1>6, <1>7 DEF AccountInv

\* What AccountInv says of the next state.
LEMMA AccountNext ==
  AccountInv' <=>
      /\ IsFiniteSet(Reported') /\ workerErrs' \in Nat
      /\ hr' = "collect" => cur'.outcome \in {"failed", "error"}
      /\ errs' \in Seq(Col!Entry) /\ totalProcessed' \in Nat
      /\ \A e \in ErrKinds : Added'[e] \in Nat /\ Entries(e)' <= Added'[e]
      /\ Len(errs') = Capped(AddedInAll')
      /\ totalProcessed' + Uncounted' = Cardinality(handled')
  BY DEF AccountInv, Col!Entry, Capped

\* A new result is owed to the collector when it carries an error.
LEMMA AccountResult ==
  RunInv /\ HandledOnce /\ AccountInv /\ HandleResult => AccountInv'
<1> SUFFICES ASSUME RunInv, HandledOnce, AccountInv, HandleResult PROVE AccountInv'
  OBVIOUS
<1> DEFINE job == Head(outputCh)
<1>1. /\ hr = "recv" /\ hr' = IF job.outcome \in {"failed", "error"} THEN "collect" ELSE "count"
      /\ cur' = job /\ handled' = handled \cup {job}
      /\ UNCHANGED <<errs, totalProcessed, workerErrs, wh>> /\ UNCHANGED <<readerOwn, errCh>>
  BY DEF HandleResult, ResultsTo, ErrorOf, collectorVars
<1>2. job \notin handled
  BY HandledFresh DEF HandleResult, RunInv, Handled
<1> HIDE DEF job
<1>3. \A o : ResultErrors(o)' = IF job.outcome = o THEN ResultErrors(o) + 1 ELSE ResultErrors(o)
  BY <1>1, <1>2, ResultErrorsGrow
<1>4. \A o : ResultErrors(o) \in Nat
  BY ResultErrorsNumber
<1>5. \A o \in {"failed", "error"} : Owed(o) = 0 /\ Owed(o)' = IF job.outcome = o THEN 1 ELSE 0
  BY <1>1 DEF Owed
<1>6. Reported' = Reported /\ OwedWorker' = OwedWorker /\ OwedWorker \in Nat /\ workerErrs \in Nat
  BY <1>1, ReportedStays DEF readerOwn, OwedWorker, AccountInv
<1>7. AddedSame
  <2>1. Added'["ErrInvalidRecord"] = Added["ErrInvalidRecord"]
    BY <1>3, <1>4, <1>5, AddedIs
  <2>2. ResultErrors("error")' - Owed("error")' = ResultErrors("error") - Owed("error")
    BY <1>3, <1>4, <1>5
  <2>3. Added'["other"] = Added["other"]
    BY <1>1, <1>6, <2>2, AddedIs
  <2>4. Added'["ProcessingError"] = Added["ProcessingError"]
    BY <1>6, AddedIs
  <2> QED
    BY <2>1, <2>3, <2>4 DEF AddedSame, ErrKinds
<1>8. /\ \A e \in ErrKinds : Added'[e] \in Nat /\ Entries(e)' <= Added'[e]
      /\ Len(errs') = Capped(AddedInAll')
  BY <1>1, <1>7, AccountKeeps
<1>9. totalProcessed' + Uncounted' = Cardinality(handled')
  <2>1. Uncounted = 0 /\ Uncounted' = 1
    BY <1>1 DEF Uncounted
  <2>2. Cardinality(handled') = Cardinality(handled) + 1
    BY <1>1, <1>2, FS_AddElement DEF HandledOnce
  <2> QED
    BY <1>1, <2>1, <2>2 DEF AccountInv
<1>10. hr' = "collect" => cur'.outcome \in {"failed", "error"}
  BY <1>1
<1> QED
  BY <1>1, <1>6, <1>8, <1>9, <1>10, AccountNext DEF AccountInv

LEMMA AccountCollect ==
  RunInv /\ HandledOnce /\ AccountInv /\ CollectError => AccountInv'
<1> SUFFICES ASSUME RunInv, HandledOnce, AccountInv, CollectError PROVE AccountInv'
  OBVIOUS
<1>1. /\ hr = "collect" /\ hr' = "count" /\ Col!Add(ErrorOf[cur.outcome])
      /\ UNCHANGED <<cur, handled, workerErrs, wh>> /\ UNCHANGED <<readerOwn, errCh>>
  BY DEF CollectError, ResultsTo
<1>2. /\ cur.outcome \in {"failed", "error"}
      /\ cur.outcome = "failed" => ErrorOf[cur.outcome] = "ErrInvalidRecord"
      /\ cur.outcome = "error" => ErrorOf[cur.outcome] = "other"
  BY <1>1 DEF AccountInv, ErrorOf
<1>3. PICK err \in ErrKinds : err = ErrorOf[cur.outcome]
  BY <1>2 DEF ErrKinds
<1>4. \A o : ResultErrors(o)' = ResultErrors(o) /\ ResultErrors(o) \in Nat
  BY <1>1, ResultErrorsStay, ResultErrorsNumber
<1>5. \A o : Owed(o)' = 0 /\ Owed(o) = IF cur.outcome = o THEN 1 ELSE 0
  BY <1>1 DEF Owed
<1>6. Reported' = Reported /\ OwedWorker' = OwedWorker /\ OwedWorker \in Nat /\ workerErrs \in Nat
  BY <1>1, ReportedStays DEF readerOwn, OwedWorker, AccountInv
<1>7. AddedMore(err)
  <2>1. Added'["ErrInvalidRecord"] =
          IF cur.outcome = "failed" THEN Added["ErrInvalidRecord"] + 1 ELSE Added["ErrInvalidRecord"]
    BY <1>4, <1>5, AddedIs
  <2>2. ResultErrors("error")' - Owed("error")' =
          IF cur.outcome = "error" THEN ResultErrors("error") - Owed("error") + 1
                                   ELSE ResultErrors("error") - Owed("error")
    BY <1>4, <1>5
  <2>3. ResultErrors("error") - Owed("error") \in Int
    BY <1>4, <1>5
  <2>4. Added'["other"] = IF cur.outcome = "error" THEN Added["other"] + 1 ELSE Added["other"]
    BY <1>1, <1>6, <2>2, <2>3, AddedIs
  <2>5. Added'["ProcessingError"] = Added["ProcessingError"]
    BY <1>6, AddedIs
  <2> QED
    BY <1>2, <1>3, <2>1, <2>4, <2>5 DEF AddedMore, ErrKinds
<1>8. /\ errs' \in Seq(Col!Entry) /\ UNCHANGED totalProcessed
      /\ \A e \in ErrKinds : Added'[e] \in Nat /\ Entries(e)' <= Added'[e]
      /\ Len(errs') = Capped(AddedInAll')
  BY <1>1, <1>3, <1>7, AccountAdds
<1>9. Uncounted' = Uncounted
  BY <1>1 DEF Uncounted
<1> QED
  BY <1>1, <1>6, <1>8, <1>9, AccountNext DEF AccountInv

LEMMA AccountCount ==
  RunInv /\ HandledOnce /\ AccountInv /\ CountProcessed => AccountInv'
<1> SUFFICES ASSUME RunInv, HandledOnce, AccountInv, CountProcessed PROVE AccountInv'
  OBVIOUS
<1>1. /\ hr = "count" /\ hr' = "check" /\ totalProcessed' = totalProcessed + 1
      /\ UNCHANGED <<errs, cur, handled, workerErrs, wh>> /\ UNCHANGED <<readerOwn, errCh>>
  BY DEF CountProcessed, ResultsTo, Col!IncrementProcessed
<1>2. \A o : ResultErrors(o)' = ResultErrors(o) /\ Owed(o)' = Owed(o)
  BY <1>1, ResultErrorsStay DEF Owed
<1>3. Reported' = Reported /\ OwedWorker' = OwedWorker
  BY <1>1, ReportedStays DEF readerOwn, OwedWorker
<1>4. AddedSame
  BY <1>1, <1>2, <1>3, AddedIs DEF AddedSame, ErrKinds
<1>5. /\ \A e \in ErrKinds : Added'[e] \in Nat /\ Entries(e)' <= Added'[e]
      /\ Len(errs') = Capped(AddedInAll')
  BY <1>1, <1>4, AccountKeeps
<1>6. Uncounted = 1 /\ Uncounted' = 0
  BY <1>1 DEF Uncounted
<1>7. totalProcessed' \in Nat /\ totalProcessed' + Uncounted' = Cardinality(handled')
  BY <1>1, <1>6 DEF AccountInv
<1> QED
  BY <1>1, <1>3, <1>5, <1>7, AccountNext DEF AccountInv

LEMMA AccountReader ==
  RunInv /\ HandledOnce /\ AccountInv /\ HandleReaderError => AccountInv'
<1> SUFFICES ASSUME RunInv, HandledOnce, AccountInv, HandleReaderError PROVE AccountInv'
  OBVIOUS
<1>1. /\ errCh # <<>> /\ errCh' = Tail(errCh) /\ Col!Add("ProcessingError")
      /\ UNCHANGED <<hr, cur, handled, workerErrs, wh>> /\ UNCHANGED readerOwn
  BY DEF HandleReaderError, InErrorHandler
<1>2. ReaderTypes /\ ReaderP!ErrorsMatch
  BY ReaderTyped DEF RunInv, ReaderInv, ReaderP!ErrorsInv
<1>3. Reported' = Reported \cup {Head(errCh)} /\ Head(errCh) \notin Reported
  BY <1>1, <1>2, ReportedReceives DEF readerOwn
<1>4. IsFiniteSet(Reported') /\ Cardinality(Reported') = Cardinality(Reported) + 1
  BY <1>3, FS_AddElement DEF AccountInv
<1>5. \A o : ResultErrors(o)' = ResultErrors(o) /\ Owed(o)' = Owed(o)
  BY <1>1, ResultErrorsStay DEF Owed
<1>6. OwedWorker' = OwedWorker /\ Uncounted' = Uncounted
  BY <1>1 DEF OwedWorker, Uncounted
<1>7. AddedMore("ProcessingError")
  BY <1>1, <1>4, <1>5, <1>6, AddedIs DEF AddedMore, ErrKinds
<1>8. "ProcessingError" \in ErrKinds
  BY DEF ErrKinds
<1>9. /\ errs' \in Seq(Col!Entry) /\ UNCHANGED totalProcessed
      /\ \A e \in ErrKinds : Added'[e] \in Nat /\ Entries(e)' <= Added'[e]
      /\ Len(errs') = Capped(AddedInAll')
  BY <1>1, <1>7, <1>8, AccountAdds
<1> QED
  BY <1>1, <1>4, <1>6, <1>9, AccountNext DEF AccountInv

\* A worker error that is received is owed to the collector until it is added.
LEMMA AccountWorker ==
  RunInv /\ HandledOnce /\ AccountInv /\ HandleWorkerError => AccountInv'
<1> SUFFICES ASSUME RunInv, HandledOnce, AccountInv, HandleWorkerError PROVE AccountInv'
  OBVIOUS
<1>1. /\ wh = "recv" /\ wh' = "add" /\ workerErrs' = workerErrs + 1
      /\ UNCHANGED <<hr, cur, handled, errs, totalProcessed>> /\ UNCHANGED <<readerOwn, errCh>>
  BY DEF HandleWorkerError, InErrorHandler, collectorVars
<1>2. \A o : ResultErrors(o)' = ResultErrors(o) /\ Owed(o)' = Owed(o)
  BY <1>1, ResultErrorsStay DEF Owed
<1>3. \A o : ResultErrors(o) \in Nat /\ Owed(o) \in Nat
  BY ResultErrorsNumber DEF Owed
<1>4. OwedWorker = 0 /\ OwedWorker' = 1 /\ Uncounted' = Uncounted /\ Reported' = Reported
  BY <1>1, ReportedStays DEF OwedWorker, Uncounted, readerOwn
<1>5. AddedSame
  <2>1. Added'["other"] = Added["other"]
    BY <1>1, <1>2, <1>3, <1>4, AddedIs DEF AccountInv
  <2>2. /\ Added'["ProcessingError"] = Added["ProcessingError"]
        /\ Added'["ErrInvalidRecord"] = Added["ErrInvalidRecord"]
    BY <1>2, <1>4, AddedIs
  <2> QED
    BY <2>1, <2>2 DEF AddedSame, ErrKinds
<1>6. /\ \A e \in ErrKinds : Added'[e] \in Nat /\ Entries(e)' <= Added'[e]
      /\ Len(errs') = Capped(AddedInAll')
  BY <1>1, <1>5, AccountKeeps
<1>7. workerErrs' \in Nat
  BY <1>1 DEF AccountInv
<1> QED
  BY <1>1, <1>4, <1>6, <1>7, AccountNext DEF AccountInv

LEMMA AccountWorkerAdds ==
  RunInv /\ HandledOnce /\ AccountInv /\ AddWorkerError => AccountInv'
<1> SUFFICES ASSUME RunInv, HandledOnce, AccountInv, AddWorkerError PROVE AccountInv'
  OBVIOUS
<1>1. /\ wh = "add" /\ wh' = "recv" /\ Col!Add(ErrorOf["error"])
      /\ UNCHANGED <<hr, cur, handled, workerErrs>> /\ UNCHANGED <<readerOwn, errCh>>
  BY DEF AddWorkerError, InErrorHandler
<1>2. \A o : ResultErrors(o)' = ResultErrors(o) /\ Owed(o)' = Owed(o)
  BY <1>1, ResultErrorsStay DEF Owed
<1>3. \A o : ResultErrors(o) \in Nat /\ Owed(o) \in Nat
  BY ResultErrorsNumber DEF Owed
<1>4. OwedWorker = 1 /\ OwedWorker' = 0 /\ Uncounted' = Uncounted /\ Reported' = Reported
  BY <1>1, ReportedStays DEF OwedWorker, Uncounted, readerOwn
<1>5. "other" \in ErrKinds /\ ErrorOf["error"] = "other"
  BY DEF ErrKinds, ErrorOf
<1>6. AddedMore("other")
  <2>1. Added'["other"] = Added["other"] + 1
    <3>1. workerErrs \in Nat /\ workerErrs' = workerErrs
      BY <1>1 DEF AccountInv
    <3>2. /\ ResultErrors("error")' - Owed("error")' = ResultErrors("error") - Owed("error")
          /\ ResultErrors("error") - Owed("error") \in Int
      BY <1>2, <1>3
    <3> QED
      BY <3>1, <3>2, <1>4, AddedIs
  <2>2. /\ Added'["ProcessingError"] = Added["ProcessingError"]
        /\ Added'["ErrInvalidRecord"] = Added["ErrInvalidRecord"]
    BY <1>2, <1>4, AddedIs
  <2> QED
    BY <2>1, <2>2 DEF AddedMore, ErrKinds
<1>7. /\ errs' \in Seq(Col!Entry) /\ UNCHANGED totalProcessed
      /\ \A e \in ErrKinds : Added'[e] \in Nat /\ Entries(e)' <= Added'[e]
      /\ Len(errs') = Capped(AddedInAll')
  BY <1>1, <1>5, <1>6, AccountAdds
<1> QED
  BY <1>1, <1>4, <1>7, AccountNext DEF AccountInv

LEMMA AccountStep == RunInv /\ HandledOnce /\ AccountInv /\ [Next]_vars => AccountInv'
  BY AccountFrame, AccountRestsStep, AccountResult, AccountCollect, AccountCount, AccountReader,
     AccountWorker, AccountWorkerAdds

\* When Run has returned nothing is owed any more.
LEMMA ReturnedAccounts == RunInv /\ HandledOnce /\ AccountInv => ErrorsAccounted
<1> SUFFICES ASSUME RunInv, HandledOnce, AccountInv, Returned
             PROVE  /\ \A err \in ErrKinds : Cardinality({i \in DOMAIN errs : errs[i].err = err}) <= Added[err]
                    /\ Len(errs) = Capped(AddedInAll)
                    /\ totalProcessed = Cardinality(handled)
                    /\ Added = [ProcessingError  |-> Cardinality(Reported),
                                ErrInvalidRecord |-> ResultErrors("failed"),
                                other            |-> ResultErrors("error") + workerErrs]
  BY DEF ErrorsAccounted, ErrKinds, Capped, AddedInAll
<1>1. hr = "done" /\ wh = "done"
  BY DEF RunInv, HandlersInv
<1>2. Uncounted = 0 /\ OwedWorker = 0 /\ \A o : Owed(o) = 0
  BY <1>1 DEF Uncounted, OwedWorker, Owed
<1>3. \A o : ResultErrors(o) \in Nat
  BY ResultErrorsNumber
<1>4. /\ ResultErrors("failed") - Owed("failed") = ResultErrors("failed")
      /\ ResultErrors("error") - Owed("error") + workerErrs - OwedWorker
           = ResultErrors("error") + workerErrs
  BY <1>2, <1>3 DEF AccountInv
<1>5. \A err \in ErrKinds : {i \in DOMAIN errs : errs[i].err = err} = Places(errs, OfErr(err))
  <2>1. errs \in Seq(Col!Entry)
    BY DEF AccountInv
  <2>2. \A i \in DOMAIN errs : errs[i] \in Col!Entry
    BY <2>1, ElementOfSeq, LenProperties
  <2> QED
    BY <2>2 DEF Places, OfErr
<1>6. Added = [ProcessingError  |-> Cardinality(Reported),
               ErrInvalidRecord |-> ResultErrors("failed"),
               other            |-> ResultErrors("error") + workerErrs]
  BY <1>4 DEF Added
<1>7. \A err \in ErrKinds : Cardinality({i \in DOMAIN errs : errs[i].err = err}) <= Added[err]
  BY <1>5 DEF AccountInv, Entries
<1>8. Len(errs) = Capped(AddedInAll)
  BY DEF AccountInv
<1>9. totalProcessed = Cardinality(handled)
  BY <1>2 DEF AccountInv
<1> QED
  BY <1>6, <1>7, <1>8, <1>9

\* When Run returns the collector has counted every result, and its entries are the
\* errors of the failed results, the worker errors received and the reader errors,
\* each of these once, up to MaxErrors entries (pipeline.go 149-228, collector.go).
THEOREM AccountsCorrect == Safety => []ErrorsAccounted
<1>1. Init => RunInv /\ HandledOnce /\ AccountInv
  BY RunInvInit, HandledOnceInit, AccountInit
<1>2. RunInv /\ HandledOnce /\ AccountInv /\ [Next]_vars => (RunInv /\ HandledOnce /\ AccountInv)'
  BY RunInvStep, HandledOnceStep, AccountStep DEF RunInv
<1> QED
  BY <1>1, <1>2, ReturnedAccounts, PTL DEF Safety

-----------------------------------------------------------------------------
(* The types.                                                              *)

ControlInv ==
    /\ runErr \in BOOLEAN /\ colCtx \in BOOLEAN
    /\ runPc \in {"init", "armed", "reading", "stored", "starting", "waiting", "returned"}
    /\ hr \in {"none", "recv", "collect", "count", "check", "done"}
    /\ rh \in {"none", "recv", "done"} /\ wh \in {"none", "recv", "add", "done"}
    /\ caller \in {"idle", "cancelled", "stopping", "returned"}

LEMMA AddTyped ==
  ASSUME NEW err, colCtx \in BOOLEAN, Col!Add(err)
  PROVE  colCtx' \in BOOLEAN
<1>1. CASE UNCHANGED Col!colVars
  BY <1>1 DEF Col!colVars
<1>2. CASE Col!Judge
  BY Zenon, <1>2 DEF Col!Judge
<1> QED
  BY <1>1, <1>2 DEF Col!Add

LEMMA ControlStep == ControlInv /\ [Next]_vars => ControlInv'
<1> SUFFICES ASSUME ControlInv, [Next]_vars PROVE ControlInv'
  OBVIOUS
<1>1. CASE ComponentStep \/ UNCHANGED vars
  BY <1>1, ComponentFrame DEF ControlInv, collectorVars, handlerVars, runVars
<1>2. CASE SetupSignalHandling \/ StartReading \/ StorePool \/ StartPool \/ StartHandlers
  BY <1>2 DEF SetupSignalHandling, StartReading, StorePool, StartPool, StartHandlers, RunTo,
     collectorVars, ControlInv
<1>3. CASE Finish
  <2>1. runErr' \in BOOLEAN
    BY Zenon, <1>3 DEF Finish, ReturnAfter
  <2>2. runPc' = "returned" /\ UNCHANGED <<collectorVars, handlerVars, caller>>
    BY <1>3 DEF Finish, ReturnAfter
  <2> QED
    BY <2>1, <2>2 DEF collectorVars, handlerVars, ControlInv
<1>4. CASE ResultsStep
  <2>1. hr' \in {"recv", "collect", "count", "check", "done"} /\ UNCHANGED <<rh, wh, runVars>>
    BY <1>4 DEF ResultsStep, HandleResult, ResultsClosed, CollectError, CountProcessed, AbortRun,
       WriteResult, WriteIf, ResultsTo
  <2>2. CASE CollectError
    BY <2>1, <2>2, AddTyped DEF CollectError, ControlInv, runVars
  <2>3. CASE ~CollectError
    BY <1>4, <2>1, <2>3 DEF ResultsStep, HandleResult, ResultsClosed, CountProcessed, AbortRun,
       WriteResult, WriteIf, ResultsTo, Col!IncrementProcessed, collectorVars, runVars, ControlInv
  <2> QED
    BY <2>2, <2>3
<1>5. CASE ReaderErrorsStep \/ WorkerErrorsStep
  <2>1. /\ UNCHANGED <<hr, runVars>> /\ rh' \in {rh, "done"} /\ wh' \in {wh, "recv", "add", "done"}
    BY <1>5 DEF ReaderErrorsStep, HandleReaderError, ReaderErrorsClosed, WorkerErrorsStep,
       HandleWorkerError, AddWorkerError, WorkerErrorsClosed, InErrorHandler
  <2>2. colCtx' \in BOOLEAN
    BY <1>5, AddTyped DEF ReaderErrorsStep, HandleReaderError, ReaderErrorsClosed, WorkerErrorsStep,
       HandleWorkerError, AddWorkerError, WorkerErrorsClosed, collectorVars, ControlInv
  <2> QED
    BY <2>1, <2>2 DEF runVars, ControlInv
<1>6. CASE CallerStep \/ StopCancel
  BY <1>6 DEF CallerStep, StopPool, StopDone, StopCancel, collectorVars, handlerVars, ControlInv
<1> QED
  BY <1>1, <1>2, <1>3, <1>4, <1>5, <1>6 DEF Next, OwnStep, RunStep, ComponentStep, Terminated

LEMMA ReaderTypesAgree == ReaderP!TypeOK => Reader!TypeOK
  BY SameCardinality DEF ReaderP!TypeOK, Reader!TypeOK, ReaderP!Kinds, Reader!Kinds

LEMMA PoolTypesAgree == PoolP!TypeOK => Pool!TypeOK
  BY SameJob DEF PoolP!TypeOK, Pool!TypeOK

LEMMA CappedFits == ASSUME NEW n \in Nat, MaxErrors > 0 PROVE Capped(n) <= MaxErrors
  BY PipelineAssumption DEF Capped

LEMMA TypesFollow ==
  RunInv /\ HandledOnce /\ AnsweredInv /\ SummaryInv /\ WrittenInv /\ AccountInv /\ ControlInv => TypeOK
<1> SUFFICES ASSUME RunInv, WrittenInv, SummaryInv, AccountInv, ControlInv PROVE TypeOK
  OBVIOUS
<1>1. Reader!TypeOK /\ Pool!TypeOK
  BY ReaderTypesAgree, PoolTypesAgree DEF RunInv, ReaderInv, PoolInv, ReaderP!TypeInv, PoolP!TypeInv
<1>2. Col!TypeOK
  <2>1. AddedInAll \in Nat
    BY DEF AddedInAll, AccountInv, ErrKinds
  <2>2. MaxErrors > 0 => Len(errs) <= MaxErrors
    BY <2>1, CappedFits DEF AccountInv
  <2> QED
    BY <2>2 DEF Col!TypeOK, AccountInv, ControlInv
<1>3. ctxDone \in BOOLEAN
  BY <1>1 DEF Reader!TypeOK
<1>4. handled \subseteq Pool!Job /\ cur \in Pool!Job \cup {NoResult}
  BY DEF RunInv, HandlersInv
<1>5. written \subseteq AllRecords
  BY <1>4 DEF WrittenInv, Pool!Job
<1> QED
  BY <1>1, <1>2, <1>3, <1>4, <1>5 DEF TypeOK, ControlInv, SummaryInv, Statuses, AccountInv

\* Every variable of the pipeline keeps its range: no channel grows past its capacity,
\* the collector holds no more than MaxErrors entries, and what is handled, written or in
\* hand is about a row that a file may have.
THEOREM PipelineTypeCorrect == Safety => []TypeOK
<1> DEFINE Inv == RunInv /\ HandledOnce /\ AnsweredInv /\ SummaryInv /\ WrittenInv /\ AccountInv
                  /\ ControlInv
<1>1. Init => Inv
  <2>1. Init => ControlInv
    BY DEF Init, ControlInv, Col!Init
  <2> QED
    BY <2>1, RunInvInit, HandledOnceInit, AnsweredInit, SummaryInit, WrittenInit, AccountInit
<1>2. Inv /\ [Next]_vars => Inv'
  <2> SUFFICES ASSUME Inv, [Next]_vars PROVE Inv'
    OBVIOUS
  <2>1. RunInv' /\ AnsweredInv' /\ HandledOnce'
    BY RunInvStep, AnsweredStep, HandledOnceStep DEF RunInv
  <2>2. AccountInv' /\ ControlInv'
    BY AccountStep, ControlStep
  <2> QED
    BY <2>1, <2>2, SummaryStep, WrittenStep
<1>3. Inv => TypeOK
  BY TypesFollow
<1> QED
  BY <1>1, <1>2, <1>3, PTL DEF Safety

-----------------------------------------------------------------------------
(* The run as a ledger of its rows.                                        *)

Fate(r) ==
    IF r \in Handled THEN "handled" ELSE IF r \in dropped THEN "lost"
    ELSE IF r \in Supplied THEN "held" ELSE "unread"
Fates == [r \in DataRows |-> Fate(r)]

LEMMA FateIs == PoolInv => \A r : FateOf(r) = Fate(r)
<1> SUFFICES ASSUME PoolInv, NEW r PROVE FateOf(r) = Fate(r)
  OBVIOUS
<1> DEFINE Inside == Pool!InInput \cup Pool!InHand \cup Pool!InOutput
<1>1. /\ Pool!InInput = PoolP!InInput /\ Pool!InOutput = PoolP!InOutput
      /\ Pool!InHand = PoolP!InHand
  BY DEF Pool!InInput, PoolP!InInput, Pool!InOutput, PoolP!InOutput, Pool!InHand, PoolP!InHand,
     Pool!Busy, PoolP!Busy
<1>2. /\ Inside \cap Handled = {} /\ Inside \cap dropped = {} /\ Handled \cap dropped = {}
      /\ Supplied = Inside \cup Handled \cup dropped
  BY <1>1 DEF PoolInv, PoolP!ExactlyOnce, PoolP!Disjoint, PoolP!Located
<1>3. FateOf(r) = CASE r \in Handled -> "handled" [] r \in dropped -> "lost"
                    [] r \in Inside -> "held" [] OTHER -> "unread"
  BY DEF FateOf
<1> HIDE DEF Inside
<1> QED
  BY <1>2, <1>3 DEF Fate

LEMMA FatesAre ==
  ASSUME PoolInv, PoolInv'
  PROVE  /\ [r \in DataRows |-> FateOf(r)] = Fates
         /\ [r \in DataRows |-> FateOf(r)]' = Fates'
<1>1. \A r : FateOf(r) = Fate(r)
  BY FateIs
<1>2. (\A r : FateOf(r) = Fate(r))'
  BY FateIs, PTL
<1>3. [r \in DataRows |-> FateOf(r)] = Fates
  BY <1>1 DEF Fates
<1>4. [r \in DataRows |-> FateOf(r)]' = Fates'
  BY <1>2 DEF Fates
<1> QED
  BY <1>3, <1>4

\* What a step does to the fates, by what it does to the sets they come from.
LEMMA FatesStay ==
  ASSUME Supplied' = Supplied, Handled' = Handled, dropped' = dropped
  PROVE  Fates' = Fates
<1>1. \A r : Fate(r)' = Fate(r)
  BY DEF Fate
<1> QED
  BY <1>1 DEF Fates, DataRows, FirstLine

LEMMA FatesChange ==
  ASSUME NEW r \in DataRows, NEW to,
         \A q : q # r => (q \in Supplied' <=> q \in Supplied) /\ (q \in Handled' <=> q \in Handled)
                         /\ (q \in dropped' <=> q \in dropped),
         Fate(r)' = to
  PROVE  Fates' = [Fates EXCEPT ![r] = to]
<1>1. \A q : q # r => Fate(q)' = Fate(q)
  BY DEF Fate
<1>2. Fates' = [q \in DataRows |-> IF q = r THEN to ELSE Fate(q)]
  BY <1>1 DEF Fates, DataRows, FirstLine
<1> QED
  BY <1>2 DEF Fates

LEMMA SuppliedRows == RunInv => Supplied \subseteq DataRows
<1> SUFFICES ASSUME RunInv, NEW r \in Supplied PROVE r \in DataRows
  OBVIOUS
<1>1. r \in AllRecords
  BY DEF RunInv, PoolInv, PoolP!TypeInv, PoolP!TypeOK
<1>2. PICK f \in Files : \E n \in Lines(f) : r = <<f, n>>
  BY SuppliedAre
<1>3. PICK n \in Lines(f) : r = <<f, n>>
  BY <1>2
<1>4. n \in 1 .. MaxRows
  BY <1>1, <1>3 DEF AllRecords
<1>5. n >= FirstLine
  BY <1>3 DEF Lines
<1>6. n \in FirstLine .. MaxRows
  BY <1>4, <1>5, FirstLineIs, PipelineAssumption
<1> QED
  BY <1>3, <1>6 DEF DataRows

\* Only three steps move a row: a goroutine sends it, its result is handled, or a worker
\* gives it up.
LEMMA FateFrame ==
  ASSUME RunInv, [Next]_vars
  PROVE  \/ Supplied' = Supplied /\ Handled' = Handled /\ dropped' = dropped
         \/ \E f \in Files : ReaderStep(f) /\ ReaderP!SendRecord(f)
         \/ HandleResult
         \/ \E w \in Workers : WorkerStep(w) /\ PoolP!WorkerDrop(w)
<1>1. ASSUME UNCHANGED <<sent, handled, dropped>>
      PROVE  Supplied' = Supplied /\ Handled' = Handled /\ dropped' = dropped
  BY <1>1, SuppliedStays, HandledStays
<1>2. ASSUME NEW f \in Files, ReaderStep(f), ~ReaderP!SendRecord(f)
      PROVE  UNCHANGED <<sent, handled, dropped>>
  <2>1. ReaderP!FileStep(f) /\ UNCHANGED <<handled, dropped>>
    BY <1>2, SameFileStep DEF ReaderStep, handlerVars, poolOwn
  <2>2. UNCHANGED sent
    BY <1>2, <2>1 DEF ReaderP!FileStep, ReaderP!OpenFile, ReaderP!ReadHeader, ReaderP!LoopCanceled,
       ReaderP!EndOfFile, ReaderP!ReadRow, ReaderP!SendCanceled, ReaderP!CheckHeader,
       ReaderP!CompareHeader, ReaderP!ReportError, ReaderP!PutError, ReaderP!Local
  <2> QED
    BY <2>1, <2>2
<1>3. ASSUME NEW w \in Workers, WorkerStep(w), ~PoolP!WorkerDrop(w)
      PROVE  UNCHANGED <<sent, handled, dropped>>
  <2>1. (PoolP!AddWorker(w) \/ PoolP!WorkerStep(w)) /\ UNCHANGED <<sent, handled>>
    BY <1>3, SamePoolStep DEF WorkerStep, handlerVars, readerOwn
  <2> QED
    BY <1>3, <2>1 DEF PoolP!AddWorker, PoolP!WorkerStep, PoolP!WorkerStop, PoolP!WorkerInputClosed,
       PoolP!InputEnds, PoolP!WorkerReceive, PoolP!WorkerProcess, PoolP!Answer, PoolP!WorkerSend,
       PoolP!PutResult
<1>4. CASE ReaderCloserStep
  BY <1>1, <1>4, SameCloserStep DEF ReaderCloserStep, ReaderP!CloserStep, ReaderP!CloseRecords,
     ReaderP!CloseAfter, ReaderP!CloseErrs, ReaderP!fileVars, handlerVars, poolOwn
<1>5. CASE StartReading
  BY <1>1, <1>5, SameRead DEF StartReading, RunTo, ReaderP!Read, poolOwn
<1>6. CASE StartPool \/ PoolRunStep \/ CallerStep
  <2>1. /\ UNCHANGED <<readerOwn, handled>>
        /\ \/ UNCHANGED poolOwn
           \/ PoolP!BeginStart \/ PoolP!FinishStart \/ PoolP!CloserStep \/ PoolP!Stop \/ PoolP!WaitReturns
    BY <1>6, SamePoolStep DEF StartPool, RunTo, PoolRunStep, CallerStep, StopPool, StopDone, handlerVars
  <2>2. UNCHANGED <<sent, handled, dropped>>
    BY <2>1 DEF readerOwn, poolOwn, PoolP!BeginStart, PoolP!FinishStart, PoolP!CloserStep,
       PoolP!CloseOutput, PoolP!CloseResults, PoolP!CloseErrors, PoolP!Stop, PoolP!WaitReturns,
       PoolP!workerVars
  <2> QED
    BY <1>1, <2>2
<1>7. CASE \/ SetupSignalHandling \/ StorePool \/ StartHandlers \/ Finish \/ Signal \/ StopCancel
           \/ ResultsStep /\ ~HandleResult
           \/ ReaderErrorsStep \/ WorkerErrorsStep \/ UNCHANGED vars
  <2>1. UNCHANGED <<readerOwn, poolOwn, handled>>
    BY <1>7 DEF SetupSignalHandling, StorePool, StartHandlers, Finish, ReturnAfter, RunTo, Signal,
       SignalArrives, StopCancel, ResultsStep, ResultsClosed, CollectError, CountProcessed, AbortRun,
       WriteResult, WriteIf, ResultsTo, ReaderErrorsStep, HandleReaderError, ReaderErrorsClosed,
       WorkerErrorsStep, HandleWorkerError, AddWorkerError, WorkerErrorsClosed, InErrorHandler,
       handlerVars, vars
  <2> QED
    BY <1>1, <2>1 DEF readerOwn, poolOwn
<1> QED
  BY <1>1, <1>2, <1>3, <1>4, <1>5, <1>6, <1>7 DEF Next, OwnStep, RunStep, ResultsStep, Terminated

FlagsRest == /\ Returned' <=> Returned
             /\ Aborted' <=> Aborted
             /\ (caller' = "idle") <=> (caller = "idle")

\* Only a call of Stop, an abort and the return of Run are more than that.
LEMMA FlagsFrame ==
  ASSUME RunInv, [Next]_vars
  PROVE  FlagsRest \/ StopCancel \/ AbortRun \/ Finish
<1>1. CASE ComponentStep \/ UNCHANGED vars
  BY <1>1, ComponentFrame DEF FlagsRest, Returned, Aborted, handlerVars, runVars
<1>2. CASE SetupSignalHandling \/ StartReading \/ StorePool \/ StartPool \/ StartHandlers
  BY <1>2 DEF SetupSignalHandling, StartReading, StorePool, StartPool, StartHandlers, RunTo,
     FlagsRest, Returned, Aborted, RunInv, HandlersInv
<1>3. CASE ResultsStep /\ ~AbortRun
  <2>1. UNCHANGED runVars /\ hr # "done"
    BY <1>3 DEF ResultsStep, HandleResult, ResultsClosed, CollectError, CountProcessed, WriteResult,
       WriteIf, ResultsTo
  <2>2. hr' = "done" => cur' = NoResult
    BY <1>3 DEF ResultsStep, HandleResult, ResultsClosed, CollectError, CountProcessed, WriteResult,
       WriteIf, ResultsTo, RunInv, HandlersInv
  <2> QED
    BY <2>1, <2>2 DEF FlagsRest, Returned, Aborted, runVars
<1>4. CASE ReaderErrorsStep \/ WorkerErrorsStep
  BY <1>4 DEF ReaderErrorsStep, HandleReaderError, ReaderErrorsClosed, WorkerErrorsStep,
     HandleWorkerError, AddWorkerError, WorkerErrorsClosed, InErrorHandler, runVars, FlagsRest,
     Returned, Aborted
<1>5. CASE CallerStep
  BY <1>5 DEF CallerStep, StopPool, StopDone, handlerVars, FlagsRest, Returned, Aborted
<1> QED
  BY <1>1, <1>2, <1>3, <1>4, <1>5 DEF Next, OwnStep, RunStep, ComponentStep, Terminated

LedgerMay == [Promise!Next]_(Promise!vars)

\* A step that moves one row is a step of the ledger's.
LEMMA LedgerMoves ==
  ASSUME RunInv, RunInv', FlagsRest, NEW r \in DataRows, NEW from, NEW to,
         Fate(r) = from, Fates' = [Fates EXCEPT ![r] = to], ~Returned
  PROVE  Promise!Becomes(r, from, to)
<1>1. [q \in DataRows |-> FateOf(q)] = Fates /\ [q \in DataRows |-> FateOf(q)]' = Fates'
  BY FatesAre DEF RunInv
<1>2. Fates[r] = from
  BY DEF Fates
<1>3. UNCHANGED <<caller # "idle", Aborted, Returned>>
  BY DEF FlagsRest, Returned, Aborted
<1> QED
  BY <1>1, <1>2, <1>3 DEF Promise!Becomes

LEMMA LedgerRests ==
  ASSUME RunInv, RunInv', FlagsRest,
         Supplied' = Supplied, Handled' = Handled, dropped' = dropped
  PROVE  UNCHANGED Promise!vars
<1>1. [q \in DataRows |-> FateOf(q)]' = [q \in DataRows |-> FateOf(q)]
  BY FatesAre, FatesStay DEF RunInv
<1>2. UNCHANGED <<caller # "idle", Aborted, Returned>>
  BY DEF FlagsRest, Returned, Aborted
<1> QED
  BY <1>1, <1>2 DEF Promise!vars

\* The record that a goroutine sends is the first unread row of its file.
LEMMA LedgerAccept ==
  ASSUME RunInv, RunInv', FlagsRest, NEW f \in Files, ReaderStep(f), ReaderP!SendRecord(f)
  PROVE  LedgerMay
<1>t. ReaderTypes
  BY ReaderTyped DEF RunInv, ReaderInv
<1>1. /\ rpc[f] = "send" /\ sent' = [sent EXCEPT ![f] = @ + 1]
      /\ UNCHANGED <<handled, dropped>>
  BY DEF ReaderP!SendRecord, ReaderP!PutRecord, ReaderStep, handlerVars, poolOwn
<1>2. line[f] = FirstLine + sent[f] /\ sent[f] \in Nat
  BY <1>t, <1>1, FirstLineIs DEF RunInv, ReaderInv, ReaderP!TypeInv, ReaderP!LinesMatch, ReaderTypes
<1>r. PICK r : r = <<f, line[f]>>
  OBVIOUS
<1>3. Supplied' = Supplied \cup {r} /\ r \notin Supplied /\ Handled' = Handled
  BY <1>t, <1>1, <1>2, <1>r, SuppliedSends, HandledStays
<1>4. r \in DataRows
  <2>1. (RunInv => Supplied \subseteq DataRows)'
    BY SuppliedRows, PTL
  <2>2. DataRows' = DataRows
    BY DEF DataRows, FirstLine
  <2> QED
    BY <1>3, <2>1, <2>2
<1>5. Handled \subseteq Supplied /\ dropped \subseteq Supplied
  BY DEF RunInv, PoolInv, PoolP!ExactlyOnce, PoolP!Located
<1>6. Fate(r) = "unread" /\ Fate(r)' = "held"
  BY <1>1, <1>3, <1>5 DEF Fate
<1>7. Fates' = [Fates EXCEPT ![r] = "held"]
  BY <1>1, <1>3, <1>4, <1>6, FatesChange
<1>8. ~Returned
  BY <1>1, ReturnedEnds DEF NoGoroutineLeft
<1>9. Promise!Becomes(r, "unread", "held")
  BY <1>4, <1>6, <1>7, <1>8, LedgerMoves
<1>10. ASSUME NEW q \in DataRows, q[1] = r[1], FateOf(q) = "unread"
       PROVE  r[2] <= q[2]
  <2>1. Fate(q) = "unread"
    BY <1>10, FateIs DEF RunInv
  <2>2. q \notin Supplied
    BY <2>1 DEF Fate
  <2>3. q = <<f, q[2]>> /\ q[2] \in FirstLine .. MaxRows
    BY <1>10, <1>r DEF DataRows
  <2>4. q[2] \notin Lines(f)
    BY <2>2, <2>3, SuppliedAre
  <2>5. q[2] >= FirstLine + sent[f]
    BY <1>2, <2>3, <2>4, FirstLineIs, PipelineAssumption DEF Lines
  <2> QED
    BY <1>2, <1>r, <2>5
<1>11. Promise!Accept(r)
  BY <1>9, <1>10 DEF Promise!Accept
<1> QED
  BY <1>4, <1>11 DEF LedgerMay, Promise!Next

\* The result that handleResults receives is about a row that was held.
LEMMA LedgerHandle ==
  ASSUME RunInv, RunInv', FlagsRest, HandleResult
  PROVE  LedgerMay
<1>1. /\ hr = "recv" /\ outputCh # <<>> /\ handled' = handled \cup {Head(outputCh)}
      /\ UNCHANGED <<sent, dropped>>
  BY DEF HandleResult, ResultsTo, readerOwn, poolOwn
<1>r. PICK r : r = Head(outputCh).rec
  OBVIOUS
<1>2. r \in PoolP!InOutput
  <2>1. outputCh \in Seq(Pool!Job)
    BY SameJob DEF RunInv, PoolInv, PoolP!TypeInv, PoolP!TypeOK
  <2>2. Head(outputCh) = outputCh[1] /\ 1 \in 1 .. Len(outputCh)
    BY <1>1, <2>1, HeadTailProperties, LenProperties, EmptySeq
  <2> QED
    BY <1>r, <2>2 DEF PoolP!InOutput
<1>3. r \in Supplied /\ r \notin Handled /\ r \notin dropped
  BY <1>2 DEF RunInv, PoolInv, PoolP!ExactlyOnce, PoolP!Located, PoolP!Disjoint
<1>4. r \in DataRows
  BY <1>3, SuppliedRows
<1>5. Supplied' = Supplied /\ Handled' = Handled \cup {r}
  BY <1>1, <1>r, SuppliedStays, HandledReceives
<1>6. Fate(r) = "held" /\ Fate(r)' = "handled"
  BY <1>3, <1>5 DEF Fate
<1>7. Fates' = [Fates EXCEPT ![r] = "handled"]
  BY <1>1, <1>4, <1>5, <1>6, FatesChange
<1>8. ~Returned /\ ~Aborted
  BY <1>1 DEF RunInv, HandlersInv, Aborted
<1>9. Promise!Becomes(r, "held", "handled")
  BY <1>4, <1>6, <1>7, <1>8, LedgerMoves
<1> QED
  BY <1>4, <1>8, <1>9 DEF LedgerMay, Promise!Next, Promise!Handle

\* A worker gives a result up only once Stop has cancelled the pool.
LEMMA LedgerLose ==
  ASSUME RunInv, RunInv', FlagsRest, NEW w \in Workers, WorkerStep(w), PoolP!WorkerDrop(w)
  PROVE  LedgerMay
<1>1. /\ poolCtx /\ wpc[w] = "send" /\ dropped' = dropped \cup {held[w].rec}
      /\ UNCHANGED <<sent, handled>>
  BY DEF PoolP!WorkerDrop, PoolP!GiveUp, WorkerStep, readerOwn, handlerVars
<1>r. PICK r : r = held[w].rec
  OBVIOUS
<1>2. r \in PoolP!InHand
  <2>1. held[w] # NoJob
    BY <1>1, PoolAssumed DEF RunInv, PoolInv, PoolP!TypeInv, PoolP!HandsMatch, PoolP!NoJobAssumption
  <2> QED
    BY <1>r, <2>1 DEF PoolP!InHand, PoolP!Busy
<1>3. r \in Supplied /\ r \notin Handled /\ r \notin dropped
  BY <1>2 DEF RunInv, PoolInv, PoolP!ExactlyOnce, PoolP!Located, PoolP!Disjoint
<1>4. r \in DataRows
  BY <1>3, SuppliedRows
<1>5. Supplied' = Supplied /\ Handled' = Handled
  BY <1>1, SuppliedStays, HandledStays
<1>6. Fate(r) = "held" /\ Fate(r)' = "lost"
  BY <1>1, <1>r, <1>3, <1>5 DEF Fate
<1>7. Fates' = [Fates EXCEPT ![r] = "lost"]
  BY <1>1, <1>r, <1>4, <1>5, <1>6, FatesChange
<1>8. ~Returned
  BY <1>1, ReturnedEnds DEF NoGoroutineLeft
<1>9. caller # "idle"
  BY <1>1 DEF RunInv, HandlersInv
<1>10. Promise!Becomes(r, "held", "lost")
  BY <1>4, <1>6, <1>7, <1>8, LedgerMoves
<1> QED
  BY <1>4, <1>9, <1>10 DEF LedgerMay, Promise!Next, Promise!Lose

\* A call of Stop, an abort and the return of Run are the ledger's.
LEMMA LedgerFlags ==
  ASSUME RunInv, RunInv', StopCancel \/ AbortRun \/ Finish
  PROVE  LedgerMay
<1>1. Supplied' = Supplied /\ Handled' = Handled /\ dropped' = dropped
  BY SuppliedStays, HandledStays DEF StopCancel, AbortRun, ResultsTo, Finish, ReturnAfter, readerOwn,
     poolOwn, handlerVars
<1>2. [q \in DataRows |-> FateOf(q)] = Fates /\ [q \in DataRows |-> FateOf(q)]' = Fates'
      /\ Fates' = Fates
  BY <1>1, FatesAre, FatesStay DEF RunInv
<1>3. CASE StopCancel
  <2>1. /\ caller = "idle" /\ caller' = "cancelled"
        /\ Returned' <=> Returned
        /\ Aborted' <=> Aborted
    BY <1>3 DEF StopCancel, handlerVars, Returned, Aborted
  <2>2. Promise!Stop
    BY <1>2, <2>1 DEF Promise!Stop, Returned, Aborted
  <2> QED
    BY <2>2 DEF LedgerMay, Promise!Next
<1>4. CASE AbortRun
  <2>1. /\ hr = "check" /\ hr' = "done" /\ UNCHANGED <<cur, runVars>>
    BY <1>4 DEF AbortRun, ResultsTo
  <2>2. cur # NoResult
    BY <2>1, OutcomesAssumption DEF RunInv, HandlersInv, NoResult
  <2>3. /\ ~Aborted /\ Aborted' /\ ~Returned
        /\ Returned' <=> Returned
        /\ caller' = caller
    BY <2>1, <2>2 DEF Aborted, Returned, RunInv, HandlersInv, runVars, NoResult
  <2>4. Promise!Abort
    BY <1>2, <2>3 DEF Promise!Abort, Returned
  <2> QED
    BY <2>4 DEF LedgerMay, Promise!Next
<1>5. CASE Finish
  <2>1. runPc = "waiting" /\ runPc' = "returned" /\ UNCHANGED <<handlerVars, caller>>
    BY <1>5 DEF Finish, ReturnAfter
  <2>2. /\ ~Returned /\ Returned'
        /\ Aborted' <=> Aborted
    BY <2>1 DEF Returned, Aborted, handlerVars
  <2>3. ASSUME caller = "idle", ~Aborted PROVE \A r \in DataRows : Fates[r] # "held"
    <3>1. (RunInv /\ Returned /\ caller = "idle" /\ ~Aborted => Handled = Supplied)'
      BY AllHandled, PTL
    <3>2. Handled = Supplied
      BY <1>1, <2>1, <2>2, <2>3, <3>1
    <3> QED
      BY <3>2 DEF Fates, Fate
  <2>4. Promise!Return
    BY <1>2, <2>1, <2>2, <2>3 DEF Promise!Return, Aborted
  <2> QED
    BY <2>4 DEF LedgerMay, Promise!Next
<1> QED
  BY <1>3, <1>4, <1>5

LEMMA LedgerInit == Init => Promise!Init
<1> SUFFICES ASSUME Init PROVE Promise!Init
  OBVIOUS
<1>1. caller = "idle" /\ ~Aborted /\ ~Returned /\ handled = {} /\ dropped = {}
  BY DEF Init, Aborted, Returned, Pool!PoolInit
<1>2. Handled = {} /\ Supplied = {}
  <2>1. PoolP!Init
    BY InitMaps
  <2> QED
    BY <2>1 DEF PoolP!Init
<1>3. PoolInv
  BY PoolInvInit
<1>4. \A r : FateOf(r) = "unread"
  BY <1>1, <1>2, <1>3, FateIs DEF Fate
<1> QED
  BY <1>1, <1>4 DEF Promise!Init

\* Seen from outside a run is the ledger of its rows: no step takes a row back, passes
\* one by, handles one twice or loses one without a call of Stop, and Run returns with
\* rows still held only after a Stop or an abort (pipeline.go, pool.go, csv_reader.go).
THEOREM LedgerCorrect == Safety => LedgerImplemented
<1>1. RunInv /\ RunInv' /\ [Next]_vars => LedgerMay
  <2> SUFFICES ASSUME RunInv, RunInv', [Next]_vars PROVE LedgerMay
    OBVIOUS
  <2>1. CASE FlagsRest
    BY <2>1, FateFrame, LedgerRests, LedgerAccept, LedgerHandle, LedgerLose DEF LedgerMay
  <2>2. CASE ~FlagsRest
    BY <2>2, FlagsFrame, LedgerFlags
  <2> QED
    BY <2>1, <2>2
<1>2. RunInv /\ RunInv' /\ [Next]_vars => [Promise!Next]_(Promise!vars)
  BY <1>1 DEF LedgerMay
<1> QED
  BY <1>2, RunInvInit, RunInvStep, LedgerInit, PTL DEF Safety, LedgerImplemented, Promise!Safety
=============================================================================
