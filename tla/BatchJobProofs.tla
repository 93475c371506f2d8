---------------------------- MODULE BatchJobProofs ----------------------------
(***************************************************************************)
(* Proofs about the job of BatchJob.tla: one file of any length, read and  *)
(* then processed in order, under a context that may be cancelled at any   *)
(* time.  A step of the job is a step of the reader of CSVReader.tla or    *)
(* leaves it alone, so what CSVReaderProofs.tla knows of it holds here.    *)
(***************************************************************************)
EXTENDS BatchJob, CSVReaderProofs

Result == [rec : Record, outcome : Outcomes \cup {"canceled"}]

LEMMA OnlyFile == TheFile \in Files /\ Files = {TheFile}
<1>1. PICK f : Files = {f}
  BY OneFileAssumption, FilesAssumption, FS_Singleton
<1>2. TheFile \in Files
  BY <1>1 DEF TheFile
<1> QED
  BY <1>1, <1>2

----------------------------------------------------------------------------
(* The job drives the reader as its module allows.                         *)

ReaderInv == TypeInv /\ InOrder /\ ErrorsInv

LEMMA JobStepsRead == [JobNext]_jobAllVars => [Next]_vars
<1> SUFFICES ASSUME [JobNext]_jobAllVars PROVE [Next]_vars
  OBVIOUS
<1>1. CASE BeginRead
  BY <1>1 DEF BeginRead, Next, ReaderStep
<1>2. CASE CollectRecord \/ CollectError
  BY <1>2 DEF CollectRecord, CollectError, Next, EnvStep
<1>3. CASE SeeClosed \/ ReturnRecords \/ ReturnCanceled \/ BatchStep \/ StatsStep
  BY <1>3 DEF SeeClosed, ReturnRecords, ReturnAfter, ReturnCanceled, BatchStep, ProcessRecord, CancelBatch,
              FailFrom, ReturnResults, InBatch, StatsStep, LoadProcessed, LoadFailed, StatsReturned
<1>4. CASE FileReadStep
  BY <1>4, OnlyFile DEF FileReadStep, Next, ReaderStep
<1>5. CASE Cancel /\ OthersIdle
  BY <1>5 DEF Next, EnvStep
<1>6. CASE UNCHANGED jobAllVars
  BY <1>6 DEF jobAllVars
<1> QED
  BY <1>1, <1>2, <1>3, <1>4, <1>5, <1>6 DEF JobNext, ReadSingleStep

LEMMA ReaderInvInit == JobInit => ReaderInv
BY TypeInit, OrderInit, ErrorsInit DEF JobInit, ReaderInv

LEMMA ReaderInvStep == ReaderInv /\ [JobNext]_jobAllVars => ReaderInv'
BY JobStepsRead, TypeStep, OrderStep, ErrorsStep DEF ReaderInv

\* The job is the reader with a consumer of its own (csv_reader.go 203-240).
THEOREM JobIsReader == JobSafety => Safety
BY JobStepsRead, PTL DEF JobSafety, JobInit, Safety

----------------------------------------------------------------------------
(* ReadSingle.                                                             *)

JobPcs == {"idle", "collect", "batch", "done"}

\* The records collected are the first ones of the file, as many as were received, until
\* the context's error takes their place; a channel seen closed is closed and empty; and
\* no error collected means none received.
CollectInv ==
    /\ jobPc \in JobPcs /\ records \in Seq(Record) /\ errs \in Seq(Kinds)
    /\ errs = <<>> => reported = {}
    /\ jobPc \in {"idle", "collect"} => readErr = "nil"
    /\ IF readErr = "ctx" THEN records = <<>>
       ELSE /\ Len(records) = taken[TheFile]
            /\ \A i \in 1 .. Len(records) : records[i] = <<TheFile, FirstLine + i - 1>>
    /\ "records" \in closedSeen => recordClosed /\ recordCh = <<>>
    /\ "errors" \in closedSeen => errClosed /\ errCh = <<>>
    /\ jobPc \in {"batch", "done"} /\ readErr = "nil" =>
         errs = <<>> /\ {"records", "errors"} \subseteq closedSeen

LEMMA CollectInit == JobInit => CollectInv
<1> SUFFICES ASSUME JobInit PROVE CollectInv
  OBVIOUS
<1>1. records \in Seq(Record) /\ Len(records) = 0 /\ errs \in Seq(Kinds)
  BY EmptySeq DEF JobInit
<1>2. taken[TheFile] = 0
  BY OnlyFile DEF JobInit, Init
<1>3. \A i \in 1 .. Len(records) : FALSE
  BY <1>1
<1> QED
  BY <1>1, <1>2, <1>3 DEF JobInit, Init, CollectInv, JobPcs

\* The record at the head of the channel is the next one of the file.
LEMMA NextRecord ==
  ASSUME ReaderInv, recordCh # <<>>
  PROVE  Head(recordCh) = <<TheFile, FirstLine + taken[TheFile]>>
<1> DEFINE n == Len(recordCh)
           F == TheFile
           lo == FirstLine + taken[F]
           hi == FirstLine + sent[F] - 1
<1>1. /\ recordCh \in Seq(Record) /\ n \in Nat /\ n # 0 /\ DOMAIN recordCh = 1 .. n
      /\ Head(recordCh) = recordCh[1] /\ recordCh[1] \in Record
      /\ \A i \in 1 .. n : recordCh[i] \in Record
  <2>1. recordCh \in Seq(Record)
    BY DEF ReaderInv, TypeInv, TypeOK, Record
  <2>2. n \in Nat /\ n # 0 /\ DOMAIN recordCh = 1 .. n
    BY <2>1, LenProperties, EmptySeq
  <2>3. Head(recordCh) = recordCh[1] /\ \A i \in 1 .. n : recordCh[i] \in Record
    BY <2>1, <2>2, HeadTailProperties, ElementOfSeq
  <2> QED
    BY <2>1, <2>2, <2>3
<1>2. \A i \in 1 .. n : recordCh[i][1] = F /\ recordCh[i][2] \in Nat /\ recordCh[i] = <<recordCh[i][1], recordCh[i][2]>>
  BY <1>1, OnlyFile DEF Record
<1>3. Waiting(F) = 1 .. n
  BY <1>1, <1>2 DEF Waiting
<1>4. /\ {recordCh[i][2] : i \in 1 .. n} = lo .. hi
      /\ \A i, j \in 1 .. n : i < j => recordCh[i][2] < recordCh[j][2]
  BY <1>3, OnlyFile DEF ReaderInv, InOrder
<1>5. lo \in Nat /\ hi \in Int
  BY OnlyFile, FirstLineIs DEF ReaderInv, TypeInv, TypeOK
<1> HIDE DEF n, lo, hi, F
<1>6. 1 \in 1 .. n
  BY <1>1
<1>7. recordCh[1][2] \in lo .. hi
  BY <1>4, <1>6
<1>8. lo \in lo .. hi
  BY <1>5, <1>7
<1>9. PICK i \in 1 .. n : recordCh[i][2] = lo
  BY <1>4, <1>8
<1>10. i = 1
  <2>1. i = 1 \/ 1 < i
    BY <1>1
  <2>2. ~(recordCh[1][2] < lo)
    BY <1>2, <1>5, <1>6, <1>7
  <2> QED
    BY <1>4, <1>6, <1>9, <2>1, <2>2
<1> QED
  BY <1>1, <1>2, <1>6, <1>9, <1>10 DEF lo, F

\* A closed channel that is empty stays so: every goroutine is done.
LEMMA ClosedStays ==
  ASSUME ReaderInv, [Next]_vars
  PROVE  /\ recordClosed /\ recordCh = <<>> => recordClosed' /\ recordCh' = <<>>
         /\ errClosed /\ errCh = <<>> => errClosed' /\ errCh' = <<>>
<1>1. /\ recordClosed <=> rcloser \in {"closeErr", "done"}
      /\ errClosed <=> rcloser = "done"
      /\ recordClosed => \A f \in Files : rpc[f] = "done"
  BY DEF ReaderInv, ErrorsInv, ReaderLife
<1>2. recordClosed \/ errClosed => \A f \in Files : rpc[f] = "done"
  BY <1>1
<1>3. CASE Read
  BY <1>1, <1>3 DEF Read
<1>4. CASE CloserStep
  BY <1>4 DEF CloserStep, CloseRecords, CloseAfter, CloseErrs
<1>5. ASSUME NEW f \in Files, FileStep(f)
      PROVE  /\ recordClosed /\ recordCh = <<>> => recordClosed' /\ recordCh' = <<>>
             /\ errClosed /\ errCh = <<>> => errClosed' /\ errCh' = <<>>
  <2>1. rpc[f] # "done"
    BY <1>5 DEF FileStep, OpenFile, ReadHeader, LoopCanceled, EndOfFile, ReadRow, SendRecord, PutRecord,
                SendCanceled, CheckHeader, CompareHeader, ReportError, PutError, Local
  <2> QED
    BY <1>2, <2>1
<1>6. CASE ReceiveRecord \/ ReceiveError \/ Cancel
  BY <1>6 DEF ReceiveRecord, ReceiveError, Cancel, chanVars
<1>7. CASE Terminated \/ UNCHANGED vars
  BY <1>7 DEF Terminated, vars, readerVars, chanVars
<1> QED
  BY <1>3, <1>4, <1>5, <1>6, <1>7 DEF Next, ReaderStep, EnvStep

LEMMA CollectStep == ReaderInv /\ CollectInv /\ [JobNext]_jobAllVars => CollectInv'
<1> SUFFICES ASSUME ReaderInv, CollectInv, [JobNext]_jobAllVars PROVE CollectInv'
  OBVIOUS
<1>c. /\ recordClosed /\ recordCh = <<>> => recordClosed' /\ recordCh' = <<>>
      /\ errClosed /\ errCh = <<>> => errClosed' /\ errCh' = <<>>
  BY JobStepsRead, ClosedStays
<1>t. /\ taken \in [Files -> Nat] /\ taken[TheFile] \in Nat /\ records \in Seq(Record) /\ errs \in Seq(Kinds)
      /\ Len(records) \in Nat /\ errCh \in Seq(Error) /\ FirstLine \in Nat /\ FirstLine' = FirstLine
  BY OnlyFile, FirstLineIs, LenProperties DEF ReaderInv, TypeInv, TypeOK, CollectInv, Error, FirstLine
\* A step that leaves what was collected alone.
<1>k. ASSUME UNCHANGED <<records, errs, taken, reported, closedSeen, readErr>>,
             \/ jobPc' = jobPc
             \/ jobPc = "idle" /\ jobPc' = "collect"
             \/ jobPc = "batch" /\ jobPc' = "done"
      PROVE  CollectInv'
  <2>1. TheFile' = TheFile
    BY DEF TheFile
  <2> QED
    BY <1>c, <1>t, <1>k, <2>1 DEF CollectInv, JobPcs
<1>1. CASE BeginRead
  <2>1. /\ UNCHANGED <<records, errs, taken, reported, closedSeen, readErr>>
        /\ jobPc = "idle" /\ jobPc' = "collect"
    BY <1>1 DEF BeginRead, envVars
  <2> QED
    BY ONLY <1>k, <2>1
<1>2. CASE CollectRecord
  <2>1. /\ jobPc = "collect" /\ recordCh # <<>> /\ records' = Append(records, Head(recordCh))
        /\ taken' = [taken EXCEPT ![Head(recordCh)[1]] = @ + 1]
        /\ UNCHANGED <<jobPc, errs, reported, closedSeen, readErr>>
    BY <1>2 DEF CollectRecord, ReceiveRecord
  <2>2. Head(recordCh) = <<TheFile, FirstLine + taken[TheFile]>> /\ Head(recordCh) \in Record
    <3>1. recordCh \in Seq(Record)
      BY DEF ReaderInv, TypeInv, TypeOK, Record
    <3> QED
      BY <2>1, <3>1, NextRecord, HeadTailProperties
  <2>3. taken'[TheFile] = taken[TheFile] + 1
    BY <1>t, <2>1, <2>2, OnlyFile
  <2>4. /\ records' \in Seq(Record) /\ Len(records') = Len(records) + 1
        /\ \A i \in 1 .. Len(records) : records'[i] = records[i]
        /\ records'[Len(records) + 1] = Head(recordCh)
    BY <1>t, <2>1, <2>2, AppendProperties
  <2>5. /\ readErr # "ctx" /\ Len(records) = taken[TheFile]
        /\ \A i \in 1 .. Len(records) : records[i] = <<TheFile, FirstLine + i - 1>>
    BY <2>1 DEF CollectInv
  <2>6. ASSUME NEW i \in 1 .. Len(records') PROVE records'[i] = <<TheFile, FirstLine + i - 1>>
    <3>1. i \in 1 .. Len(records) \/ i = Len(records) + 1
      BY <1>t, <2>4
    <3>2. FirstLine + (Len(records) + 1) - 1 = FirstLine + Len(records)
      BY <1>t
    <3> QED
      BY <2>2, <2>4, <2>5, <3>1, <3>2
  <2>7. TheFile' = TheFile
    BY DEF TheFile
  <2> QED
    BY <1>c, <1>t, <2>1, <2>3, <2>4, <2>5, <2>6, <2>7 DEF CollectInv
<1>3. CASE CollectError
  <2>1. /\ jobPc = "collect" /\ errCh # <<>> /\ errs' = Append(errs, Head(errCh).kind)
        /\ UNCHANGED <<jobPc, records, taken, closedSeen, readErr>>
    BY <1>3 DEF CollectError, ReceiveError
  <2>2. Head(errCh).kind \in Kinds
    <3>1. Head(errCh) \in Error
      BY <1>t, <2>1, HeadTailProperties
    <3> QED
      BY <3>1 DEF Error
  <2>3. errs' \in Seq(Kinds) /\ errs' # <<>>
    <3>1. Len(errs') = Len(errs) + 1 /\ errs' \in Seq(Kinds) /\ Len(errs) \in Nat
      BY <1>t, <2>1, <2>2, AppendProperties, LenProperties
    <3> QED
      BY <3>1, EmptySeq
  <2>4. TheFile' = TheFile
    BY DEF TheFile
  <2> QED
    BY <1>c, <1>t, <2>1, <2>3, <2>4 DEF CollectInv
<1>4. CASE SeeClosed
  <2>1. /\ jobPc = "collect" /\ UNCHANGED <<jobPc, records, errs, taken, reported, readErr>>
        /\ UNCHANGED <<recordCh, recordClosed, errCh, errClosed>>
        /\ \/ recordClosed /\ recordCh = <<>> /\ closedSeen' = closedSeen \cup {"records"}
           \/ errClosed /\ errCh = <<>> /\ closedSeen' = closedSeen \cup {"errors"}
    BY <1>4 DEF SeeClosed, vars, readerVars, chanVars, envVars
  <2>2. TheFile' = TheFile
    BY DEF TheFile
  <2> QED
    BY <1>t, <2>1, <2>2 DEF CollectInv
<1>5. CASE ReturnRecords
  <2>1. /\ jobPc = "collect" /\ jobPc' = "batch" /\ {"records", "errors"} \subseteq closedSeen
        /\ readErr' = (IF errs = <<>> THEN "nil" ELSE errs[1])
        /\ UNCHANGED <<records, errs, taken, reported, closedSeen>>
    BY <1>5 DEF ReturnRecords, ReturnAfter, vars, envVars
  <2>2. errs # <<>> => readErr' \in Kinds
    <3>1. errs # <<>> => Len(errs) \in Nat \ {0}
      BY <1>t, EmptySeq
    <3>2. errs # <<>> => 1 \in 1 .. Len(errs)
      BY <3>1
    <3> QED
      BY <1>t, <2>1, <3>2, ElementOfSeq
  <2>3. TheFile' = TheFile
    BY DEF TheFile
  <2>4. "nil" \notin Kinds /\ "ctx" \notin Kinds
    BY DEF Kinds
  <2> QED
    BY <1>c, <1>t, <2>1, <2>2, <2>3, <2>4 DEF CollectInv, JobPcs
<1>6. CASE ReturnCanceled
  <2>1. /\ jobPc' = "batch" /\ readErr' = "ctx" /\ records' = <<>>
        /\ UNCHANGED <<errs, taken, reported, closedSeen>>
    BY <1>6 DEF ReturnCanceled, vars, envVars
  <2>2. records' \in Seq(Record)
    BY <2>1, EmptySeq
  <2> QED
    BY <1>c, <1>t, <2>1, <2>2 DEF CollectInv, JobPcs
<1>7. CASE BatchStep
  <2>1. /\ UNCHANGED <<records, errs, taken, reported, closedSeen, readErr>>
        /\ jobPc' = jobPc \/ (jobPc = "batch" /\ jobPc' = "done")
    BY <1>7 DEF BatchStep, ProcessRecord, CancelBatch, FailFrom, ReturnResults, InBatch, vars, envVars
  <2> QED
    BY ONLY <1>k, <2>1
<1>8. CASE StatsStep \/ FileReadStep \/ (Cancel /\ OthersIdle) \/ UNCHANGED jobAllVars
  <2>1. UNCHANGED <<jobPc, records, errs, taken, reported, closedSeen, readErr>>
    BY <1>8 DEF StatsStep, LoadProcessed, LoadFailed, StatsReturned, FileReadStep, Cancel, OthersIdle,
                jobVars, jobAllVars, vars, envVars
  <2> QED
    BY ONLY <1>k, <2>1
<1> QED
  BY <1>1, <1>2, <1>3, <1>4, <1>5, <1>6, <1>7, <1>8 DEF JobNext, ReadSingleStep

\* No more records were sent than the file has rows.
SentInv ==
    \A f \in Files :
        /\ sent[f] # 0 => FirstLine - 1 + sent[f] <= Len(Rows(f))
        /\ rpc[f] = "send" => line[f] <= Len(Rows(f))

LEMMA SentStep == TypeInv /\ SentInv /\ [Next]_vars => SentInv'
<1> SUFFICES ASSUME TypeInv, SentInv, [Next]_vars PROVE SentInv'
  OBVIOUS
<1>t. /\ rpc \in [Files -> RPc] /\ line \in [Files -> Nat] /\ sent \in [Files -> Nat]
      /\ content' = content => \A f \in Files : Rows(f)' = Rows(f)
      /\ FirstLine \in Nat /\ FirstLine >= 1 /\ FirstLine' = FirstLine
      /\ \A f \in Files : Len(Rows(f)) \in Nat
  BY FirstLineIs, RowsType DEF TypeInv, TypeOK, RPc, FirstLine, Rows
<1>k. ASSUME content' = content, sent' = sent,
             \A f \in Files : rpc'[f] = "send" => rpc[f] = "send" /\ line'[f] = line[f]
      PROVE  SentInv'
  BY <1>k, <1>t DEF SentInv
<1>1. CASE Read
  <2>1. content' = content /\ sent' = sent /\ \A f \in Files : rpc'[f] = "open"
    BY <1>1 DEF Read
  <2> QED
    BY <1>k, <2>1
<1>2. CASE CloserStep \/ EnvStep \/ Terminated \/ UNCHANGED vars
  <2>1. UNCHANGED <<content, sent, rpc, line>>
    BY <1>2 DEF CloserStep, CloseRecords, CloseAfter, CloseErrs, EnvStep, ReceiveRecord, ReceiveError, Cancel,
                Terminated, vars, readerVars, fileVars
  <2> QED
    BY <1>k, <2>1
<1>3. ASSUME NEW f \in Files, OpenFile(f) \/ ReadHeader(f) \/ LoopCanceled(f) \/ EndOfFile(f) \/ SendCanceled(f)
                                \/ CheckHeader(f) \/ ReportError(f)
      PROVE  SentInv'
  <2>1. /\ content' = content /\ sent' = sent
        /\ \E pc \in RPc \ {"send"} : rpc' = [rpc EXCEPT ![f] = pc]
        /\ line' = line \/ line' = [line EXCEPT ![f] = 1]
    <3>1. CASE OpenFile(f)
      <4>1. content[f].open \in {"ok", "missing", "unreadable", "empty"}
        BY RowsType DEF TypeInv
      <4> QED
        BY <3>1, <4>1 DEF OpenFile, Local, Fail, Goto, RPc
    <3>2. CASE ReadHeader(f)
      BY <3>2 DEF ReadHeader, Local, Fail, Goto, RPc
    <3>3. CASE LoopCanceled(f) \/ EndOfFile(f) \/ SendCanceled(f)
      BY <3>3 DEF LoopCanceled, EndOfFile, SendCanceled, Local, Fail, Goto, RPc
    <3>4. CASE CheckHeader(f)
      BY <3>4 DEF CheckHeader, CompareHeader, Fail, Goto, RPc
    <3>5. CASE ReportError(f)
      BY <3>5 DEF ReportError, PutError, RPc
    <3> QED
      BY <1>3, <3>1, <3>2, <3>3, <3>4, <3>5
  <2> QED
    BY <1>k, <1>t, <2>1
<1>4. ASSUME NEW f \in Files, ReadRow(f) PROVE SentInv'
  <2>1. /\ content' = content /\ sent' = sent /\ line[f] < Len(Rows(f))
        /\ \/ rpc' = [rpc EXCEPT ![f] = "report"] /\ line' = line
           \/ rpc' = [rpc EXCEPT ![f] = "send"] /\ line' = [line EXCEPT ![f] = line[f] + 1]
    BY <1>4 DEF ReadRow, Local, Fail, Goto
  <2>2. line[f] + 1 <= Len(Rows(f))
    BY <1>t, <2>1
  <2> QED
    BY <1>t, <2>1, <2>2 DEF SentInv
<1>5. ASSUME NEW f \in Files, SendRecord(f) PROVE SentInv'
  <2>1. /\ rpc[f] = "send" /\ rpc' = [rpc EXCEPT ![f] = "loop"] /\ sent' = [sent EXCEPT ![f] = sent[f] + 1]
        /\ content' = content /\ line' = line
    BY <1>5, <1>t DEF SendRecord, PutRecord, Goto
  <2>2. line[f] = FirstLine + sent[f] /\ line[f] <= Len(Rows(f))
    BY <2>1 DEF TypeInv, LinesMatch, SentInv
  <2>3. FirstLine - 1 + sent'[f] <= Len(Rows(f))
    BY <1>t, <2>1, <2>2
  <2> QED
    BY <1>t, <2>1, <2>3 DEF SentInv
<1> QED
  BY <1>1, <1>2, <1>3, <1>4, <1>5 DEF Next, ReaderStep, FileStep

\* What ReadSingle returns is the file, or the part of it that the error leaves.
LEMMA SingleIs == ReaderInv /\ SentInv /\ CollectInv => SingleComplete
<1> SUFFICES ASSUME ReaderInv, SentInv, CollectInv, jobPc \in {"batch", "done"}
             PROVE  CASE readErr = "nil" -> records = AllRecords
                      [] readErr = "ctx" -> records = <<>>
                      [] OTHER -> records = SubSeq(AllRecords, 1, Len(records))
  BY DEF SingleComplete
<1> DEFINE F == TheFile
           N == Len(Rows(F)) + 1 - FirstLine
<1>t. /\ taken[F] \in Nat /\ sent[F] \in Nat /\ taken[F] <= sent[F] /\ FirstLine \in Nat /\ FirstLine >= 1
      /\ Len(Rows(F)) \in Nat /\ N \in Int
  BY OnlyFile, FirstLineIs, RowsType DEF ReaderInv, TypeInv, TypeOK, InOrder
<1>r. records \in Seq(Record) /\ Len(records) \in Nat /\ records \in [1 .. Len(records) -> Record]
  BY LenProperties DEF CollectInv
<1>1. CASE readErr = "ctx"
  BY <1>1 DEF CollectInv
<1>2. CASE readErr # "ctx"
  <2>1. /\ Len(records) = taken[F]
        /\ \A i \in 1 .. Len(records) : records[i] = <<F, FirstLine + i - 1>>
    BY <1>2 DEF CollectInv
  <2>2. taken[F] = 0 \/ taken[F] <= N
    <3>1. taken[F] # 0 => FirstLine - 1 + sent[F] <= Len(Rows(F))
      BY <1>t, OnlyFile DEF SentInv
    <3> QED
      BY <1>t, <3>1
  <2>3. AllRecords = [i \in 1 .. N |-> <<F, FirstLine + i - 1>>]
    BY DEF AllRecords
  <2>4. CASE readErr = "nil"
    <3>1. /\ errs = <<>> /\ reported = {} /\ recordClosed /\ recordCh = <<>> /\ errCh = <<>>
      BY <2>4 DEF CollectInv
    <3>2. ErrorsOf(F) = {}
      <4>1. Len(errCh) = 0 /\ 1 .. 0 = {}
        BY <3>1, EmptySeq
      <4> QED
        BY <3>1, <4>1 DEF ErrorsOf, Errors
    <3>3. ~(FirstLine - 1 + sent[F] < Len(Rows(F)))
      BY <3>1, <3>2, OnlyFile, LossIsReported DEF ReaderInv, NoSilentLoss
    <3>4. taken[F] = sent[F]
      <4>1. Waiting(F) = {}
        <5>1. DOMAIN recordCh = {}
          BY <3>1, EmptySeq
        <5> QED
          BY <5>1 DEF Waiting
      <4>2. FirstLine + taken[F] .. FirstLine + sent[F] - 1 = {}
        BY <4>1, OnlyFile DEF ReaderInv, InOrder
      <4>3. FirstLine + taken[F] \notin FirstLine + taken[F] .. FirstLine + sent[F] - 1
        BY <4>2
      <4> QED
        BY <1>t, <4>3
    <3>5. 1 .. Len(records) = 1 .. N
      BY <1>t, <2>1, <2>2, <3>3, <3>4
    <3> HIDE DEF N, F
    <3> QED
      BY <1>r, <2>1, <2>3, <2>4, <3>5
  <2>5. CASE readErr # "nil"
    <3> DEFINE k == Len(records)
    <3>1. ASSUME NEW i \in 1 .. k PROVE AllRecords[i] = records[i]
      <4>1. i \in Nat /\ 1 <= i /\ i <= taken[F] /\ taken[F] # 0
        BY <1>t, <1>r, <2>1
      <4> HIDE DEF N, F
      <4>2. i \in 1 .. N
        BY <1>t, <2>2, <4>1
      <4>3. AllRecords[i] = <<F, FirstLine + i - 1>>
        BY ONLY <2>3, <4>2
      <4> QED
        BY <2>1, <4>3
    <3>2. \A i \in 1 .. k : AllRecords[i] \in Record
      BY <1>r, <3>1, ElementOfSeq
    <3>3. k \in Int /\ 1 \in Int
      BY <1>r
    <3> DEFINE part == SubSeq(AllRecords, 1, k)
    <3> HIDE DEF k
    <3>4. part \in Seq(Record) /\ Len(part) = (IF 1 <= k THEN k - 1 + 1 ELSE 0)
          /\ \A i \in 1 .. k - 1 + 1 : part[i] = AllRecords[1 + i - 1]
      BY <3>2, <3>3, SubSeqProperties
    <3>5. k \in Nat /\ k - 1 + 1 = k /\ Len(part) = k /\ \A i \in 1 .. k : 1 + i - 1 = i
      BY <1>r, <3>4 DEF k
    <3>6. \A i \in 1 .. k : part[i] = records[i]
      BY <3>1, <3>4, <3>5
    <3>7. part = records
      BY <1>r, <3>4, <3>5, <3>6, SeqEqual DEF k
    <3> QED
      BY <1>2, <2>5, <3>7 DEF k
  <2> QED
    BY <2>4, <2>5
<1> QED
  BY <1>1, <1>2

\* Any file, any order of the two channels and of the cancellation: without an error
\* ReadSingle returns every row, in order, with the reader's error a prefix of them, and with
\* the context's error nothing (csv_reader.go 203-240).
THEOREM SingleCorrect == JobSafety => []SingleComplete
<1>1. JobInit => SentInv
  BY DEF JobInit, Init, SentInv
<1>2. ReaderInv /\ SentInv /\ CollectInv /\ [JobNext]_jobAllVars => ReaderInv' /\ SentInv' /\ CollectInv'
  BY ReaderInvStep, CollectStep, SentStep, JobStepsRead DEF ReaderInv
<1> QED
  BY ReaderInvInit, CollectInit, <1>1, <1>2, SingleIs, PTL DEF JobSafety

----------------------------------------------------------------------------
(* ProcessBatch and Stats.                                                 *)

\* An outcome that Process counts as failed.
Failing(outcome) == IsFailed(outcome) \/ outcome = "okError"

FailedPlaces == {i \in 1 .. Attempted : Failing(results[i].outcome)}

\* Nothing is cancelled before the batch ends, and every result so far is that of the
\* record in its place.
ResultsInv ==
    /\ results \in Seq(Result) /\ Len(results) <= Len(records)
    /\ processed \in Nat /\ failed \in Nat /\ Attempted <= Len(results)
    /\ jobPc \in {"idle", "collect"} => results = <<>>
    /\ jobPc # "done" => Attempted = Len(results)
    /\ jobPc = "done" => Len(results) = Len(records)
    /\ Attempted < Len(results) => ctxDone
    /\ \A i \in 1 .. Len(results) :
         results[i].rec = records[i] /\ (i > Attempted <=> results[i].outcome = "canceled")
    /\ failed = Cardinality(FailedPlaces)

\* Between its two loads the reader of Stats has a processed count that is not ahead, and
\* with the failures that are there by now it has at least what was counted when it began.
StatsInv ==
    /\ stats \in [pc : {"idle", "failed", "read"}, processed : Nat, failed : Nat, before : Nat]
    /\ stats.pc = "failed" => stats.processed <= processed /\ stats.before <= stats.processed + failed
    /\ stats.pc = "read" =>
         /\ stats.before <= stats.processed + stats.failed
         /\ stats.processed + stats.failed <= Attempted

BatchInv == ResultsInv /\ StatsInv

LEMMA BatchInit == JobInit => BatchInv
<1> SUFFICES ASSUME JobInit PROVE BatchInv
  OBVIOUS
<1>1. results \in Seq(Result) /\ Len(results) = 0 /\ Len(records) = 0
  BY EmptySeq DEF JobInit
<1>2. Attempted = 0 /\ FailedPlaces = {}
  BY DEF JobInit, Attempted, FailedPlaces
<1>3. Cardinality({}) = 0
  BY FS_EmptySet
<1>4. \A i \in 1 .. Len(results) : FALSE
  BY <1>1
<1> QED
  BY <1>1, <1>2, <1>3, <1>4 DEF JobInit, NoStats, BatchInv, ResultsInv, StatsInv

\* One more record processed is one more result and one more count.
LEMMA RecordProcessed ==
  ASSUME CollectInv, ResultsInv, ProcessRecord
  PROVE  ResultsInv' /\ processed' >= processed /\ failed' >= failed
<1> DEFINE n == Len(results)
<1>1. /\ jobPc = "batch" /\ UNCHANGED <<jobPc, records>> /\ n < Len(records)
      /\ Attempted = n /\ n \in Nat /\ results \in Seq(Result) /\ Len(records) \in Nat
      /\ processed \in Nat /\ failed \in Nat
  BY LenProperties DEF ProcessRecord, InBatch, CollectInv, ResultsInv
<1>2. PICK outcome \in Outcomes :
        /\ results' = Append(results, [rec |-> records[n + 1], outcome |-> outcome])
        /\ failed' = failed + (IF CountsFailed(outcome) THEN 1 ELSE 0)
        /\ processed' = processed + (IF CountsFailed(outcome) THEN 0 ELSE 1)
  BY DEF ProcessRecord, Process
<1>3. outcome \in Outcomes \cup {"canceled"} /\ outcome # "canceled" /\ (CountsFailed(outcome) <=> Failing(outcome))
  BY OutcomesAssumption DEF ProcessorOutcomes, CountsFailed, Failing, IsFailed
<1>4. records[n + 1] \in Record
  <2>1. n + 1 \in 1 .. Len(records)
    BY <1>1
  <2> QED
    BY <2>1, ElementOfSeq DEF CollectInv
<1> DEFINE e == [rec |-> records[n + 1], outcome |-> outcome]
<1>5. e \in Result /\ e.rec = records[n + 1] /\ e.outcome = outcome
  BY <1>3, <1>4 DEF Result
<1> HIDE DEF e
<1>6. /\ results' \in Seq(Result) /\ Len(results') = n + 1 /\ results'[n + 1] = e
      /\ \A i \in 1 .. n : results'[i] = results[i]
  BY <1>1, <1>2, <1>5, AppendProperties DEF e
<1> HIDE DEF n
<1>7. processed' \in Nat /\ failed' \in Nat /\ processed' + failed' = processed + failed + 1
      /\ processed' >= processed /\ failed' >= failed
  BY <1>1, <1>2
<1>8. Attempted' = n + 1 /\ Attempted = n
  BY <1>1, <1>7 DEF Attempted
<1>9. ASSUME NEW i \in 1 .. n + 1
      PROVE  results'[i].rec = records[i] /\ (i > n + 1 <=> results'[i].outcome = "canceled")
  <2>1. CASE i = n + 1
    BY <1>1, <1>3, <1>5, <1>6, <2>1
  <2>2. CASE i # n + 1
    <3>1. i \in 1 .. n /\ ~(i > n) /\ ~(i > n + 1)
      BY <1>1, <2>2
    <3> QED
      BY <1>1, <1>6, <3>1 DEF ResultsInv, n
  <2> QED
    BY <2>1, <2>2
<1>10. failed' = Cardinality(FailedPlaces')
  <2>1. FailedPlaces = {i \in 1 .. n : Failing(results[i].outcome)}
    BY <1>8 DEF FailedPlaces
  <2>2. FailedPlaces' = {i \in 1 .. n + 1 : Failing(results'[i].outcome)}
    BY <1>8 DEF FailedPlaces, Failing, IsFailed
  <2>3. 1 .. n + 1 = (1 .. n) \cup {n + 1} /\ n + 1 \notin 1 .. n
    BY <1>1
  <2>4. FailedPlaces' = IF Failing(outcome) THEN FailedPlaces \cup {n + 1} ELSE FailedPlaces
    BY <1>5, <1>6, <2>1, <2>2, <2>3
  <2>5. IsFiniteSet(FailedPlaces) /\ n + 1 \notin FailedPlaces
    <3>1. IsFiniteSet(1 .. n)
      BY <1>1, FS_Interval
    <3> QED
      BY <2>1, <2>3, <3>1, FS_Subset
  <2>6. Cardinality(FailedPlaces') = IF Failing(outcome) THEN Cardinality(FailedPlaces) + 1 ELSE Cardinality(FailedPlaces)
    BY <2>4, <2>5, FS_AddElement
  <2>7. failed = Cardinality(FailedPlaces)
    BY DEF ResultsInv
  <2> QED
    BY <1>1, <1>2, <1>3, <2>6, <2>7
<1>11. \A i \in 1 .. Len(results') : results'[i].rec = records'[i] /\ (i > Attempted' <=> results'[i].outcome = "canceled")
  BY <1>1, <1>6, <1>8, <1>9
<1>12. Len(results') <= Len(records') /\ Attempted' = Len(results')
  BY <1>1, <1>6, <1>8 DEF n
<1> QED
  BY <1>1, <1>6, <1>7, <1>8, <1>10, <1>11, <1>12 DEF ResultsInv

\* A cancelled batch gets a result for each of the other records, and no count.
LEMMA RestCancelled ==
  ASSUME CollectInv, ResultsInv, CancelBatch
  PROVE  ResultsInv' /\ UNCHANGED <<processed, failed>>
<1> DEFINE n == Len(results)
           k == Len(records) - n
           first == n + 1
           rest == [i \in 1 .. Len(records) + 1 - first |-> [rec |-> records[first + i - 1], outcome |-> "canceled"]]
<1>1. /\ jobPc = "batch" /\ jobPc' = "done" /\ records' = records /\ ctxDone /\ ctxDone' = ctxDone
      /\ n < Len(records) /\ results' = results \o rest /\ UNCHANGED <<processed, failed>>
  BY DEF CancelBatch, FailFrom, InBatch, vars, envVars
<1>2. /\ Attempted = n /\ n \in Nat /\ results \in Seq(Result) /\ Len(records) \in Nat /\ records \in Seq(Record)
      /\ processed \in Nat /\ failed \in Nat
  BY <1>1, LenProperties DEF CollectInv, ResultsInv
<1>3. k \in Nat /\ Len(records) + 1 - first = k /\ n + k = Len(records)
  BY <1>1, <1>2
<1>4. \A i \in 1 .. k : records[first + i - 1] \in Record /\ first + i - 1 = n + i
  <2> SUFFICES ASSUME NEW i \in 1 .. k PROVE records[first + i - 1] \in Record /\ first + i - 1 = n + i
    OBVIOUS
  <2>1. first + i - 1 \in 1 .. Len(records) /\ first + i - 1 = n + i
    BY <1>2, <1>3
  <2> QED
    BY <1>2, <2>1, ElementOfSeq
<1>5. rest \in Seq(Result) /\ Len(rest) = k
      /\ \A i \in 1 .. k : rest[i].rec = records[n + i] /\ rest[i].outcome = "canceled"
  <2>1. rest = [i \in 1 .. k |-> [rec |-> records[first + i - 1], outcome |-> "canceled"]]
    BY <1>3
  <2>2. \A i \in 1 .. k : [rec |-> records[first + i - 1], outcome |-> "canceled"] \in Result
    BY <1>4 DEF Result
  <2> HIDE DEF k, first
  <2>3. rest \in [1 .. k -> Result]
    BY <2>1, <2>2
  <2>4. rest \in Seq(Result)
    BY <1>3, <2>3
  <2>5. Len(rest) = k
    BY <1>3, <2>3, <2>4, LenProperties
  <2> QED
    BY <1>4, <2>1, <2>4, <2>5
<1> HIDE DEF rest
<1>6. /\ results' \in Seq(Result) /\ Len(results') = n + k
      /\ \A i \in 1 .. n + k : results'[i] = IF i <= n THEN results[i] ELSE rest[i - n]
  BY <1>1, <1>2, <1>5, ConcatProperties
<1>7. Attempted' = Attempted /\ Len(results') = Len(records') /\ Attempted' <= Len(results')
  BY <1>1, <1>2, <1>3, <1>6 DEF Attempted
<1> HIDE DEF k, first, n
<1>8. ASSUME NEW i \in 1 .. n + k
      PROVE  results'[i].rec = records[i] /\ (i > n <=> results'[i].outcome = "canceled")
  <2>1. CASE i <= n
    <3>1. i \in 1 .. Len(results) /\ ~(i > n)
      BY <1>2, <2>1 DEF n
    <3> QED
      BY <1>2, <1>6, <2>1, <3>1 DEF ResultsInv
  <2>2. CASE ~(i <= n)
    <3>1. i - n \in 1 .. k /\ n + (i - n) = i /\ i > n
      BY <1>2, <1>3, <2>2
    <3> QED
      BY <1>5, <1>6, <2>2, <3>1
  <2> QED
    BY <2>1, <2>2
<1>9. FailedPlaces' = FailedPlaces
  <2>1. \A i \in 1 .. n : i \in 1 .. n + k /\ i <= n
    BY <1>2, <1>3
  <2>2. \A i \in 1 .. n : results'[i] = results[i]
    BY <1>6, <2>1
  <2> QED
    BY <1>2, <1>7, <2>2 DEF FailedPlaces, Failing, IsFailed
<1>10. \A i \in 1 .. Len(results') : results'[i].rec = records'[i] /\ (i > Attempted' <=> results'[i].outcome = "canceled")
  BY <1>1, <1>2, <1>6, <1>7, <1>8
<1>11. Len(results') \in Nat /\ Len(results') <= Len(records')
  BY <1>6, <1>7, LenProperties
<1> QED
  BY <1>1, <1>2, <1>6, <1>7, <1>9, <1>10, <1>11 DEF ResultsInv

\* A step that leaves the results alone.
LEMMA ResultsKept ==
  ASSUME ResultsInv, UNCHANGED <<results, processed, failed>>, ctxDone => ctxDone',
         \/ UNCHANGED <<jobPc, records>>
         \/ jobPc \in {"idle", "collect"} /\ jobPc' # "done" /\ Len(records') >= 0
         \/ jobPc = "batch" /\ jobPc' = "done" /\ records' = records /\ Len(results) = Len(records)
  PROVE  ResultsInv'
<1>1. Attempted' = Attempted /\ FailedPlaces' = FailedPlaces /\ Len(results) \in Nat
  BY LenProperties DEF ResultsInv, Attempted, FailedPlaces, Failing, IsFailed
<1>2. CASE UNCHANGED <<jobPc, records>>
  BY <1>1, <1>2 DEF ResultsInv
<1>3. CASE jobPc \in {"idle", "collect"} /\ jobPc' # "done" /\ Len(records') >= 0
  <2>1. results = <<>> /\ Len(results) = 0 /\ Attempted = Len(results)
    BY <1>3, EmptySeq DEF ResultsInv
  <2>2. \A i \in 1 .. Len(results) : FALSE
    BY <2>1
  <2> QED
    BY <1>1, <1>3, <2>1, <2>2 DEF ResultsInv
<1>4. CASE jobPc = "batch" /\ jobPc' = "done" /\ records' = records /\ Len(results) = Len(records)
  BY <1>1, <1>4 DEF ResultsInv
<1> QED
  BY <1>2, <1>3, <1>4

LEMMA BatchStepKeeps == ReaderInv /\ CollectInv /\ BatchInv /\ [JobNext]_jobAllVars => BatchInv'
<1> SUFFICES ASSUME ReaderInv, CollectInv, BatchInv, [JobNext]_jobAllVars PROVE BatchInv'
  OBVIOUS
<1>t. /\ ResultsInv /\ StatsInv /\ processed \in Nat /\ failed \in Nat
      /\ stats \in [pc : {"idle", "failed", "read"}, processed : Nat, failed : Nat, before : Nat]
      /\ Len(records') \in Nat
  <2>1. CollectInv'
    BY CollectStep
  <2> QED
    BY <2>1, LenProperties DEF BatchInv, ResultsInv, StatsInv, CollectInv
\* The counters never go back, and the stats stay as they are.
<1>s. ASSUME stats' = stats, processed' \in Nat, failed' \in Nat, processed' >= processed, failed' >= failed
      PROVE  StatsInv'
  <2>1. /\ stats.processed \in Nat /\ stats.failed \in Nat /\ stats.before \in Nat
    BY <1>t
  <2>2. stats.before <= stats.processed + failed => stats.before <= stats.processed + failed'
    BY <1>s, <1>t, <2>1
  <2>3. stats.processed <= processed => stats.processed <= processed'
    BY <1>s, <1>t, <2>1
  <2>4. stats.processed + stats.failed <= Attempted => stats.processed + stats.failed <= Attempted'
    BY <1>s, <1>t, <2>1 DEF Attempted
  <2> QED
    BY <1>s, <1>t, <2>2, <2>3, <2>4 DEF StatsInv
<1>k. ASSUME UNCHANGED <<stats, results, processed, failed>>, ctxDone => ctxDone',
             \/ UNCHANGED <<jobPc, records>>
             \/ jobPc \in {"idle", "collect"} /\ jobPc' # "done"
             \/ jobPc = "batch" /\ jobPc' = "done" /\ records' = records /\ Len(results) = Len(records)
      PROVE  BatchInv'
  <2>1. ResultsInv'
    BY <1>k, <1>t, ResultsKept
  <2>2. processed' >= processed /\ failed' >= failed
    BY <1>k, <1>t
  <2> QED
    BY <1>k, <1>s, <1>t, <2>1, <2>2 DEF BatchInv
<1>1. CASE ReadSingleStep
  <2>1. /\ UNCHANGED <<stats, results, processed, failed, ctxDone>>
        /\ jobPc \in {"idle", "collect"} /\ jobPc' # "done"
    BY <1>1 DEF ReadSingleStep, BeginRead, CollectRecord, ReceiveRecord, CollectError, ReceiveError, SeeClosed,
                ReturnRecords, ReturnAfter, ReturnCanceled, vars, envVars, workerVars
  <2> QED
    BY <1>k, <2>1
<1>2. CASE ProcessRecord
  <2>1. stats' = stats
    BY <1>2 DEF ProcessRecord, InBatch
  <2>2. ResultsInv' /\ processed' >= processed /\ failed' >= failed
    BY <1>2, <1>t, RecordProcessed
  <2>3. processed' \in Nat /\ failed' \in Nat
    BY <2>2 DEF ResultsInv
  <2> QED
    BY <1>s, <2>1, <2>2, <2>3 DEF BatchInv
<1>3. CASE CancelBatch
  <2>1. stats' = stats
    BY <1>3 DEF CancelBatch, FailFrom, InBatch
  <2>2. ResultsInv' /\ processed' = processed /\ failed' = failed
    BY <1>3, <1>t, RestCancelled
  <2>3. processed' >= processed /\ failed' >= failed
    BY <1>t, <2>2
  <2> QED
    BY <1>s, <1>t, <2>1, <2>2, <2>3 DEF BatchInv
<1>4. CASE ReturnResults
  <2>1. /\ UNCHANGED <<stats, results, processed, failed, ctxDone, records>>
        /\ jobPc = "batch" /\ jobPc' = "done" /\ Len(results) = Len(records)
    BY <1>4 DEF ReturnResults, InBatch, workerVars, vars, envVars
  <2> QED
    BY <1>k, <2>1
<1>5. CASE StatsStep
  <2>1. UNCHANGED <<results, processed, failed, ctxDone, jobPc, records>>
    BY <1>5 DEF StatsStep, LoadProcessed, LoadFailed, StatsReturned, workerVars, jobVars, vars, envVars
  <2>2. ResultsInv'
    BY <1>t, <2>1, ResultsKept
  <2>3. Attempted' = Attempted /\ Attempted = processed + failed
    BY <2>1 DEF Attempted
  <2>4. StatsInv'
    <3>1. CASE LoadProcessed
      <4>1. stats' = [pc |-> "failed", processed |-> processed, failed |-> 0, before |-> Attempted]
        BY <3>1 DEF LoadProcessed
      <4>2. /\ stats' \in [pc : {"idle", "failed", "read"}, processed : Nat, failed : Nat, before : Nat]
            /\ stats'.pc = "failed" /\ stats'.processed = processed /\ stats'.before = processed + failed
        BY <1>t, <2>3, <4>1
      <4> QED
        BY <1>t, <2>1, <4>2 DEF StatsInv
    <3>2. CASE LoadFailed
      <4>1. stats.pc = "failed" /\ stats' = [stats EXCEPT !.pc = "read", !.failed = failed]
        BY <3>2 DEF LoadFailed
      <4>2. /\ stats' \in [pc : {"idle", "failed", "read"}, processed : Nat, failed : Nat, before : Nat]
            /\ stats'.pc = "read" /\ stats'.processed = stats.processed /\ stats'.before = stats.before
            /\ stats'.failed = failed
        BY <1>t, <4>1
      <4>3. stats.processed <= processed /\ stats.before <= stats.processed + failed /\ stats.processed \in Nat
        BY <1>t, <4>1 DEF StatsInv
      <4>4. stats'.processed + stats'.failed <= Attempted'
        BY <1>t, <2>1, <2>3, <4>2, <4>3
      <4> QED
        BY <4>2, <4>3, <4>4 DEF StatsInv
    <3>3. CASE StatsReturned
      <4>1. stats' = NoStats
        BY <3>3 DEF StatsReturned
      <4> QED
        BY <4>1 DEF NoStats, StatsInv
    <3> QED
      BY <1>5, <3>1, <3>2, <3>3 DEF StatsStep
  <2> QED
    BY <2>2, <2>4 DEF BatchInv
<1>6. CASE FileReadStep \/ (Cancel /\ OthersIdle) \/ UNCHANGED jobAllVars
  <2>1. /\ UNCHANGED <<stats, results, processed, failed, jobPc, records>>
        /\ ctxDone => ctxDone'
    BY <1>6 DEF FileReadStep, Cancel, OthersIdle, jobVars, workerVars, jobAllVars, vars, envVars
  <2> QED
    BY <1>k, <2>1
<1> QED
  BY <1>1, <1>2, <1>3, <1>4, <1>5, <1>6 DEF JobNext, BatchStep

\* Any number of records and any answers of the processor: one result for each record, in
\* order, the cancelled ones last, and counters and Stats that tell the attempted ones
\* (worker.go 32-134).
THEOREM BatchCorrect == JobSafety => []BatchResults
<1>1. ReaderInv /\ CollectInv /\ BatchInv /\ [JobNext]_jobAllVars => ReaderInv' /\ CollectInv' /\ BatchInv'
  BY ReaderInvStep, CollectStep, BatchStepKeeps
<1>2. BatchInv => BatchResults
  <2> SUFFICES ASSUME BatchInv PROVE BatchResults
    OBVIOUS
  <2>1. DOMAIN results = 1 .. Len(results)
    BY LenProperties DEF BatchInv, ResultsInv
  <2>2. failed = Cardinality({i \in 1 .. Attempted : IsFailed(results[i].outcome) \/ results[i].outcome = "okError"})
    BY DEF BatchInv, ResultsInv, FailedPlaces, Failing
  <2> QED
    BY <2>1, <2>2 DEF BatchInv, ResultsInv, StatsInv, BatchResults
<1> QED
  BY ReaderInvInit, CollectInit, BatchInit, <1>1, <1>2, PTL DEF JobSafety
=============================================================================
