-------------------------- MODULE CSVReaderProofs --------------------------
(***************************************************************************)
(* Proofs about the reader of CSVReader.tla, for any finite set of files,  *)
(* whatever they hold, any capacity of recordCh and both flags.            *)
(***************************************************************************)
EXTENDS CSVReader, SequenceTheorems, FiniteSetTheorems, TLAPS

Record == Files \X (Nat \ {0})
Error == [file : Files, kind : Kinds]

\* A file has rows of the kinds there are, and how many is a number.
LEMMA RowsType ==
  ASSUME TypeOK, NEW f \in Files
  PROVE  /\ Rows(f) \in Seq(RowKinds) /\ Len(Rows(f)) \in Nat
         /\ content[f].open \in {"ok", "missing", "unreadable", "empty"}
         /\ \A i \in 1 .. Len(Rows(f)) : Rows(f)[i] \in RowKinds
<1>1. content[f] \in [open : {"ok", "missing", "unreadable", "empty"}, rows : Seq(RowKinds)]
  BY ContentsAssumption DEF TypeOK
<1> QED
  BY <1>1, LenProperties, ElementOfSeq DEF Rows

LEMMA FirstLineIs == FirstLine \in {1, 2} /\ (FirstLine = 2 <=> HasHeader)
  BY DEF FirstLine

LEMMA FilesNumber == Cardinality(Files) \in Nat
  BY FilesAssumption, FS_CardinalityType

-----------------------------------------------------------------------------
(* Types, and how far each goroutine has read.                             *)

Early == {"none", "open", "header"}

\* How many rows a goroutine has read, and sent, follows from where it is; it has
\* an error exactly when it reports one or has reported one.
LinesMatch ==
    \A f \in Files :
        /\ rpc[f] \in Early => line[f] = 0 /\ sent[f] = 0
        /\ rpc[f] = "header" => HasHeader
        /\ rpc[f] \in {"loop", "validate"} => line[f] = FirstLine - 1 + sent[f]
        /\ rpc[f] = "send" => line[f] = FirstLine + sent[f]
        /\ rpc[f] = "validate" => HasHeader /\ ValidateHeader /\ line[f] = Len(Rows(f))
        /\ rpc[f] = "done" /\ rerr[f] = "nil" =>
             line[f] = FirstLine - 1 + sent[f] /\ line[f] = Len(Rows(f))
        /\ rpc[f] = "report" => rerr[f] # "nil"
        /\ rpc[f] \notin {"report", "done"} => rerr[f] = "nil"
        /\ rcloser = "none" <=> rpc[f] = "none"

TypeInv == TypeOK /\ LinesMatch

LEMMA TypeInit == Init => TypeInv
<1> SUFFICES ASSUME Init PROVE TypeInv
  OBVIOUS
<1>1. /\ recordCh \in Seq(Record) /\ Len(recordCh) = 0
      /\ errCh \in Seq(Error) /\ Len(errCh) = 0
  BY EmptySeq DEF Init
<1>2. {recordClosed, errClosed, ctxDone} \subseteq BOOLEAN
  BY DEF Init
<1>3. Len(recordCh) <= RecordCap /\ Len(errCh) <= Cardinality(Files)
  BY <1>1, RecordCapAssumption, FilesNumber
<1>4. TypeOK
  BY <1>1, <1>2, <1>3 DEF Init, TypeOK, Record, Error
<1>5. LinesMatch
  BY DEF Init, LinesMatch, Early
<1> QED
  BY <1>4, <1>5 DEF TypeInv

RPc == {"none", "open", "header", "loop", "send", "validate", "report", "done"}

\* A goroutine's step that leaves the channels alone moves it, and counts a row or
\* notes an error or neither.
LEMMA LocalType ==
  ASSUME TypeInv, NEW f \in Files, NEW pc \in RPc, NEW n \in Nat, NEW e \in Kinds \cup {"nil"},
         rpc' = [rpc EXCEPT ![f] = pc], line' = [line EXCEPT ![f] = n],
         rerr' = [rerr EXCEPT ![f] = e],
         UNCHANGED <<content, sent, chanVars, envVars>>,
         commonHeader' \in RowKinds \cup {NoHeader},
         rpc[f] # "none" /\ pc # "none",
         pc \in Early => n = 0 /\ sent[f] = 0,
         pc = "header" => HasHeader,
         pc \in {"loop", "validate"} => n = FirstLine - 1 + sent[f],
         pc = "send" => n = FirstLine + sent[f],
         pc = "validate" => HasHeader /\ ValidateHeader /\ n = Len(Rows(f)),
         pc = "done" /\ e = "nil" => n = FirstLine - 1 + sent[f] /\ n = Len(Rows(f)),
         pc = "report" => e # "nil",
         pc \notin {"report", "done"} => e = "nil"
  PROVE  TypeInv'
<1>1. TypeOK'
  BY DEF TypeInv, TypeOK, RPc, chanVars, envVars
<1>2. \A g \in Files : Rows(g)' = Rows(g)
  BY DEF Rows
<1>3. /\ rpc'[f] = pc /\ line'[f] = n /\ rerr'[f] = e /\ sent' = sent
      /\ \A g \in Files \ {f} : rpc'[g] = rpc[g] /\ line'[g] = line[g] /\ rerr'[g] = rerr[g]
  BY DEF TypeInv, TypeOK
<1>4. LinesMatch'
  BY <1>2, <1>3 DEF TypeInv, LinesMatch, FirstLine, Early, chanVars
<1> QED
  BY <1>1, <1>4 DEF TypeInv

LEMMA LocalStepType ==
  ASSUME TypeInv, NEW f \in Files, UNCHANGED envVars,
         OpenFile(f) \/ ReadHeader(f) \/ LoopCanceled(f) \/ EndOfFile(f) \/ ReadRow(f)
           \/ SendCanceled(f) \/ CheckHeader(f)
  PROVE  TypeInv'
<1>t. /\ line[f] \in Nat /\ sent[f] \in Nat /\ rerr[f] \in Kinds \cup {"nil"}
      /\ line = [line EXCEPT ![f] = line[f]] /\ rerr = [rerr EXCEPT ![f] = rerr[f]]
      /\ commonHeader \in RowKinds \cup {NoHeader}
  BY DEF TypeInv, TypeOK
<1>f. FirstLine \in {1, 2} /\ (FirstLine = 2 <=> HasHeader)
  BY FirstLineIs
<1>l. ASSUME rpc[f] \notin {"report", "done"} PROVE rerr[f] = "nil"
  BY <1>l DEF TypeInv, LinesMatch
<1>k. Kinds \cup {"nil"} = {"not_found", "open", "empty", "read_header", "bad_header",
                           "read_record", "canceled", "header_mismatch", "nil"}
  BY DEF Kinds
\* A failing step, whatever row it read.
<1>a. ASSUME NEW n \in Nat, NEW kind \in Kinds, Fail(f, kind), line' = [line EXCEPT ![f] = n],
             UNCHANGED <<content, sent, chanVars>>, rpc[f] # "none",
             commonHeader' \in RowKinds \cup {NoHeader}
      PROVE  TypeInv'
  <2>1. rpc' = [rpc EXCEPT ![f] = "report"] /\ rerr' = [rerr EXCEPT ![f] = kind] /\ kind # "nil"
    BY <1>a DEF Fail, Kinds
  <2> QED
    BY <1>a, <2>1, LocalType DEF RPc, Early
\* One that goes on.
<1>b. ASSUME NEW n \in Nat, NEW pc \in {"header", "loop", "send", "validate", "done"},
             Goto(f, pc), rpc[f] \notin {"none", "report", "done"}, line' = [line EXCEPT ![f] = n],
             UNCHANGED <<content, sent, chanVars>>,
             commonHeader' \in RowKinds \cup {NoHeader},
             pc = "header" => HasHeader /\ n = 0 /\ sent[f] = 0,
             pc = "send" => n = FirstLine + sent[f],
             pc \in {"loop", "validate", "done"} => n = FirstLine - 1 + sent[f],
             pc = "validate" => HasHeader /\ ValidateHeader,
             pc \in {"validate", "done"} => n = Len(Rows(f))
      PROVE  TypeInv'
  <2>1. rpc' = [rpc EXCEPT ![f] = pc] /\ rerr' = [rerr EXCEPT ![f] = "nil"]
    BY <1>b, <1>l, <1>t DEF Goto
  <2>2. pc \in RPc /\ "nil" \in Kinds \cup {"nil"}
    BY DEF RPc
  <2> QED
    BY <1>b, <2>1, <2>2, LocalType DEF Early
<1>1. CASE OpenFile(f)
  <2>1. /\ rpc[f] = "open" /\ line' = [line EXCEPT ![f] = 0] /\ sent[f] = 0 /\ commonHeader' = commonHeader
        /\ UNCHANGED <<content, sent, chanVars>>
    BY <1>1, <1>t DEF OpenFile, Local, TypeInv, LinesMatch, Early
  <2>2. \/ \E kind \in Kinds : Fail(f, kind)
        \/ Goto(f, IF HasHeader THEN "header" ELSE "loop")
    BY <1>1, RowsType DEF OpenFile, Kinds, TypeInv
  <2>3. CASE \E kind \in Kinds : Fail(f, kind)
    BY <1>a, <1>t, <2>1, <2>3
  <2>4. CASE HasHeader /\ Goto(f, "header")
    BY <1>b, <1>t, <2>1, <2>4
  <2>5. CASE ~HasHeader /\ Goto(f, "loop")
    <3>1. 0 = FirstLine - 1 + sent[f] /\ 0 \in Nat
      BY <1>f, <2>1, <2>5
    <3> QED
      BY <1>b, <2>1, <2>5, <1>t, <3>1
  <2> QED
    BY <2>2, <2>3, <2>4, <2>5
<1>2. CASE ReadHeader(f)
  <2>1. /\ rpc[f] = "header" /\ HasHeader /\ sent[f] = 0 /\ commonHeader' = commonHeader
        /\ UNCHANGED <<content, sent, chanVars>>
    BY <1>2 DEF ReadHeader, Local, TypeInv, LinesMatch, Early
  <2>2. \/ /\ line' = line \/ line' = [line EXCEPT ![f] = 1]
           /\ \E kind \in Kinds : Fail(f, kind)
        \/ line' = [line EXCEPT ![f] = 1] /\ Goto(f, "loop")
    BY <1>2 DEF ReadHeader, Kinds
  <2>3. CASE (line' = line \/ line' = [line EXCEPT ![f] = 1]) /\ \E kind \in Kinds : Fail(f, kind)
    BY <1>a, <1>t, <2>1, <2>3
  <2>4. CASE line' = [line EXCEPT ![f] = 1] /\ Goto(f, "loop")
    <3>1. 1 = FirstLine - 1 + sent[f] /\ 1 \in Nat
      BY <1>f, <2>1
    <3> QED
      BY <1>b, <2>1, <2>4, <1>t, <3>1
  <2> QED
    BY <2>2, <2>3, <2>4
<1>3. CASE LoopCanceled(f) \/ SendCanceled(f)
  BY <1>a, <1>t, <1>3 DEF LoopCanceled, SendCanceled, Local, Kinds
<1>4. CASE EndOfFile(f)
  <2>1. /\ rpc[f] = "loop" /\ line[f] = Len(Rows(f)) /\ line[f] = FirstLine - 1 + sent[f]
        /\ line' = [line EXCEPT ![f] = line[f]] /\ commonHeader' = commonHeader
        /\ UNCHANGED <<content, sent, chanVars>>
    BY <1>4, <1>t DEF EndOfFile, Local, TypeInv, LinesMatch
  <2>2. CASE HasHeader /\ ValidateHeader
    BY <1>4, <1>b, <1>t, <2>1, <2>2 DEF EndOfFile
  <2>3. CASE ~(HasHeader /\ ValidateHeader)
    BY <1>4, <1>b, <1>t, <2>1, <2>3 DEF EndOfFile
  <2> QED
    BY <2>2, <2>3
<1>5. CASE ReadRow(f)
  <2>1. /\ rpc[f] = "loop" /\ line[f] = FirstLine - 1 + sent[f] /\ commonHeader' = commonHeader
        /\ UNCHANGED <<content, sent, chanVars>>
    BY <1>5 DEF ReadRow, Local, TypeInv, LinesMatch
  <2>2. \/ Fail(f, "read_record") /\ line' = line
        \/ line' = [line EXCEPT ![f] = line[f] + 1] /\ Goto(f, "send")
    BY <1>5, <1>t DEF ReadRow
  <2>3. CASE Fail(f, "read_record") /\ line' = line
    BY <1>a, <1>t, <2>1, <2>3 DEF Kinds
  <2>4. CASE line' = [line EXCEPT ![f] = line[f] + 1] /\ Goto(f, "send")
    <3>1. line[f] + 1 \in Nat /\ line[f] + 1 = FirstLine + sent[f]
      BY <1>t, <1>f, <2>1
    <3> QED
      BY <1>b, <1>t, <2>1, <2>4, <3>1
  <2> QED
    BY <2>2, <2>3, <2>4
<1>6. CASE CheckHeader(f)
  <2>1. /\ rpc[f] = "validate" /\ line[f] = Len(Rows(f)) /\ line[f] = FirstLine - 1 + sent[f]
        /\ HasHeader /\ line' = [line EXCEPT ![f] = line[f]]
        /\ UNCHANGED <<content, sent, chanVars>>
    BY <1>6, <1>t DEF CheckHeader, CompareHeader, TypeInv, LinesMatch
  <2>2. HeaderOf(f) \in RowKinds
    <3>1. FirstLine = 2 /\ sent[f] \in Nat /\ Len(Rows(f)) \in Nat
      BY <1>t, <1>f, <2>1, RowsType DEF TypeInv
    <3>2. Len(Rows(f)) >= 1
      BY <2>1, <3>1
    <3>3. 1 \in 1 .. Len(Rows(f))
      BY <3>1, <3>2
    <3> QED
      BY <3>3, RowsType DEF HeaderOf, TypeInv
  <2>3. commonHeader' \in RowKinds \cup {NoHeader}
    BY <1>6, <1>t, <2>2 DEF CheckHeader, CompareHeader
  <2>4. Goto(f, "done") \/ Fail(f, "header_mismatch")
    BY <1>6 DEF CheckHeader, CompareHeader
  <2>5. CASE Goto(f, "done")
    BY <1>b, <1>t, <2>1, <2>3, <2>5
  <2>6. CASE Fail(f, "header_mismatch")
    BY <1>a, <1>t, <2>1, <2>3, <2>6 DEF Kinds
  <2> QED
    BY <2>4, <2>5, <2>6
<1> QED
  BY <1>1, <1>2, <1>3, <1>4, <1>5, <1>6

LEMMA TypeStep == TypeInv /\ [Next]_vars => TypeInv'
<1> SUFFICES ASSUME TypeInv, [Next]_vars PROVE TypeInv'
  OBVIOUS
<1>t. /\ recordCh \in Seq(Record) /\ Len(recordCh) \in Nat /\ Len(recordCh) <= RecordCap
      /\ errCh \in Seq(Error) /\ Len(errCh) \in Nat /\ Len(errCh) <= Cardinality(Files)
      /\ RecordCap \in Nat /\ Cardinality(Files) \in Nat
  BY LenProperties, RecordCapAssumption, FilesNumber DEF TypeInv, TypeOK, Record, Error
<1>f. FirstLine \in {1, 2}
  BY FirstLineIs
\* Where nothing changes that LinesMatch speaks of.
<1>a. ASSUME TypeOK', UNCHANGED fileVars, rcloser = "none" <=> rcloser' = "none" PROVE TypeInv'
  BY <1>a DEF TypeInv, LinesMatch, fileVars, Rows, FirstLine, Early
<1>1. ASSUME Read, UNCHANGED envVars PROVE TypeInv'
  <2>1. TypeOK'
    BY <1>1 DEF Read, envVars, TypeInv, TypeOK
  <2>2. \A f \in Files : rpc[f] = "none" /\ rpc'[f] = "open"
    BY <1>1 DEF Read, TypeInv, LinesMatch
  <2>3. LinesMatch'
    BY <1>1, <2>2 DEF Read, TypeInv, LinesMatch, Rows, FirstLine, Early
  <2> QED
    BY <2>1, <2>3 DEF TypeInv
<1>2. ASSUME CloserStep, UNCHANGED envVars PROVE TypeInv'
  <2>1. UNCHANGED fileVars /\ (rcloser = "none" <=> rcloser' = "none")
    BY <1>2 DEF CloserStep, CloseRecords, CloseAfter, CloseErrs
  <2>2. TypeOK'
    BY <1>2 DEF CloserStep, CloseRecords, CloseAfter, CloseErrs, envVars, fileVars, TypeInv, TypeOK
  <2> QED
    BY <1>a, <2>1, <2>2
<1>3. ASSUME NEW f \in Files, UNCHANGED envVars,
             OpenFile(f) \/ ReadHeader(f) \/ LoopCanceled(f) \/ EndOfFile(f) \/ ReadRow(f)
               \/ SendCanceled(f) \/ CheckHeader(f)
      PROVE  TypeInv'
  BY <1>3, LocalStepType
<1>4. ASSUME NEW f \in Files, SendRecord(f), UNCHANGED envVars PROVE TypeInv'
  <2>1. /\ rpc[f] = "send" /\ rpc' = [rpc EXCEPT ![f] = "loop"] /\ Len(recordCh) < RecordCap
        /\ recordCh' = Append(recordCh, <<f, line[f]>>) /\ sent' = [sent EXCEPT ![f] = @ + 1]
        /\ UNCHANGED <<content, line, rerr, commonHeader, recordClosed, errCh, errClosed,
                       rcloser, envVars>>
    BY <1>4 DEF SendRecord, PutRecord, Goto
  <2>2. line[f] = FirstLine + sent[f] /\ sent[f] \in Nat
    BY <2>1 DEF TypeInv, TypeOK, LinesMatch
  <2>3. <<f, line[f]>> \in Record
    BY <1>f, <2>2 DEF Record
  <2>4. recordCh' \in Seq(Record) /\ Len(recordCh') <= RecordCap
    BY <1>t, <2>1, <2>3, AppendProperties
  <2>5. TypeOK'
    BY <2>1, <2>2, <2>4 DEF TypeInv, TypeOK, Record, envVars
  <2>a. rerr[f] = "nil"
    BY <2>1 DEF TypeInv, LinesMatch
  <2>b. sent'[f] = sent[f] + 1
    BY <2>1 DEF TypeInv, TypeOK
  <2>c. line[f] = FirstLine - 1 + (sent[f] + 1)
    BY <1>f, <2>2
  <2>6. rerr[f] = "nil" /\ sent'[f] = sent[f] + 1 /\ line[f] = FirstLine - 1 + (sent[f] + 1)
    BY <2>a, <2>b, <2>c
  <2>7. LinesMatch'
    BY <2>1, <2>6 DEF TypeInv, TypeOK, LinesMatch, Rows, FirstLine, Early
  <2> QED
    BY <2>5, <2>7 DEF TypeInv
<1>5. ASSUME NEW f \in Files, ReportError(f), UNCHANGED envVars PROVE TypeInv'
  <2> DEFINE e == [file |-> f, kind |-> rerr[f]]
  <2>1. /\ rpc[f] = "report" /\ rpc' = [rpc EXCEPT ![f] = "done"]
        /\ Len(errCh) < Cardinality(Files) /\ errCh' = Append(errCh, e)
        /\ UNCHANGED <<content, line, rerr, commonHeader, sent, recordCh, recordClosed,
                       errClosed, rcloser, envVars>>
    BY <1>5 DEF ReportError, PutError
  <2>2. rerr[f] # "nil" /\ e \in Error
    BY <2>1 DEF TypeInv, TypeOK, LinesMatch, Error
  <2> HIDE DEF e
  <2>3. errCh' \in Seq(Error) /\ Len(errCh') <= Cardinality(Files)
    BY <1>t, <2>1, <2>2, AppendProperties
  <2>4. TypeOK'
    BY <2>1, <2>3 DEF TypeInv, TypeOK, Error, envVars
  <2>5. LinesMatch'
    BY <2>1, <2>2 DEF TypeInv, TypeOK, LinesMatch, Rows, FirstLine, Early
  <2> QED
    BY <2>4, <2>5 DEF TypeInv
<1>6. CASE ReceiveRecord
  <2>1. /\ recordCh # <<>> /\ recordCh' = Tail(recordCh)
        /\ taken' = [taken EXCEPT ![Head(recordCh)[1]] = @ + 1]
        /\ UNCHANGED <<fileVars, recordClosed, errCh, errClosed, rcloser, ctxDone, reported>>
    BY <1>6 DEF ReceiveRecord
  <2>2. /\ recordCh' \in Seq(Record) /\ Len(recordCh') <= RecordCap
        /\ Head(recordCh)[1] \in Files
    BY <1>t, <2>1, HeadTailProperties DEF Record
  <2>a. taken' \in [Files -> Nat]
    <3> DEFINE h == Head(recordCh)[1]
    <3>1. h \in Files /\ taken \in [Files -> Nat] /\ taken' = [taken EXCEPT ![h] = @ + 1]
      BY <2>1, <2>2 DEF TypeInv, TypeOK
    <3> HIDE DEF h
    <3> QED
      BY <3>1
  <2>3. TypeOK'
    BY <2>1, <2>2, <2>a DEF TypeInv, TypeOK, Record, fileVars
  <2> QED
    BY <1>a, <2>1, <2>3
<1>7. CASE ReceiveError
  <2>1. /\ errCh # <<>> /\ errCh' = Tail(errCh) /\ reported' = reported \cup {Head(errCh)}
        /\ UNCHANGED <<fileVars, recordCh, recordClosed, errClosed, rcloser, ctxDone, taken>>
    BY <1>7 DEF ReceiveError
  <2>2. /\ errCh' \in Seq(Error) /\ Len(errCh') <= Cardinality(Files) /\ Head(errCh) \in Error
    BY <1>t, <2>1, HeadTailProperties
  <2>3. TypeOK'
    BY <2>1, <2>2 DEF TypeInv, TypeOK, Error, fileVars
  <2> QED
    BY <1>a, <2>1, <2>3
<1>8. CASE Cancel
  BY <1>8, <1>a DEF Cancel, TypeInv, TypeOK, fileVars, chanVars
<1>9. CASE UNCHANGED vars
  BY <1>9, <1>a DEF vars, readerVars, envVars, fileVars, chanVars, TypeInv, TypeOK
<1> QED
  BY <1>1, <1>2, <1>3, <1>4, <1>5, <1>6, <1>7, <1>8, <1>9
  DEF Next, ReaderStep, EnvStep, FileStep, Terminated

-----------------------------------------------------------------------------
(* The order of records.                                                   *)

LEMMA OrderInit == Init => InOrder
<1> SUFFICES ASSUME Init PROVE InOrder
  OBVIOUS
<1>1. DOMAIN recordCh = {}
  BY EmptySeq DEF Init
<1>2. \A f \in Files : Waiting(f) = {} /\ taken[f] = 0 /\ sent[f] = 0
  BY <1>1 DEF Init, Waiting
<1>3. FirstLine + 0 .. FirstLine + 0 - 1 = {}
  BY FirstLineIs
<1> QED
  BY <1>2, <1>3 DEF InOrder

\* A record of f goes to the end of the channel: it has the next line of f.
LEMMA OrderSends ==
  ASSUME TypeInv, InOrder, NEW f \in Files, SendRecord(f), UNCHANGED envVars
  PROVE  InOrder'
<1> DEFINE n == Len(recordCh)
<1>1. /\ rpc[f] = "send" /\ recordCh' = Append(recordCh, <<f, line[f]>>)
      /\ sent' = [sent EXCEPT ![f] = @ + 1] /\ UNCHANGED taken
  BY DEF SendRecord, PutRecord, envVars
<1>2. /\ line[f] = FirstLine + sent[f] /\ sent \in [Files -> Nat] /\ taken \in [Files -> Nat]
      /\ recordCh \in Seq(Record) /\ n \in Nat /\ DOMAIN recordCh = 1 .. n
  BY <1>1, LenProperties DEF TypeInv, TypeOK, LinesMatch, Record
<1>f. FirstLine \in Nat /\ FirstLine' = FirstLine
  BY FirstLineIs DEF FirstLine
<1>3. <<f, line[f]>> \in Record
  BY <1>2, FirstLineIs DEF Record
<1>4. /\ DOMAIN recordCh' = 1 .. n + 1 /\ recordCh'[n + 1] = <<f, line[f]>>
      /\ \A i \in 1 .. n : recordCh'[i] = recordCh[i]
  BY <1>1, <1>2, <1>3, AppendProperties, LenProperties
<1>5. \A i \in 1 .. n : recordCh[i][1] \in Files /\ recordCh[i][2] \in Nat
  BY <1>2, ElementOfSeq DEF Record
<1>6. \A g \in Files \ {f} : Waiting(g)' = Waiting(g)
  BY <1>2, <1>4, <1>5 DEF Waiting
<1>7. Waiting(f)' = Waiting(f) \cup {n + 1} /\ Waiting(f) \subseteq 1 .. n
  BY <1>2, <1>4, <1>5 DEF Waiting
<1>8. ASSUME NEW g \in Files, g # f
      PROVE  /\ taken'[g] <= sent'[g]
             /\ {recordCh'[i][2] : i \in Waiting(g)'} = FirstLine + taken'[g] .. FirstLine + sent'[g] - 1
             /\ \A i, j \in Waiting(g)' : i < j => recordCh'[i][2] < recordCh'[j][2]
  <2>1. Waiting(g) \subseteq 1 .. n /\ Waiting(g)' = Waiting(g) /\ sent'[g] = sent[g] /\ taken'[g] = taken[g]
    BY <1>1, <1>2, <1>6, <1>8 DEF Waiting
  <2>2. \A i \in Waiting(g) : recordCh'[i] = recordCh[i]
    BY <1>4, <2>1
  <2>3. {recordCh'[i][2] : i \in Waiting(g)'} = {recordCh[i][2] : i \in Waiting(g)}
    BY <2>1, <2>2
  <2> QED
    BY <2>1, <2>2, <2>3 DEF InOrder
<1>9. taken'[f] <= sent'[f] /\ sent'[f] = sent[f] + 1 /\ taken'[f] = taken[f] /\ taken[f] <= sent[f]
  BY <1>1, <1>2 DEF InOrder
<1>10. /\ {recordCh[i][2] : i \in Waiting(f)} = FirstLine + taken[f] .. FirstLine + sent[f] - 1
       /\ \A i, j \in Waiting(f) : i < j => recordCh[i][2] < recordCh[j][2]
  BY DEF InOrder
<1>11. \A i \in Waiting(f) : recordCh'[i] = recordCh[i] /\ recordCh[i][2] < line[f]
  <2>1. \A i \in Waiting(f) : recordCh[i][2] \in FirstLine + taken[f] .. FirstLine + sent[f] - 1
    BY <1>10
  <2> QED
    BY <1>2, <1>4, <1>7, <1>f, <2>1
<1>12. {recordCh'[i][2] : i \in Waiting(f)'} = {recordCh[i][2] : i \in Waiting(f)} \cup {line[f]}
  BY <1>4, <1>7, <1>11
<1>13. {recordCh'[i][2] : i \in Waiting(f)'} = FirstLine + taken'[f] .. FirstLine + sent'[f] - 1
  <2>1. \A F, a, b \in Nat : a <= b => (F + a .. F + b - 1) \cup {F + b} = F + a .. F + (b + 1) - 1
    OBVIOUS
  <2>2. taken[f] \in Nat /\ sent[f] \in Nat
    BY <1>2
  <2>3. (FirstLine + taken[f] .. FirstLine + sent[f] - 1) \cup {FirstLine + sent[f]}
          = FirstLine + taken[f] .. FirstLine + (sent[f] + 1) - 1
    BY <2>1, <2>2, <1>9, <1>f
  <2> QED
    BY <1>2, <1>9, <1>10, <1>12, <2>3
<1>14. \A i, j \in Waiting(f)' : i < j => recordCh'[i][2] < recordCh'[j][2]
  BY <1>2, <1>4, <1>7, <1>10, <1>11
<1> QED
  BY <1>8, <1>9, <1>13, <1>14, <1>f DEF InOrder

\* The head of the channel is the first line of its file not yet taken; the places
\* of every file move up by one.
LEMMA OrderTakes == TypeInv /\ InOrder /\ ReceiveRecord => InOrder'
<1> SUFFICES ASSUME TypeInv, InOrder, ReceiveRecord PROVE InOrder'
  OBVIOUS
<1> DEFINE n == Len(recordCh)
<1>0. PICK f \in Files : f = Head(recordCh)[1]
  <2>1. recordCh # <<>> /\ recordCh \in Seq(Record)
    BY DEF ReceiveRecord, TypeInv, TypeOK, Record
  <2> QED
    BY <2>1, HeadTailProperties DEF Record
<1>1. /\ recordCh # <<>> /\ recordCh \in Seq(Record) /\ sent \in [Files -> Nat] /\ taken \in [Files -> Nat]
      /\ recordCh' = Tail(recordCh) /\ taken' = [taken EXCEPT ![f] = @ + 1] /\ UNCHANGED sent
  BY <1>0 DEF ReceiveRecord, TypeInv, TypeOK, Record, fileVars
<1>2. /\ n \in Nat /\ n >= 1 /\ DOMAIN recordCh = 1 .. n /\ Head(recordCh) = recordCh[1]
      /\ recordCh' \in Seq(Record) /\ DOMAIN recordCh' = 1 .. n - 1
      /\ \A i \in 1 .. n - 1 : recordCh'[i] = recordCh[i + 1]
  <2>1. n \in Nat /\ n # 0 /\ DOMAIN recordCh = 1 .. n
    BY <1>1, LenProperties, EmptySeq
  <2>2. /\ Head(recordCh) = recordCh[1] /\ recordCh' \in Seq(Record) /\ Len(recordCh') = n - 1
        /\ \A i \in 1 .. n - 1 : recordCh'[i] = recordCh[i + 1]
    BY <1>1, HeadTailProperties
  <2>3. DOMAIN recordCh' = 1 .. n - 1
    BY <2>2, LenProperties
  <2> QED
    BY <2>1, <2>2, <2>3
<1>3. \A i \in 1 .. n : recordCh[i][1] \in Files /\ recordCh[i][2] \in Nat
  BY <1>1, ElementOfSeq DEF Record
<1>f. FirstLine \in Nat /\ FirstLine' = FirstLine
  BY FirstLineIs DEF FirstLine
<1>4. f = recordCh[1][1] /\ 1 \in 1 .. n
  BY <1>0, <1>2
<1> HIDE DEF n
<1>5. \A g \in Files : /\ Waiting(g) = {i \in 1 .. n : recordCh[i][1] = g}
                       /\ Waiting(g)' = {i \in 1 .. n - 1 : recordCh[i + 1][1] = g}
  BY <1>2 DEF Waiting
<1>6. \A g \in Files : \A i \in Waiting(g)' : i + 1 \in Waiting(g) /\ recordCh'[i] = recordCh[i + 1]
  BY <1>2, <1>5
<1>7. \A g \in Files : \A i \in Waiting(g) : i # 1 => i - 1 \in Waiting(g)' /\ recordCh'[i - 1] = recordCh[i]
  BY <1>2, <1>5
<1>8. 1 \in Waiting(f) /\ \A g \in Files \ {f} : 1 \notin Waiting(g)
  BY <1>4, <1>5
<1>9. \A g \in Files : \A i, j \in Waiting(g)' : i < j => recordCh'[i][2] < recordCh'[j][2]
  <2> SUFFICES ASSUME NEW g \in Files, NEW i \in Waiting(g)', NEW j \in Waiting(g)', i < j
               PROVE  recordCh'[i][2] < recordCh'[j][2]
    OBVIOUS
  <2>1. i \in 1 .. n - 1 /\ j \in 1 .. n - 1
    BY <1>5
  <2>2. i + 1 < j + 1
    BY <1>2, <2>1
  <2>3. /\ i + 1 \in Waiting(g) /\ recordCh'[i] = recordCh[i + 1]
        /\ j + 1 \in Waiting(g) /\ recordCh'[j] = recordCh[j + 1]
    BY <1>6
  <2>4. recordCh[i + 1][2] < recordCh[j + 1][2]
    BY <2>2, <2>3 DEF InOrder
  <2> QED
    BY <2>3, <2>4
<1>10. ASSUME NEW g \in Files \ {f}
       PROVE  /\ taken'[g] <= sent'[g]
              /\ {recordCh'[i][2] : i \in Waiting(g)'} = FirstLine + taken'[g] .. FirstLine + sent'[g] - 1
  <2>1. taken'[g] = taken[g] /\ sent'[g] = sent[g]
    BY <1>1, <1>4
  <2>2. {recordCh'[i][2] : i \in Waiting(g)'} = {recordCh[i][2] : i \in Waiting(g)}
    <3>1. ASSUME NEW v \in {recordCh'[i][2] : i \in Waiting(g)'} PROVE v \in {recordCh[i][2] : i \in Waiting(g)}
      BY <1>6
    <3>2. ASSUME NEW v \in {recordCh[i][2] : i \in Waiting(g)} PROVE v \in {recordCh'[i][2] : i \in Waiting(g)'}
      BY <1>7, <1>8
    <3> QED
      BY <3>1, <3>2
  <2> QED
    BY <2>1, <2>2 DEF InOrder
<1>11. /\ taken[f] \in Nat /\ sent[f] \in Nat /\ taken'[f] = taken[f] + 1 /\ sent'[f] = sent[f]
       /\ taken[f] <= sent[f]
       /\ {recordCh[i][2] : i \in Waiting(f)} = FirstLine + taken[f] .. FirstLine + sent[f] - 1
       /\ \A i, j \in Waiting(f) : i < j => recordCh[i][2] < recordCh[j][2]
  BY <1>1, <1>4 DEF InOrder
<1> DEFINE v == recordCh[1][2]
<1>12. /\ v \in FirstLine + taken[f] .. FirstLine + sent[f] - 1
       /\ \A i \in Waiting(f) : i # 1 => v < recordCh[i][2]
  <2>1. v \in {recordCh[i][2] : i \in Waiting(f)}
    BY <1>8
  <2>2. \A i \in Waiting(f) : i # 1 => 1 < i
    BY <1>2, <1>4, <1>5
  <2> QED
    BY <1>8, <1>11, <2>1, <2>2
<1>13. v = FirstLine + taken[f] /\ taken[f] < sent[f]
  <2>1. taken[f] < sent[f]
    BY <1>f, <1>11, <1>12
  <2>2. FirstLine + taken[f] \in FirstLine + taken[f] .. FirstLine + sent[f] - 1
    BY <1>f, <1>11, <2>1
  <2>3. PICK i \in Waiting(f) : recordCh[i][2] = FirstLine + taken[f]
    BY <1>11, <2>2
  <2>4. i = 1
    BY <1>f, <1>11, <1>12, <2>3
  <2> QED
    BY <2>1, <2>3, <2>4
<1>14. {recordCh'[i][2] : i \in Waiting(f)'} = {recordCh[i][2] : i \in Waiting(f)} \ {v}
  <2>1. ASSUME NEW w \in {recordCh'[i][2] : i \in Waiting(f)'}
        PROVE  w \in {recordCh[i][2] : i \in Waiting(f)} \ {v}
    <3>1. PICK i \in Waiting(f)' : w = recordCh'[i][2]
      OBVIOUS
    <3>a. i \in 1 .. n - 1
      BY <1>4, <1>5
    <3>b. i + 1 # 1
      BY <1>2, <3>a
    <3>2. i + 1 \in Waiting(f) /\ w = recordCh[i + 1][2] /\ i + 1 # 1
      BY <1>4, <1>6, <3>1, <3>b
    <3>3. v < w
      BY <1>12, <3>2
    <3>4. v # w
      BY <1>3, <1>4, <1>f, <1>11, <1>13, <3>3
    <3> QED
      BY <3>2, <3>4
  <2>2. ASSUME NEW w \in {recordCh[i][2] : i \in Waiting(f)} \ {v}
        PROVE  w \in {recordCh'[i][2] : i \in Waiting(f)'}
    <3>1. PICK i \in Waiting(f) : w = recordCh[i][2] /\ i # 1
      OBVIOUS
    <3>2. i - 1 \in Waiting(f)' /\ recordCh'[i - 1] = recordCh[i]
      BY <1>4, <1>7, <3>1
    <3> QED
      BY <3>1, <3>2
  <2> QED
    BY <2>1, <2>2
<1>15. {recordCh'[i][2] : i \in Waiting(f)'} = FirstLine + taken'[f] .. FirstLine + sent'[f] - 1
  <2>1. \A F, a, b \in Nat : a < b => (F + a .. F + b - 1) \ {F + a} = F + (a + 1) .. F + b - 1
    OBVIOUS
  <2>2. (FirstLine + taken[f] .. FirstLine + sent[f] - 1) \ {FirstLine + taken[f]}
          = FirstLine + (taken[f] + 1) .. FirstLine + sent[f] - 1
    BY <2>1, <1>11, <1>13, <1>f
  <2> QED
    BY <1>11, <1>13, <1>14, <2>2
<1>16. taken'[f] <= sent'[f]
  BY <1>11, <1>13
<1>17. FirstLine' + taken'[f] .. FirstLine' + sent'[f] - 1 = FirstLine + taken'[f] .. FirstLine + sent'[f] - 1
  BY <1>f
<1>18. \A g \in Files : taken'[g] <= sent'[g]
  BY <1>10, <1>16
<1>19. \A g \in Files : {recordCh'[i][2] : i \in Waiting(g)'} = FirstLine' + taken'[g] .. FirstLine' + sent'[g] - 1
  <2>1. ASSUME NEW g \in Files
        PROVE  {recordCh'[i][2] : i \in Waiting(g)'} = FirstLine' + taken'[g] .. FirstLine' + sent'[g] - 1
    <3>1. CASE g = f
      BY <3>1, <1>15, <1>17
    <3>2. CASE g # f
      BY <3>2, <1>10, <1>f
    <3> QED
      BY <3>1, <3>2
  <2> QED
    BY <2>1
<1> QED
  BY <1>9, <1>18, <1>19 DEF InOrder

LEMMA OrderStep == TypeInv /\ InOrder /\ [Next]_vars => InOrder'
<1> SUFFICES ASSUME TypeInv, InOrder, [Next]_vars PROVE InOrder'
  OBVIOUS
<1>1. ASSUME UNCHANGED <<recordCh, sent, taken>> PROVE InOrder'
  BY <1>1 DEF InOrder, Waiting, FirstLine
<1>2. ASSUME NEW f \in Files, FileStep(f), UNCHANGED envVars, ~SendRecord(f) PROVE InOrder'
  BY <1>1, <1>2 DEF FileStep, OpenFile, ReadHeader, LoopCanceled, EndOfFile, ReadRow, SendCanceled,
     CheckHeader, CompareHeader, ReportError, PutError, Local, chanVars, envVars
<1>3. ASSUME Read \/ CloserStep, UNCHANGED envVars PROVE InOrder'
  BY <1>1, <1>3 DEF Read, CloserStep, CloseRecords, CloseAfter, CloseErrs, fileVars, envVars
<1>4. CASE ReceiveError \/ Cancel \/ UNCHANGED vars
  BY <1>1, <1>4 DEF ReceiveError, Cancel, vars, readerVars, envVars, fileVars, chanVars
<1> QED
  BY <1>2, <1>3, <1>4, OrderSends, OrderTakes DEF Next, ReaderStep, EnvStep, Terminated

\* The variables of the reader and its environment keep their types, whatever the files hold.
THEOREM ReaderTypeCorrect == Safety => []TypeOK
<1>1. TypeInv /\ [Next]_vars => TypeInv'
  BY TypeStep
<1>2. TypeInv => TypeOK
  BY DEF TypeInv
<1> QED
  BY TypeInit, <1>1, <1>2, PTL DEF Safety

\* Each file's records leave recordCh in file order, none missing between two and none twice.
THEOREM OrderCorrect == Safety => []InOrder
<1>1. TypeInv /\ InOrder /\ [Next]_vars => TypeInv' /\ InOrder'
  BY TypeStep, OrderStep
<1> QED
  BY TypeInit, OrderInit, <1>1, PTL DEF Safety

-----------------------------------------------------------------------------
(* The errors.                                                             *)

\* The closer waits for every goroutine, then closes one channel after the other.
ReaderLife ==
    /\ recordClosed <=> rcloser \in {"closeErr", "done"}
    /\ errClosed <=> rcloser = "done"
    /\ recordClosed => \A f \in Files : rpc[f] = "done"

\* The errors in errCh and the errors received from it are those of the goroutines
\* that are done and failed; errCh holds none twice.
ErrorsMatch ==
    /\ \A e \in Errors : rpc[e.file] = "done" /\ rerr[e.file] = e.kind
    /\ \A f \in Files :
         rpc[f] = "done" /\ rerr[f] # "nil" => [file |-> f, kind |-> rerr[f]] \in Errors
    /\ \A i, j \in 1 .. Len(errCh) : errCh[i].file = errCh[j].file => i = j

ErrorsInv == ReaderLife /\ ErrorsMatch

LEMMA ErrorsInit == Init => ErrorsInv
<1> SUFFICES ASSUME Init PROVE ErrorsInv
  OBVIOUS
<1>1. Len(errCh) = 0 /\ 1 .. 0 = {}
  BY EmptySeq DEF Init
<1>2. Errors = {}
  BY <1>1 DEF Errors, Init
<1> QED
  BY <1>1, <1>2 DEF Init, ErrorsInv, ReaderLife, ErrorsMatch

LEMMA ErrorsType == TypeInv => Errors \subseteq Error
<1> SUFFICES ASSUME TypeInv PROVE Errors \subseteq Error
  OBVIOUS
<1>1. errCh \in Seq(Error) /\ reported \subseteq Error
  BY DEF TypeInv, TypeOK, Error
<1>2. \A i \in 1 .. Len(errCh) : errCh[i] \in Error
  BY <1>1, ElementOfSeq
<1> QED
  BY <1>1, <1>2 DEF Errors

\* A goroutine that reports its error adds it, and is done.
LEMMA ErrorsReport ==
  ASSUME TypeInv, ErrorsInv, NEW f \in Files, ReportError(f), UNCHANGED envVars
  PROVE  ErrorsInv'
<1> DEFINE e == [file |-> f, kind |-> rerr[f]]
           n == Len(errCh)
<1>1. /\ rpc[f] = "report" /\ rpc' = [rpc EXCEPT ![f] = "done"] /\ errCh' = Append(errCh, e)
      /\ UNCHANGED <<rerr, recordClosed, errClosed, rcloser, reported>>
  BY DEF ReportError, PutError, envVars
<1>2. e \in Error /\ e.file = f /\ e.kind = rerr[f] /\ rerr[f] # "nil"
  BY <1>1 DEF TypeInv, TypeOK, LinesMatch, Error
<1>3. errCh \in Seq(Error) /\ n \in Nat
  BY LenProperties DEF TypeInv, TypeOK, Error
<1> HIDE DEF e
<1>4. /\ Len(errCh') = n + 1 /\ errCh'[n + 1] = e
      /\ \A i \in 1 .. n : errCh'[i] = errCh[i]
  BY <1>1, <1>2, <1>3, AppendProperties
<1> HIDE DEF n
<1>5. Errors = reported \cup {errCh[i] : i \in 1 .. n}
  BY DEF Errors, n
<1>6. Errors' = Errors \cup {e}
  <2>1. Errors' = reported \cup {errCh'[i] : i \in 1 .. n + 1}
    BY <1>1, <1>4 DEF Errors
  <2>2. 1 .. n + 1 = (1 .. n) \cup {n + 1}
    BY <1>3
  <2>3. {errCh'[i] : i \in 1 .. n + 1} = {errCh[i] : i \in 1 .. n} \cup {e}
    BY <1>4, <2>2
  <2> QED
    BY <2>1, <2>3, <1>5
<1>7. \A x \in Errors : x.file # f
  BY <1>1 DEF ErrorsInv, ErrorsMatch
<1>8. ReaderLife'
  BY <1>1 DEF ErrorsInv, ReaderLife, TypeInv, TypeOK
<1>t. rpc \in [Files -> RPc] /\ Errors \subseteq Error
  BY ErrorsType DEF TypeInv, TypeOK, RPc
<1>9. \A x \in Errors' : rpc'[x.file] = "done" /\ rerr'[x.file] = x.kind
  <2>1. ASSUME NEW x \in Errors PROVE rpc'[x.file] = "done" /\ rerr'[x.file] = x.kind
    BY <1>1, <1>7, <1>t DEF ErrorsInv, ErrorsMatch, Error
  <2>2. rpc'[e.file] = "done" /\ rerr'[e.file] = e.kind
    BY <1>1, <1>2, <1>t
  <2> QED
    BY <2>1, <2>2, <1>6
<1>10. \A g \in Files : rpc'[g] = "done" /\ rerr'[g] # "nil" => [file |-> g, kind |-> rerr'[g]] \in Errors'
  <2>1. ASSUME NEW g \in Files \ {f}, rpc'[g] = "done", rerr'[g] # "nil"
        PROVE  [file |-> g, kind |-> rerr'[g]] \in Errors'
    BY <1>1, <1>6, <1>t, <2>1 DEF ErrorsInv, ErrorsMatch
  <2>2. [file |-> f, kind |-> rerr'[f]] \in Errors'
    BY <1>1, <1>6 DEF e
  <2> QED
    BY <2>1, <2>2
<1>11. \A i, j \in 1 .. Len(errCh') : errCh'[i].file = errCh'[j].file => i = j
  <2>1. \A i \in 1 .. n : errCh[i] \in Errors
    BY <1>5
  <2>2. \A i \in 1 .. n : errCh'[i].file # f
    BY <1>4, <1>7, <2>1
  <2>3. errCh'[n + 1].file = f
    BY <1>2, <1>4
  <2>4. \A i, j \in 1 .. n : errCh[i].file = errCh[j].file => i = j
    BY DEF ErrorsInv, ErrorsMatch, n
  <2>5. \A i \in 1 .. Len(errCh') : i \in 1 .. n \/ i = n + 1
    BY <1>3, <1>4
  <2> QED
    BY <1>4, <2>2, <2>3, <2>4, <2>5
<1> QED
  BY <1>8, <1>9, <1>10, <1>11 DEF ErrorsInv, ErrorsMatch

\* The consumer of the errors takes the oldest one out of errCh.
LEMMA ErrorsReceived == TypeInv /\ ErrorsInv /\ ReceiveError => ErrorsInv'
<1> SUFFICES ASSUME TypeInv, ErrorsInv, ReceiveError PROVE ErrorsInv'
  OBVIOUS
<1> DEFINE n == Len(errCh)
<1>1. /\ errCh # <<>> /\ errCh' = Tail(errCh) /\ reported' = reported \cup {Head(errCh)}
      /\ UNCHANGED <<rpc, rerr, recordClosed, errClosed, rcloser>>
  BY DEF ReceiveError, fileVars
<1>2. errCh \in Seq(Error) /\ n \in Nat /\ n # 0
  BY <1>1, LenProperties, EmptySeq DEF TypeInv, TypeOK, Error
<1>3. /\ Head(errCh) = errCh[1] /\ Len(errCh') = n - 1
      /\ \A i \in 1 .. n - 1 : errCh'[i] = errCh[i + 1]
  BY <1>1, <1>2, HeadTailProperties
<1> HIDE DEF n
<1>4. Errors = reported \cup {errCh[i] : i \in 1 .. n}
  BY DEF Errors, n
<1>5. Errors' = reported \cup {errCh[1]} \cup {errCh'[i] : i \in 1 .. n - 1}
  BY <1>1, <1>3 DEF Errors
<1>6. {errCh[i] : i \in 1 .. n} = {errCh[1]} \cup {errCh'[i] : i \in 1 .. n - 1}
  <2>1. ASSUME NEW i \in 1 .. n PROVE errCh[i] \in {errCh[1]} \cup {errCh'[j] : j \in 1 .. n - 1}
    <3>1. i = 1 \/ i - 1 \in 1 .. n - 1
      BY <1>2
    <3>2. i = (i - 1) + 1
      BY <1>2
    <3> QED
      BY <1>3, <3>1, <3>2
  <2>2. ASSUME NEW i \in 1 .. n - 1 PROVE errCh'[i] \in {errCh[j] : j \in 1 .. n}
    <3>1. i + 1 \in 1 .. n
      BY <1>2
    <3> QED
      BY <1>3, <3>1
  <2>3. errCh[1] \in {errCh[j] : j \in 1 .. n}
    BY <1>2
  <2> QED
    BY <2>1, <2>2, <2>3
<1>7. Errors' = Errors
  BY <1>4, <1>5, <1>6
<1>8. \A i, j \in 1 .. Len(errCh') : errCh'[i].file = errCh'[j].file => i = j
  <2> SUFFICES ASSUME NEW i \in 1 .. n - 1, NEW j \in 1 .. n - 1, errCh'[i].file = errCh'[j].file
               PROVE  i = j
    BY <1>3
  <2>1. i + 1 \in 1 .. n /\ j + 1 \in 1 .. n
    BY <1>2
  <2>2. errCh[i + 1].file = errCh[j + 1].file
    BY <1>3
  <2>3. i + 1 = j + 1
    BY <2>1, <2>2 DEF ErrorsInv, ErrorsMatch, n
  <2> QED
    BY <1>2, <2>3
<1> QED
  BY <1>1, <1>7, <1>8 DEF ErrorsInv, ErrorsMatch, ReaderLife

LEMMA ErrorsStep == TypeInv /\ ErrorsInv /\ [Next]_vars => ErrorsInv'
<1> SUFFICES ASSUME TypeInv, ErrorsInv, [Next]_vars PROVE ErrorsInv'
  OBVIOUS
<1>t. rpc \in [Files -> RPc] /\ rerr \in [Files -> Kinds \cup {"nil"}] /\ Errors \subseteq Error
  BY ErrorsType DEF TypeInv, TypeOK, RPc
<1>1. ASSUME UNCHANGED <<rpc, rerr, errCh, reported, recordClosed, errClosed, rcloser>> PROVE ErrorsInv'
  BY <1>1 DEF ErrorsInv, ErrorsMatch, ReaderLife, Errors
\* A goroutine that is not done takes a step and is not done with an error after it.
<1>2. ASSUME NEW f \in Files, rpc[f] # "done",
             \/ rpc' = [rpc EXCEPT ![f] = "report"] /\ \E k \in Kinds : rerr' = [rerr EXCEPT ![f] = k]
             \/ (\E pc \in RPc : rpc' = [rpc EXCEPT ![f] = pc]) /\ rerr[f] = "nil" /\ UNCHANGED rerr,
             UNCHANGED <<errCh, reported, recordClosed, errClosed, rcloser>>
      PROVE  ErrorsInv'
  <2>1. \A g \in Files \ {f} : rpc'[g] = rpc[g] /\ rerr'[g] = rerr[g]
    BY <1>2, <1>t
  <2>2. rpc'[f] = "done" => rerr'[f] = "nil"
    BY <1>2, <1>t
  <2>3. Errors' = Errors /\ \A e \in Errors : e.file \in Files \ {f}
    BY <1>2, <1>t DEF Errors, ErrorsInv, ErrorsMatch, Error
  <2>4. ~recordClosed
    BY <1>2 DEF ErrorsInv, ReaderLife
  <2> QED
    BY <1>2, <2>1, <2>2, <2>3, <2>4 DEF ErrorsInv, ErrorsMatch, ReaderLife
<1>3. ASSUME Read, UNCHANGED envVars PROVE ErrorsInv'
  <2>1. /\ \A f \in Files : rpc[f] = "none" /\ rpc'[f] = "open"
        /\ UNCHANGED <<rerr, errCh, reported, recordClosed, errClosed>> /\ rcloser = "none" /\ rcloser' = "wait"
    BY <1>3 DEF Read, envVars, TypeInv, LinesMatch
  <2>2. Errors' = Errors /\ Errors = {}
    BY <1>t, <2>1 DEF Errors, ErrorsInv, ErrorsMatch, Error
  <2> QED
    BY <2>1, <2>2 DEF ErrorsInv, ErrorsMatch, ReaderLife
<1>4. ASSUME CloserStep, UNCHANGED envVars PROVE ErrorsInv'
  <2>1. UNCHANGED <<rpc, rerr, errCh, reported>>
    BY <1>4 DEF CloserStep, CloseRecords, CloseAfter, CloseErrs, fileVars, envVars
  <2>2. ReaderLife'
    BY <1>4 DEF CloserStep, CloseRecords, CloseAfter, CloseErrs, fileVars, ErrorsInv, ReaderLife
  <2> QED
    BY <2>1, <2>2 DEF ErrorsInv, ErrorsMatch, Errors
<1>5. ASSUME NEW f \in Files, FileStep(f), UNCHANGED envVars, ~ReportError(f) PROVE ErrorsInv'
  <2>1. UNCHANGED <<errCh, reported, recordClosed, errClosed, rcloser>>
    BY <1>5 DEF FileStep, OpenFile, ReadHeader, LoopCanceled, EndOfFile, ReadRow, SendCanceled,
       SendRecord, PutRecord, CheckHeader, CompareHeader, Local, chanVars, envVars
  <2>2. rpc[f] \in {"open", "header", "loop", "send", "validate"}
    BY <1>5 DEF FileStep, OpenFile, ReadHeader, LoopCanceled, EndOfFile, ReadRow, SendCanceled,
       SendRecord, PutRecord, CheckHeader, CompareHeader, Local
  <2>3. rerr[f] = "nil"
    BY <2>2 DEF TypeInv, LinesMatch
  <2>4. (\E k \in Kinds : Fail(f, k)) \/ \E pc \in RPc : Goto(f, pc)
    <3>1. CASE OpenFile(f)
      BY <3>1, RowsType DEF OpenFile, TypeInv, Kinds, RPc
    <3>2. CASE ReadHeader(f) \/ LoopCanceled(f) \/ EndOfFile(f)
      BY <3>2 DEF ReadHeader, LoopCanceled, EndOfFile, Kinds, RPc
    <3>3. CASE ReadRow(f) \/ SendRecord(f) \/ SendCanceled(f) \/ CheckHeader(f)
      BY <3>3 DEF ReadRow, SendRecord, SendCanceled, CheckHeader, CompareHeader, Kinds, RPc
    <3> QED
      BY <1>5, <3>1, <3>2, <3>3 DEF FileStep
  <2> QED
    BY <1>2, <2>1, <2>2, <2>3, <2>4 DEF Fail, Goto
<1>6. CASE ReceiveRecord \/ Cancel \/ UNCHANGED vars
  BY <1>1, <1>6 DEF ReceiveRecord, Cancel, vars, readerVars, envVars, fileVars, chanVars
<1> QED
  BY <1>3, <1>4, <1>5, <1>6, ErrorsReport, ErrorsReceived DEF Next, ReaderStep, EnvStep, Terminated

\* A goroutine with an error in hand finds room: the errors in errCh are those of
\* other files, at most one of each.
LEMMA RoomForErrors ==
  ASSUME TypeInv, ErrorsInv, NEW f \in Files, rpc[f] = "report"
  PROVE  Len(errCh) < Cardinality(Files)
<1> DEFINE S == 1 .. Len(errCh)
           T == Files \ {f}
           file == [i \in S |-> errCh[i].file]
<1>1. Len(errCh) \in Nat /\ Errors \subseteq Error /\ \A i \in S : errCh[i] \in Errors
  BY ErrorsType, LenProperties DEF TypeInv, TypeOK, Errors
<1>2. IsFiniteSet(T) /\ Cardinality(T) = Cardinality(Files) - 1 /\ Cardinality(Files) \in Nat
  BY FilesAssumption, FilesNumber, FS_RemoveElement
<1>3. IsFiniteSet(S) /\ Cardinality(S) = Len(errCh)
  BY <1>1, FS_Interval
<1>4. file \in [S -> T]
  BY <1>1 DEF ErrorsInv, ErrorsMatch, Error
<1>5. \A i, j \in S : i # j => file[i] # file[j]
  BY DEF ErrorsInv, ErrorsMatch
<1> HIDE DEF S, T, file
<1>6. ~(Cardinality(T) < Cardinality(S))
  BY <1>2, <1>3, <1>4, <1>5, FS_PigeonHole
<1> QED
  BY <1>1, <1>2, <1>3, <1>6

\* Nothing is sent on a closed channel, and reporting an error never blocks.
THEOREM ClosedCorrect == Safety => []ClosedMeansDone
<1>1. TypeInv /\ ErrorsInv /\ [Next]_vars => TypeInv' /\ ErrorsInv'
  BY TypeStep, ErrorsStep
<1>2. TypeInv /\ ErrorsInv => ClosedMeansDone
  BY RoomForErrors DEF ErrorsInv, ReaderLife, ClosedMeansDone
<1> QED
  BY TypeInit, ErrorsInit, <1>1, <1>2, PTL DEF Safety

\* A file that ended without an error has none in the channel or behind it; one
\* that ended with an error has exactly that one.
LEMMA ErrorOfFile ==
  ASSUME TypeInv, ErrorsInv, NEW f \in Files, rpc[f] = "done"
  PROVE  /\ rerr[f] = "nil" => ErrorsOf(f) = {}
         /\ rerr[f] # "nil" => ErrorsOf(f) = {[file |-> f, kind |-> rerr[f]]}
<1>1. Errors \subseteq Error
  BY ErrorsType
<1>2. \A e \in ErrorsOf(f) : e = [file |-> f, kind |-> rerr[f]] /\ e.kind \in Kinds /\ e.kind = rerr[f]
  BY <1>1 DEF ErrorsOf, ErrorsInv, ErrorsMatch, Error
<1>3. "nil" \notin Kinds
  BY DEF Kinds
<1>4. rerr[f] = "nil" => ErrorsOf(f) = {}
  BY <1>2, <1>3
<1>5. rerr[f] # "nil" => [file |-> f, kind |-> rerr[f]] \in ErrorsOf(f)
  BY DEF ErrorsOf, ErrorsInv, ErrorsMatch
<1> QED
  BY <1>2, <1>4, <1>5

LEMMA LossIsReported == TypeInv /\ ErrorsInv => NoSilentLoss
<1> SUFFICES ASSUME TypeInv, ErrorsInv PROVE NoSilentLoss
  OBVIOUS
<1>1. ASSUME recordClosed, NEW f \in Files, FirstLine - 1 + sent[f] < Len(Rows(f))
      PROVE  ErrorsOf(f) # {}
  <2>1. rpc[f] = "done"
    BY <1>1 DEF ErrorsInv, ReaderLife
  <2>2. rerr[f] = "nil" => FirstLine - 1 + sent[f] = Len(Rows(f))
    BY <2>1 DEF TypeInv, LinesMatch
  <2>3. Len(Rows(f)) \in Nat
    BY RowsType DEF TypeInv
  <2>4. rerr[f] # "nil"
    BY <1>1, <2>2, <2>3
  <2> QED
    BY <2>1, <2>4, ErrorOfFile
<1>2. ASSUME NEW f \in Files PROVE Cardinality(ErrorsOf(f)) <= 1
  <2>1. CASE rpc[f] = "done"
    <3>1. ErrorsOf(f) = {} \/ ErrorsOf(f) = {[file |-> f, kind |-> rerr[f]]}
      BY <2>1, ErrorOfFile
    <3>2. Cardinality(ErrorsOf(f)) = 0 \/ Cardinality(ErrorsOf(f)) = 1
      BY <3>1, FS_EmptySet, FS_Singleton
    <3> QED
      BY <3>2
  <2>2. CASE rpc[f] # "done"
    <3>1. ErrorsOf(f) = {}
      BY <2>2 DEF ErrorsOf, ErrorsInv, ErrorsMatch
    <3> QED
      BY <3>1, FS_EmptySet
  <2> QED
    BY <2>1, <2>2
<1> QED
  BY <1>1, <1>2 DEF NoSilentLoss

\* A file that ends short of its rows has an error on errCh by the time recordCh is
\* closed, and no file has two.
THEOREM LossCorrect == Safety => []NoSilentLoss
<1>1. TypeInv /\ ErrorsInv /\ [Next]_vars => TypeInv' /\ ErrorsInv'
  BY TypeStep, ErrorsStep
<1> QED
  BY TypeInit, ErrorsInit, <1>1, LossIsReported, PTL DEF Safety

-----------------------------------------------------------------------------
(* The headers.                                                            *)

\* The norm is the header of a file that ended without error; a file that ended so
\* has it, and a file that mismatched does not.
HeaderInv ==
    /\ HasHeader /\ ValidateHeader =>
         /\ commonHeader # NoHeader =>
              \E g \in Files : rpc[g] = "done" /\ rerr[g] = "nil" /\ HeaderOf(g) = commonHeader
         /\ \A f \in Files :
              rpc[f] = "done" /\ rerr[f] = "nil" => commonHeader # NoHeader /\ HeaderOf(f) = commonHeader
    /\ \A f \in Files :
         rerr[f] = "header_mismatch" => commonHeader # NoHeader /\ HeaderOf(f) # commonHeader

\* A file at the comparison has a header, so what it stores is not nil.
LEMMA ValidateHasHeader ==
  ASSUME TypeInv, NEW f \in Files, rpc[f] = "validate"
  PROVE  HeaderOf(f) \in RowKinds /\ HeaderOf(f) # NoHeader
<1>1. /\ FirstLine = 2 /\ sent[f] \in Nat /\ Len(Rows(f)) \in Nat
      /\ Len(Rows(f)) = FirstLine - 1 + sent[f]
  BY FirstLineIs, RowsType DEF TypeInv, TypeOK, LinesMatch
<1>2. Len(Rows(f)) >= 1
  BY <1>1
<1>3. 1 \in 1 .. Len(Rows(f))
  BY <1>1, <1>2
<1> QED
  BY <1>3, RowsType, RowsAssumption DEF HeaderOf, TypeInv

LEMMA HeaderStep == TypeInv /\ HeaderInv /\ [Next]_vars => HeaderInv'
<1> SUFFICES ASSUME TypeInv, HeaderInv, [Next]_vars PROVE HeaderInv'
  OBVIOUS
<1>t. rpc \in [Files -> RPc] /\ rerr \in [Files -> Kinds \cup {"nil"}]
  BY DEF TypeInv, TypeOK, RPc
<1>1. ASSUME UNCHANGED <<content, rpc, rerr, commonHeader>> PROVE HeaderInv'
  BY <1>1 DEF HeaderInv, HeaderOf, Rows
\* A goroutine that is not done, and does not end here without error under validation.
<1>2. ASSUME NEW f \in Files, UNCHANGED <<content, commonHeader>>,
             rpc[f] = "done" => rerr[f] # "nil",
             NEW pc \in RPc, NEW e \in Kinds \cup {"nil"},
             rpc' = [rpc EXCEPT ![f] = pc], rerr' = [rerr EXCEPT ![f] = e],
             pc = "done" => e # "nil" \/ ~(HasHeader /\ ValidateHeader),
             e = "header_mismatch" => rerr[f] = e
      PROVE  HeaderInv'
  <2>1. \A g \in Files \ {f} : rpc'[g] = rpc[g] /\ rerr'[g] = rerr[g]
    BY <1>2, <1>t
  <2>2. rpc'[f] = pc /\ rerr'[f] = e /\ \A g \in Files : HeaderOf(g)' = HeaderOf(g)
    BY <1>2, <1>t DEF HeaderOf, Rows
  <2> QED
    BY <1>2, <2>1, <2>2 DEF HeaderInv
<1>3. ASSUME Read, UNCHANGED envVars PROVE HeaderInv'
  <2>1. /\ \A f \in Files : rpc[f] = "none" /\ rpc'[f] = "open"
        /\ UNCHANGED <<content, rerr, commonHeader>>
    BY <1>3 DEF Read, TypeInv, LinesMatch
  <2> QED
    BY <2>1 DEF HeaderInv, HeaderOf, Rows
<1>4. ASSUME NEW f \in Files, OpenFile(f) \/ ReadHeader(f) \/ LoopCanceled(f) \/ ReadRow(f) \/ SendCanceled(f)
      PROVE  HeaderInv'
  <2>1. rpc[f] # "done" /\ rerr[f] = "nil" /\ UNCHANGED <<content, commonHeader>>
    BY <1>4 DEF OpenFile, ReadHeader, LoopCanceled, ReadRow, SendCanceled, Local, TypeInv, LinesMatch
  <2>2. \/ \E k \in Kinds \ {"header_mismatch"} : Fail(f, k)
        \/ \E pc \in RPc \ {"done"} : Goto(f, pc)
    <3>1. CASE OpenFile(f)
      BY <3>1, RowsType DEF OpenFile, TypeInv, Kinds, RPc
    <3>2. CASE ReadHeader(f) \/ LoopCanceled(f)
      BY <3>2 DEF ReadHeader, LoopCanceled, Kinds, RPc
    <3>3. CASE ReadRow(f) \/ SendCanceled(f)
      BY <3>3 DEF ReadRow, SendCanceled, Kinds, RPc
    <3> QED
      BY <1>4, <3>1, <3>2, <3>3
  <2>3. CASE \E k \in Kinds \ {"header_mismatch"} : Fail(f, k)
    BY <1>2, <2>1, <2>3 DEF Fail, RPc
  <2>4. CASE \E pc \in RPc \ {"done"} : Goto(f, pc)
    <3>1. rerr' = [rerr EXCEPT ![f] = "nil"] /\ "nil" # "header_mismatch"
      BY <1>t, <2>1, <2>4 DEF Goto
    <3> QED
      BY <1>2, <2>1, <2>4, <3>1 DEF Goto
  <2> QED
    BY <2>2, <2>3, <2>4
<1>5. ASSUME NEW f \in Files, SendRecord(f) \/ EndOfFile(f) PROVE HeaderInv'
  <2>1. rpc[f] # "done" /\ rerr[f] = "nil" /\ UNCHANGED <<content, commonHeader>>
    BY <1>5 DEF SendRecord, PutRecord, EndOfFile, Local, TypeInv, LinesMatch
  <2>2. rerr' = [rerr EXCEPT ![f] = "nil"] /\ "nil" # "header_mismatch"
    BY <1>t, <1>5, <2>1 DEF SendRecord, EndOfFile, Goto
  <2>3. \E pc \in RPc : /\ rpc' = [rpc EXCEPT ![f] = pc]
                        /\ pc = "done" => ~(HasHeader /\ ValidateHeader)
    BY <1>5 DEF SendRecord, EndOfFile, Goto, RPc
  <2> QED
    BY <1>2, <2>1, <2>2, <2>3
<1>6. ASSUME NEW f \in Files, ReportError(f) PROVE HeaderInv'
  <2>1. /\ rpc[f] = "report" /\ rerr[f] # "nil" /\ rpc' = [rpc EXCEPT ![f] = "done"]
        /\ rerr' = [rerr EXCEPT ![f] = rerr[f]] /\ UNCHANGED <<content, commonHeader>>
    BY <1>6, <1>t DEF ReportError, PutError, TypeInv, LinesMatch
  <2>2. rerr[f] \in Kinds \cup {"nil"} /\ "done" \in RPc
    BY <1>t DEF RPc
  <2> QED
    BY <1>2, <2>1, <2>2
<1>7. ASSUME NEW f \in Files, CheckHeader(f) PROVE HeaderInv'
  <2>1. /\ rpc[f] = "validate" /\ HasHeader /\ ValidateHeader /\ rerr[f] = "nil" /\ UNCHANGED content
        /\ HeaderOf(f) # NoHeader
    BY <1>7, ValidateHasHeader DEF CheckHeader, CompareHeader, TypeInv, LinesMatch
  <2>2. \A g \in Files : HeaderOf(g)' = HeaderOf(g)
    BY <2>1 DEF HeaderOf, Rows
  <2>3. CASE commonHeader = NoHeader
    <3>1. commonHeader' = HeaderOf(f) /\ rpc' = [rpc EXCEPT ![f] = "done"] /\ UNCHANGED rerr
      BY <1>7, <2>3 DEF CheckHeader, CompareHeader, Goto
    <3>2. \A g \in Files : /\ ~(rpc[g] = "done" /\ rerr[g] = "nil")
                           /\ rerr[g] # "header_mismatch"
      BY <2>1, <2>3 DEF HeaderInv
    <3>3. rpc'[f] = "done" /\ \A g \in Files \ {f} : rpc'[g] = rpc[g]
      BY <1>t, <3>1
    <3> QED
      BY <2>1, <2>2, <3>1, <3>2, <3>3 DEF HeaderInv
  <2>4. CASE commonHeader # NoHeader /\ commonHeader = HeaderOf(f)
    <3>1. UNCHANGED commonHeader /\ rpc' = [rpc EXCEPT ![f] = "done"] /\ UNCHANGED rerr
      BY <1>7, <2>4 DEF CheckHeader, CompareHeader, Goto
    <3>2. rpc'[f] = "done" /\ \A g \in Files \ {f} : rpc'[g] = rpc[g]
      BY <1>t, <3>1
    <3> QED
      BY <2>1, <2>2, <2>4, <3>1, <3>2 DEF HeaderInv
  <2>5. CASE commonHeader # NoHeader /\ commonHeader # HeaderOf(f)
    <3>1. /\ UNCHANGED commonHeader /\ rpc' = [rpc EXCEPT ![f] = "report"]
          /\ rerr' = [rerr EXCEPT ![f] = "header_mismatch"]
      BY <1>7, <2>5 DEF CheckHeader, CompareHeader, Fail
    <3>2. /\ rpc'[f] = "report" /\ rerr'[f] = "header_mismatch"
          /\ \A g \in Files \ {f} : rpc'[g] = rpc[g] /\ rerr'[g] = rerr[g]
      BY <1>t, <3>1
    <3> QED
      BY <2>1, <2>2, <2>5, <3>1, <3>2 DEF HeaderInv
  <2> QED
    BY <2>3, <2>4, <2>5
<1>8. ASSUME CloserStep PROVE HeaderInv'
  BY <1>1, <1>8 DEF CloserStep, CloseRecords, CloseAfter, CloseErrs, fileVars
<1>9. CASE ReceiveRecord \/ ReceiveError \/ Cancel \/ UNCHANGED vars
  BY <1>1, <1>9 DEF ReceiveRecord, ReceiveError, Cancel, vars, readerVars, envVars, fileVars, chanVars
<1> QED
  BY <1>3, <1>4, <1>5, <1>6, <1>7, <1>8, <1>9 DEF Next, ReaderStep, FileStep, EnvStep, Terminated

\* The files that ended without error share one header, and whoever is blamed for a
\* mismatch differs from one of them.
LEMMA HeadersJudged == TypeInv /\ ErrorsInv /\ HeaderInv => HeaderVerdict
<1> SUFFICES ASSUME TypeInv, ErrorsInv, HeaderInv, recordClosed, HasHeader, ValidateHeader
             PROVE  /\ \A f, g \in Files :
                         ErrorsOf(f) = {} /\ ErrorsOf(g) = {} => HeaderOf(f) = HeaderOf(g)
                    /\ \A f \in Files : \A e \in ErrorsOf(f) :
                         e.kind = "header_mismatch" =>
                             \E g \in Files : ErrorsOf(g) = {} /\ HeaderOf(g) # HeaderOf(f)
  BY DEF HeaderVerdict
<1>1. \A f \in Files : rpc[f] = "done"
  BY DEF ErrorsInv, ReaderLife
<1>2. \A f \in Files : ErrorsOf(f) = {} <=> rerr[f] = "nil"
  BY <1>1, ErrorOfFile
<1>3. \A f \in Files : ErrorsOf(f) = {} => HeaderOf(f) = commonHeader
  BY <1>1, <1>2 DEF HeaderInv
<1>4. ASSUME NEW f \in Files, NEW e \in ErrorsOf(f), e.kind = "header_mismatch"
      PROVE  \E g \in Files : ErrorsOf(g) = {} /\ HeaderOf(g) # HeaderOf(f)
  <2>1. rerr[f] = "header_mismatch"
    BY <1>1, <1>4, ErrorOfFile
  <2>2. commonHeader # NoHeader /\ HeaderOf(f) # commonHeader
    BY <2>1 DEF HeaderInv
  <2>3. PICK g \in Files : rerr[g] = "nil" /\ HeaderOf(g) = commonHeader
    BY <2>2 DEF HeaderInv
  <2> QED
    BY <1>2, <2>2, <2>3
<1> QED
  BY <1>3, <1>4

\* With header validation on, the files that end without error all have one header, and a
\* file is blamed for a mismatch only when another file's header was accepted and differs.
THEOREM HeaderCorrect == Safety => []HeaderVerdict
<1>1. Init => HeaderInv
  BY DEF Init, HeaderInv
<1>2. TypeInv /\ ErrorsInv /\ HeaderInv /\ [Next]_vars => TypeInv' /\ ErrorsInv' /\ HeaderInv'
  BY TypeStep, ErrorsStep, HeaderStep
<1> QED
  BY TypeInit, ErrorsInit, <1>1, <1>2, HeadersJudged, PTL DEF Safety
=============================================================================
