----------------------------- MODULE CSVReader -----------------------------
(***************************************************************************)
(* internal/reader/csv_reader.go: Read starts one goroutine per file.      *)
(* Each opens its file, reads the header, sends one record per CSV row to  *)
(* the shared, bounded recordCh and sends at most one error to errCh,      *)
(* whose capacity is the number of files.  Under headerMu the goroutines   *)
(* that finish without error compare their headers with the first one      *)
(* stored.  A closer goroutine closes both channels when all are done.     *)
(*                                                                         *)
(* A file is a sequence of CSV rows as encoding/csv returns them; Malformed*)
(* is a row on which it returns an error (a bare quote, a wrong number of  *)
(* fields, a failing disk).  A record is identified by its file and its    *)
(* LineNumber; what its fields hold is left out, except for headers.       *)
(***************************************************************************)
EXTENDS Naturals, Sequences, FiniteSets

CONSTANTS
    Files,            \* CSVReader.files
    Contents,         \* the files the disk may hold: [open, rows]
    RowKinds,         \* what a row may be, as far as the reader can tell
    Malformed,        \* a row csv.Reader.Read refuses
    InvalidHeaders,   \* rows that validateHeaders refuses
    NoHeader,         \* commonHeader is nil
    RecordCap,        \* bufferSize after the default: capacity of recordCh
    HasHeader,        \* CSVReader.hasHeader
    ValidateHeader    \* CSVReader.validateHeader

ASSUME FilesAssumption == IsFiniteSet(Files) /\ Files # {}
ASSUME RecordCapAssumption == RecordCap \in Nat \ {0}
ASSUME FlagsAssumption == {HasHeader, ValidateHeader} \subseteq BOOLEAN
\* open: what os.Open and Stat find; "empty" is a file of size zero.
ASSUME ContentsAssumption ==
    Contents \subseteq [open : {"ok", "missing", "unreadable", "empty"}, rows : Seq(RowKinds)]
ASSUME RowsAssumption ==
    /\ Malformed \in RowKinds /\ NoHeader \notin RowKinds
    /\ InvalidHeaders \subseteq RowKinds \ {Malformed}

VARIABLES
    content,                 \* what each file holds; never changes
    rpc,                     \* where each file's goroutine is
    line,                    \* lineNumber: CSV rows read so far
    rerr,                    \* the error a goroutine is about to report
    commonHeader,            \* the first header stored under headerMu
    recordCh, recordClosed,  \* records as <<file, line>>
    errCh, errClosed,        \* errors as [file, kind]
    rcloser,                 \* the goroutine that closes the channels
    ctxDone,                 \* the context passed to Read is cancelled
    sent,                    \* how many records of each file were sent
    taken,                   \* how many of those the consumer has received
    reported                 \* errors the consumer has received

fileVars == <<content, rpc, line, rerr, commonHeader, sent>>
chanVars == <<recordCh, recordClosed, errCh, errClosed, rcloser>>
readerVars == <<fileVars, chanVars>>
envVars == <<ctxDone, taken, reported>>
vars == <<readerVars, envVars>>

Rows(f) == content[f].rows
FirstLine == IF HasHeader THEN 2 ELSE 1     \* LineNumber of the first record
HeaderOf(f) == Rows(f)[1]

Kinds == {"not_found", "open", "empty", "read_header", "bad_header",
          "read_record", "canceled", "header_mismatch"}

----------------------------------------------------------------------------
TypeOK ==
    /\ content \in [Files -> Contents]
    /\ rpc \in [Files -> {"none", "open", "header", "loop", "send", "validate",
                          "report", "done"}]
    /\ line \in [Files -> Nat] /\ sent \in [Files -> Nat] /\ taken \in [Files -> Nat]
    /\ rerr \in [Files -> Kinds \cup {"nil"}]
    /\ recordCh \in Seq(Files \X (Nat \ {0})) /\ Len(recordCh) <= RecordCap
    /\ errCh \in Seq([file : Files, kind : Kinds])
    /\ Len(errCh) <= Cardinality(Files)
    /\ reported \subseteq [file : Files, kind : Kinds]
    /\ {recordClosed, errClosed, ctxDone} \subseteq BOOLEAN
    /\ rcloser \in {"none", "wait", "closeErr", "done"}
    /\ commonHeader \in RowKinds \cup {NoHeader}

Init ==
    /\ content \in [Files -> Contents]
    /\ rpc = [f \in Files |-> "none"]
    /\ line = [f \in Files |-> 0]
    /\ rerr = [f \in Files |-> "nil"]
    /\ commonHeader = NoHeader
    /\ recordCh = <<>> /\ recordClosed = FALSE
    /\ errCh = <<>> /\ errClosed = FALSE
    /\ rcloser = "none"
    /\ ctxDone = FALSE
    /\ sent = [f \in Files |-> 0] /\ taken = [f \in Files |-> 0]
    /\ reported = {}

----------------------------------------------------------------------------
\* Read: the goroutines start together; a late one is a slow one.
Read ==
    /\ rcloser = "none"
    /\ rpc' = [f \in Files |-> "open"]
    /\ rcloser' = "wait"
    /\ UNCHANGED <<content, line, rerr, commonHeader, sent, recordCh, recordClosed,
                   errCh, errClosed>>

Goto(f, pc) == rpc' = [rpc EXCEPT ![f] = pc] /\ UNCHANGED rerr

\* readFile returns an error: the goroutine goes on to report it.
Fail(f, kind) ==
    /\ rerr' = [rerr EXCEPT ![f] = kind]
    /\ rpc' = [rpc EXCEPT ![f] = "report"]

\* A step of f's goroutine that leaves the channels and the norm alone.
Local(f, pc) ==
    /\ rpc[f] = pc
    /\ UNCHANGED <<content, commonHeader, sent, chanVars>>

\* os.Open and Stat.
OpenFile(f) ==
    /\ Local(f, "open") /\ UNCHANGED line
    /\ CASE content[f].open = "missing"    -> Fail(f, "not_found")
         [] content[f].open = "unreadable" -> Fail(f, "open")
         [] content[f].open = "empty"      -> Fail(f, "empty")
         [] content[f].open = "ok"         -> Goto(f, IF HasHeader THEN "header" ELSE "loop")

\* The first row is the header: missing, refused by the parser, refused by
\* validateHeaders, or kept.
ReadHeader(f) ==
    /\ Local(f, "header")
    /\ IF Rows(f) = <<>> THEN Fail(f, "empty") /\ UNCHANGED line
       ELSE IF HeaderOf(f) = Malformed THEN Fail(f, "read_header") /\ UNCHANGED line
       ELSE /\ line' = [line EXCEPT ![f] = 1]
            /\ IF HeaderOf(f) \in InvalidHeaders THEN Fail(f, "bad_header")
               ELSE Goto(f, "loop")

\* The check at the head of the loop.
LoopCanceled(f) ==
    /\ Local(f, "loop") /\ UNCHANGED line
    /\ ctxDone
    /\ Fail(f, "canceled")

\* io.EOF ends the loop: readFile returns the headers and no error.
EndOfFile(f) ==
    /\ Local(f, "loop") /\ UNCHANGED line
    /\ ~ctxDone
    /\ line[f] = Len(Rows(f))
    /\ Goto(f, IF HasHeader /\ ValidateHeader THEN "validate" ELSE "done")

\* A slip: a malformed row is skipped and nobody is told.
ReadRowSkipping(f) ==
    /\ Local(f, "loop")
    /\ ~ctxDone
    /\ line[f] < Len(Rows(f))
    /\ line' = [line EXCEPT ![f] = @ + 1]
    /\ Goto(f, IF Rows(f)[line[f] + 1] = Malformed THEN "loop" ELSE "send")

\* csvReader.Read: a malformed row ends the file, any other becomes a record.
ReadRow(f) ==
    /\ Local(f, "loop")
    /\ ~ctxDone
    /\ line[f] < Len(Rows(f))
    /\ IF Rows(f)[line[f] + 1] = Malformed
       THEN Fail(f, "read_record") /\ UNCHANGED line
       ELSE line' = [line EXCEPT ![f] = @ + 1] /\ Goto(f, "send")

\* The record in hand goes to recordCh.
PutRecord(f) ==
    /\ rpc[f] = "send"
    /\ Len(recordCh) < RecordCap
    /\ recordCh' = Append(recordCh, <<f, line[f]>>)
    /\ sent' = [sent EXCEPT ![f] = @ + 1]
    /\ UNCHANGED <<content, line, commonHeader, recordClosed, errCh, errClosed, rcloser>>

\* A slip: the record may be sent again after it was sent.
SendRecordTwice(f) == PutRecord(f) /\ \E pc \in {"send", "loop"} : Goto(f, pc)

SendRecord(f) == PutRecord(f) /\ Goto(f, "loop")

\* A slip: the send is no select, it only waits for room in recordCh.
SendCanceledNever(f) == FALSE

\* The send's other branch: the record in hand is lost.
SendCanceled(f) ==
    /\ Local(f, "send") /\ UNCHANGED line
    /\ ctxDone
    /\ Fail(f, "canceled")

\* Under headerMu the first file to end sets the norm.
CompareHeader(f, matches) ==
    /\ rpc[f] = "validate"
    /\ commonHeader' = IF commonHeader = NoHeader THEN HeaderOf(f) ELSE commonHeader
    /\ IF commonHeader = NoHeader \/ matches THEN Goto(f, "done")
       ELSE Fail(f, "header_mismatch")
    /\ UNCHANGED <<content, line, sent, chanVars>>

\* A slip: only the number of columns is compared, equal in these files.
CheckHeaderLength(f) == CompareHeader(f, TRUE)

CheckHeader(f) == CompareHeader(f, commonHeader = HeaderOf(f))

\* The error goes to errCh, which has so much room.
PutError(f, room) ==
    /\ rpc[f] = "report"
    /\ Len(errCh) < room
    /\ errCh' = Append(errCh, [file |-> f, kind |-> rerr[f]])
    /\ rpc' = [rpc EXCEPT ![f] = "done"]
    /\ UNCHANGED <<content, line, rerr, commonHeader, sent, recordCh, recordClosed,
                   errClosed, rcloser>>

\* A slip: errCh has room for one error only.
ReportErrorSmall(f) == PutError(f, 1)

ReportError(f) == PutError(f, Cardinality(Files))

FileStep(f) ==
    \/ OpenFile(f) \/ ReadHeader(f) \/ LoopCanceled(f) \/ EndOfFile(f) \/ ReadRow(f)
    \/ SendRecord(f) \/ SendCanceled(f) \/ CheckHeader(f) \/ ReportError(f)

\* The closer, once every file's goroutine is where it waits for them to be.
CloseAfter(ends) ==
    /\ rcloser = "wait"
    /\ \A f \in Files : rpc[f] \in ends
    /\ recordClosed' = TRUE
    /\ rcloser' = "closeErr"
    /\ UNCHANGED <<fileVars, recordCh, errCh, errClosed>>

\* A slip: the closer does not wait for files that only have an error to send.
CloseRecordsEarly == CloseAfter({"report", "done"})

CloseRecords == CloseAfter({"done"})

\* A slip: only the record channel is closed.
CloseErrsForgotten ==
    /\ rcloser = "closeErr"
    /\ rcloser' = "done"
    /\ UNCHANGED <<fileVars, recordCh, recordClosed, errCh, errClosed>>

CloseErrs ==
    /\ rcloser = "closeErr"
    /\ errClosed' = TRUE
    /\ rcloser' = "done"
    /\ UNCHANGED <<fileVars, recordCh, recordClosed, errCh>>

CloserStep == CloseRecords \/ CloseErrs

----------------------------------------------------------------------------
(* The environment: the consumers of the two channels and the context.     *)

ReceiveRecord ==
    /\ recordCh # <<>>
    /\ recordCh' = Tail(recordCh)
    /\ taken' = [taken EXCEPT ![Head(recordCh)[1]] = @ + 1]
    /\ UNCHANGED <<fileVars, recordClosed, errCh, errClosed, rcloser, ctxDone, reported>>

ReceiveError ==
    /\ errCh # <<>>
    /\ errCh' = Tail(errCh)
    /\ reported' = reported \cup {Head(errCh)}
    /\ UNCHANGED <<fileVars, recordCh, recordClosed, errClosed, rcloser, ctxDone, taken>>

Cancel ==
    /\ ~ctxDone
    /\ ctxDone' = TRUE
    /\ UNCHANGED <<fileVars, chanVars, taken, reported>>

Terminated ==
    /\ rcloser = "done" /\ recordCh = <<>> /\ errCh = <<>>
    /\ UNCHANGED vars

\* The reader's own steps say nothing about its environment: Pipeline.tla uses
\* them as they are.
ReaderStep == Read \/ CloserStep \/ \E f \in Files : FileStep(f)

EnvStep == ReceiveRecord \/ ReceiveError \/ Cancel

Next == (ReaderStep /\ UNCHANGED envVars) \/ EnvStep \/ Terminated

Safety == Init /\ [][Next]_vars

\* Every reader goroutine and the closer keep running; nobody has to consume.
Spec == /\ Safety
        /\ \A f \in Files : WF_vars(FileStep(f) /\ UNCHANGED envVars)
        /\ WF_vars(CloserStep /\ UNCHANGED envVars)

----------------------------------------------------------------------------
Errors == reported \cup {errCh[i] : i \in 1 .. Len(errCh)}
ErrorsOf(f) == {e \in Errors : e.file = f}
Waiting(f) == {i \in DOMAIN recordCh : recordCh[i][1] = f}    \* f's places in recordCh

\* However the goroutines interleave on recordCh, each file's records leave it
\* in file order, without a gap and without a repeat: what waits in the channel
\* continues exactly what the consumer already took (csv_reader.go 161-198).
InOrder ==
    \A f \in Files :
        /\ taken[f] <= sent[f]
        /\ {recordCh[i][2] : i \in Waiting(f)} = FirstLine + taken[f] .. FirstLine + sent[f] - 1
        /\ \A i, j \in Waiting(f) : i < j => recordCh[i][2] < recordCh[j][2]

\* Nothing is sent on a closed channel: when either is closed every goroutine
\* is done, and errCh always has room, so reporting an error never blocks.
ClosedMeansDone ==
    /\ recordClosed \/ errClosed => \A f \in Files : rpc[f] = "done"
    /\ \A f \in Files : rpc[f] = "report" => Len(errCh) < Cardinality(Files)

\* A file that ends short of its rows is never silently cut: when recordCh is
\* closed, a file with a missing record has an error on errCh, and no file has
\* two (csv_reader.go 71-75, 82-90).
NoSilentLoss ==
    /\ recordClosed =>
         \A f \in Files : FirstLine - 1 + sent[f] < Len(Rows(f)) => ErrorsOf(f) # {}
    /\ \A f \in Files : Cardinality(ErrorsOf(f)) <= 1

\* With header validation on, the files that end without error all have the
\* header of the file that was compared first, a mismatch is reported only
\* against a different header, and it blames no file twice.
HeaderVerdict ==
    recordClosed /\ HasHeader /\ ValidateHeader =>
        /\ \A f, g \in Files :
             ErrorsOf(f) = {} /\ ErrorsOf(g) = {} => HeaderOf(f) = HeaderOf(g)
        /\ \A f \in Files : \A e \in ErrorsOf(f) :
             e.kind = "header_mismatch" =>
                 \E g \in Files : ErrorsOf(g) = {} /\ HeaderOf(g) # HeaderOf(f)

\* Both channels are closed in the end: after a cancellation even if nobody
\* receives records or errors any more, and without one for a consumer that
\* keeps ranging over recordCh, since errors that are never read hold no file
\* back (csv_reader.go 52-53, 71-101, 192-197).
ReadEnds ==
    /\ (ctxDone /\ rcloser # "none") ~> (recordClosed /\ errClosed)
    /\ WF_vars(ReceiveRecord) =>
         ((rcloser # "none") ~> (recordClosed /\ errClosed /\ recordCh = <<>>))
============================================================================
