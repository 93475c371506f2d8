----------------------------- MODULE Collector -----------------------------
(***************************************************************************)
(* internal/errors/collector.go: the shared list of errors, the count of   *)
(* processed records and the context it cancels when the error rate passes *)
(* the threshold.  Every method runs under one mutex, so a call is a step. *)
(*                                                                         *)
(* An error is one of the values the code tells apart: the sentinels of    *)
(* errors.go, its two types and context.DeadlineExceeded; "other" is any   *)
(* other error, one that wraps a sentinel included, since the checks       *)
(* compare with ==.  What Add returns is left out: no caller looks at it.  *)
(*                                                                         *)
(* The threshold is the rational ThresholdNum / ThresholdDen; the code     *)
(* divides float64s, exact for the small counts and binary thresholds the  *)
(* runs use.                                                               *)
(***************************************************************************)
EXTENDS Naturals, Sequences

CONSTANTS
    Errors,             \* the errors callers report
    MaxErrors,          \* entries kept at most; 0 is no limit
    ThresholdNum,       \* 0 is no threshold
    ThresholdDen,
    AbortOnThreshold

VARIABLES
    errs,               \* Collector.errors, without record and timestamp
    totalProcessed,     \* Collector.totalProcessed
    colCtx              \* Collector.ctx is cancelled

colVars == <<errs, totalProcessed, colCtx>>

----------------------------------------------------------------------------
(* The classification of an error.                                         *)

ValidationErrors == {"ValidationError", "ErrInvalidRecord", "ErrHeaderMismatch"}
IOErrors == {"ErrFileNotFound", "ErrEmptyFile"}
TimeoutErrors == {"DeadlineExceeded"}
ProcessingErrors == {"ProcessingError", "ErrProcessingFailed"}
AllErrors == ValidationErrors \cup IOErrors \cup TimeoutErrors \cup ProcessingErrors
                \cup {"ErrMaxErrorsExceeded", "ErrContextCanceled", "other"}

Categories == {"VALIDATION", "PROCESSING", "IO", "TIMEOUT", "UNKNOWN"}
Severities == {"LOW", "MEDIUM", "HIGH", "CRITICAL"}

Category(err) ==
    CASE err \in ValidationErrors -> "VALIDATION"
      [] err \in IOErrors         -> "IO"
      [] err \in TimeoutErrors    -> "TIMEOUT"
      [] err \in ProcessingErrors -> "PROCESSING"
      [] OTHER                    -> "UNKNOWN"

Severity(err) ==
    CASE err = "ErrMaxErrorsExceeded" -> "CRITICAL"
      [] err = "ErrContextCanceled"   -> "HIGH"
      [] err \in ValidationErrors     -> "LOW"
      [] OTHER                        -> "MEDIUM"

Retryable(err) == err \in IOErrors \cup TimeoutErrors

Entry == [err : Errors, category : Categories]

----------------------------------------------------------------------------
TypeOK ==
    /\ errs \in Seq(Entry)
    /\ MaxErrors > 0 => Len(errs) <= MaxErrors
    /\ totalProcessed \in Nat
    /\ colCtx \in BOOLEAN

Init == errs = <<>> /\ totalProcessed = 0 /\ colCtx = FALSE

\* calculateErrorRate() > errorThreshold: the rate is 0 while nothing has been
\* processed.
RateExceeds(count, total) ==
    total # 0 /\ count * ThresholdDen > ThresholdNum * total

ThresholdExceeded == ThresholdNum # 0 /\ RateExceeds(Len(errs), totalProcessed)

Full == MaxErrors > 0 /\ Len(errs) >= MaxErrors

Store(err, category) == errs' = Append(errs, [err |-> err, category |-> category])

\* The check that follows an Add: the new entry counts, the record it is about
\* does not yet.
Judge ==
    colCtx' = (colCtx \/ (/\ AbortOnThreshold /\ ThresholdNum > 0
                          /\ RateExceeds(Len(errs'), totalProcessed)))

\* A slip: an entry is stored even when the list is full.
AddUncapped(err) == Store(err, Category(err)) /\ Judge /\ UNCHANGED totalProcessed

\* A slip: a full list makes room by dropping its oldest entry.
AddEvicting(err) ==
    /\ errs' = Append(IF Full THEN Tail(errs) ELSE errs,
                      [err |-> err, category |-> Category(err)])
    /\ Judge
    /\ UNCHANGED totalProcessed

\* A slip: the rate is taken before the entry is stored.
AddJudgedBefore(err) ==
    /\ ~Full
    /\ Store(err, Category(err))
    /\ colCtx' = (colCtx \/ (AbortOnThreshold /\ ThresholdExceeded))
    /\ UNCHANGED totalProcessed

\* A full collector refuses the entry before it looks at the threshold.
Add(err) ==
    \/ Full /\ UNCHANGED colVars
    \/ ~Full /\ Store(err, Category(err)) /\ Judge /\ UNCHANGED totalProcessed

\* AddWithCategory has no look at the threshold.
AddWithCategory(err, category) ==
    \/ Full /\ UNCHANGED colVars
    \/ ~Full /\ Store(err, category) /\ UNCHANGED <<totalProcessed, colCtx>>

IncrementProcessed ==
    /\ totalProcessed' = totalProcessed + 1
    /\ UNCHANGED <<errs, colCtx>>

\* Clear leaves the context as it is: what has aborted stays aborted.
Clear == errs' = <<>> /\ totalProcessed' = 0 /\ UNCHANGED colCtx
============================================================================
