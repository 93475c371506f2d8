---------------------------- MODULE ErrorReport ----------------------------
(***************************************************************************)
(* The collector under its concurrent callers, and internal/errors/        *)
(* reporter.go as Pipeline.finalize drives it: a report is put together    *)
(* from calls that take the collector's lock one after the other, so       *)
(* errors may come in between.                                             *)
(*                                                                         *)
(* Pipeline.Errors() hands the collector to anybody, so every method may   *)
(* be called at any time.  Messages stand for their errors: two entries    *)
(* have the same message when they have the same error.  The layout of the *)
(* report is left out, what it states is kept.                             *)
(***************************************************************************)
EXTENDS Collector, FiniteSets

CONSTANTS
    Explicit,           \* the categories AddWithCategory is called with
    TopN,               \* 5 in finalize
    DetailMax,          \* 10 in finalize
    MaxTotal            \* bound: records counted as processed

ASSUME LimitsAssumption == {MaxErrors, MaxTotal} \subseteq Nat
ASSUME ReportAssumption == {TopN, DetailMax} \subseteq Nat \ {0} /\ TopN <= DetailMax
ASSUME ThresholdAssumption == ThresholdNum \in Nat /\ ThresholdDen \in Nat \ {0}
ASSUME ErrorsAssumption ==
    Errors \subseteq AllErrors /\ Explicit \subseteq Categories /\ AbortOnThreshold \in BOOLEAN

VARIABLES
    judged,             \* the newest entry was put against the threshold
    reporter,           \* where finalize is
    summary,            \* the ErrorSummary that PrintSummary printed
    counted,            \* what Count returned
    shown,              \* the errors the last section shows
    cleared             \* Clear was called since PrintSummary

reportVars == <<reporter, summary, counted, shown>>
vars == <<colVars, judged, reportVars, cleared>>

Times(entries, Fits(_)) == Cardinality({i \in DOMAIN entries : Fits(entries[i])})

\* Collector.Summary, under one read lock.
SummaryOf(entries) ==
    [total      |-> Len(entries),
     byCategory |-> [c \in Categories |-> Times(entries, LAMBDA e : e.category = c)],
     bySeverity |-> [s \in Severities |-> Times(entries, LAMBDA e : Severity(e.err) = s)],
     retryable  |-> Times(entries, LAMBDA e : Retryable(e.err))]

CountOf(err, entries) == Times(entries, LAMBDA e : e.err = err)
Messages(entries) == {entries[i].err : i \in DOMAIN entries}
Smaller(m, n) == IF m < n THEN m ELSE n

----------------------------------------------------------------------------
ReportInit ==
    /\ Init
    /\ judged = FALSE /\ cleared = FALSE
    /\ reporter = "idle" /\ summary = SummaryOf(<<>>) /\ counted = 0 /\ shown = {}

----------------------------------------------------------------------------
(* The callers of the collector.                                           *)

CallAdd(err) ==
    /\ Add(err)
    /\ judged' = IF Full THEN judged ELSE totalProcessed # 0
    /\ UNCHANGED <<reportVars, cleared>>

CallAddWithCategory(err, category) ==
    /\ AddWithCategory(err, category)
    /\ judged' = (Full /\ judged)
    /\ UNCHANGED <<reportVars, cleared>>

CallIncrement ==
    /\ totalProcessed < MaxTotal
    /\ IncrementProcessed
    /\ UNCHANGED <<judged, reportVars, cleared>>

CallClear ==
    /\ Clear
    /\ judged' = FALSE
    /\ cleared' = (reporter # "idle")
    /\ UNCHANGED reportVars

CallerStep ==
    \/ \E err \in Errors :
         CallAdd(err) \/ \E category \in Explicit : CallAddWithCategory(err, category)
    \/ CallIncrement \/ CallClear

----------------------------------------------------------------------------
(* finalize: HasErrors, PrintSummary, Count, and one of two last sections. *)

At(from, to) == reporter = from /\ reporter' = to /\ UNCHANGED <<colVars, judged>>

HasErrors ==
    /\ At("idle", IF errs = <<>> THEN "idle" ELSE "summary")
    /\ UNCHANGED <<summary, counted, shown, cleared>>

PrintSummary ==
    /\ At("summary", "count")
    /\ summary' = SummaryOf(errs)
    /\ cleared' = FALSE
    /\ UNCHANGED <<counted, shown>>

Count ==
    /\ At("count", "list")
    /\ counted' = Len(errs)
    /\ UNCHANGED <<summary, shown, cleared>>

\* The report is out; its figures are dropped, what it showed stays to be seen.
ReportEnds ==
    /\ At("list", "idle")
    /\ summary' = SummaryOf(<<>>) /\ counted' = 0 /\ cleared' = FALSE

\* The groups come from a map and the sort is unstable: of messages as frequent
\* as each other any may be shown.
PrintTopErrors ==
    /\ counted > TopN
    /\ ReportEnds
    /\ shown' \in SUBSET Messages(errs)
    /\ Cardinality(shown') = Smaller(TopN, Cardinality(Messages(errs)))
    /\ \A m \in shown', n \in Messages(errs) \ shown' : CountOf(m, errs) >= CountOf(n, errs)

PrintDetailed ==
    /\ counted <= TopN
    /\ ReportEnds
    /\ shown' = Messages(SubSeq(errs, 1, Smaller(DetailMax, Len(errs))))

ReporterStep == HasErrors \/ PrintSummary \/ Count \/ PrintTopErrors \/ PrintDetailed

Next == CallerStep \/ ReporterStep

Safety == ReportInit /\ [][Next]_vars

----------------------------------------------------------------------------
\* With AbortOnThreshold, a rate above the threshold has cancelled the context,
\* with two exceptions: the newest entry came before the first processed
\* record, when the rate counts as zero, or through AddWithCategory.  Counting
\* records never brings a rate up that an Add did not see (collector.go
\* 121-129, 149-158, 171).
ThresholdHonoured ==
    AbortOnThreshold /\ judged /\ ThresholdExceeded => colCtx

\* A report ends: what its sections said, against what there is now.
SectionsFit ==
    reporter = "list" /\ reporter' = "idle" /\ ~cleared =>
        LET now == SummaryOf(errs) IN
        /\ summary.total <= counted /\ counted <= now.total
        /\ summary.retryable <= now.retryable
        /\ \A c \in Categories : summary.byCategory[c] <= now.byCategory[c]
        /\ \A s \in Severities : summary.bySeverity[s] <= now.bySeverity[s]
        /\ counted <= TopN => Messages(SubSeq(errs, 1, counted)) \subseteq shown'
        /\ summary.total > 0 => shown' # {}

\* The sections of one report agree although errors come between them: unless
\* Clear was called, every error the summary counted, in its category and its
\* severity, is there when the last section is made; if that section is the
\* detailed list, it shows every message there was when it was chosen; and
\* neither section is empty when the summary was not (reporter.go 26-159, pipeline.go 292-302).
ReportConsistent == [][SectionsFit]_vars
============================================================================
