------------------------- MODULE ErrorReportProofs -------------------------
(***************************************************************************)
(* Proofs about the collector and the report of ErrorReport.tla, for every *)
(* set of errors, every threshold and every limit.                         *)
(***************************************************************************)
EXTENDS ErrorReport, SequenceTheorems, FiniteSetTheorems, TLAPS

-----------------------------------------------------------------------------
(* The collector's types, and the threshold.                               *)

LEMMA CategoryType == \A err : Category(err) \in Categories
  BY DEF Category, Categories

LEMMA StoreType ==
  ASSUME TypeOK, ~Full, NEW err \in Errors, NEW category \in Categories, Store(err, category)
  PROVE  /\ errs' \in Seq(Entry) /\ Len(errs') = Len(errs) + 1
         /\ MaxErrors > 0 => Len(errs') <= MaxErrors
         /\ \A i \in 1 .. Len(errs) : errs'[i] = errs[i]
<1>1. [err |-> err, category |-> category] \in Entry
  BY DEF Entry
<1>2. errs \in Seq(Entry) /\ Len(errs) \in Nat
  BY LenProperties DEF TypeOK
<1>3. /\ errs' \in Seq(Entry) /\ Len(errs') = Len(errs) + 1
      /\ \A i \in 1 .. Len(errs) : errs'[i] = errs[i]
  BY <1>1, <1>2, AppendProperties DEF Store
<1> QED
  BY <1>2, <1>3, LimitsAssumption DEF Full

LEMMA TypeInit == ReportInit => TypeOK
<1> SUFFICES ASSUME ReportInit PROVE TypeOK
  OBVIOUS
<1>1. errs = <<>> /\ totalProcessed = 0 /\ colCtx = FALSE
  BY DEF ReportInit, Init
<1>2. errs \in Seq(Entry) /\ Len(errs) = 0
  BY <1>1, EmptySeq
<1>3. MaxErrors \in Nat
  BY LimitsAssumption
<1>4. MaxErrors > 0 => Len(errs) <= MaxErrors
  BY <1>2, <1>3
<1>5. totalProcessed \in Nat
  BY <1>1
<1>6. colCtx \in BOOLEAN
  BY <1>1
<1> QED
  BY <1>2, <1>4, <1>5, <1>6 DEF TypeOK

LEMMA TypeStep == TypeOK /\ [Next]_vars => TypeOK'
<1> SUFFICES ASSUME TypeOK, [Next]_vars PROVE TypeOK'
  OBVIOUS
<1>1. ASSUME NEW err \in Errors, CallAdd(err) PROVE TypeOK'
  <2>1. CASE Full /\ UNCHANGED colVars
    BY <2>1 DEF TypeOK, colVars
  <2>2. CASE ~Full /\ Store(err, Category(err)) /\ Judge /\ UNCHANGED totalProcessed
    <3>1. errs' \in Seq(Entry) /\ (MaxErrors > 0 => Len(errs') <= MaxErrors)
      BY <2>2, CategoryType, StoreType
    <3>2. colCtx' \in BOOLEAN
      BY <2>2 DEF Judge, TypeOK
    <3> QED
      BY <2>2, <3>1, <3>2 DEF TypeOK
  <2> QED
    BY <1>1, <2>1, <2>2 DEF CallAdd, Add
<1>2. ASSUME NEW err \in Errors, NEW category \in Explicit, CallAddWithCategory(err, category)
      PROVE  TypeOK'
  <2>1. CASE Full /\ UNCHANGED colVars
    BY <2>1 DEF TypeOK, colVars
  <2>2. CASE ~Full /\ Store(err, category) /\ UNCHANGED <<totalProcessed, colCtx>>
    <3>1. errs' \in Seq(Entry) /\ (MaxErrors > 0 => Len(errs') <= MaxErrors)
      BY <2>2, StoreType, ErrorsAssumption
    <3> QED
      BY <2>2, <3>1 DEF TypeOK
  <2> QED
    BY <1>2, <2>1, <2>2 DEF CallAddWithCategory, AddWithCategory
<1>3. CASE CallIncrement
  BY <1>3 DEF CallIncrement, IncrementProcessed, TypeOK
<1>4. CASE CallClear
  BY <1>4, EmptySeq, LimitsAssumption DEF CallClear, Clear, TypeOK
<1>5. CASE ReporterStep
  BY <1>5 DEF ReporterStep, HasErrors, PrintSummary, Count, ReportEnds, PrintTopErrors,
              PrintDetailed, At, colVars, TypeOK
<1>6. CASE UNCHANGED vars
  BY <1>6 DEF vars, colVars, TypeOK
<1> QED
  BY <1>1, <1>2, <1>3, <1>4, <1>5, <1>6 DEF Next, CallerStep

\* The list of errors is never longer than the collector's limit, whatever is
\* called (collector.go 105-109).
THEOREM CollectorTypeCorrect == Safety => []TypeOK
  BY TypeInit, TypeStep, PTL DEF Safety

\* ThresholdHonoured is inductive once it is known that an entry which was put
\* against the threshold came after the first processed record: then counting
\* one more only brings the rate down.
JudgedAfterFirst == judged => totalProcessed # 0

\* The rate falls as records are counted.
LEMMA RateFalls ==
  ASSUME NEW n \in Nat, NEW total \in Nat, total # 0, RateExceeds(n, total + 1)
  PROVE  RateExceeds(n, total)
<1>1. ThresholdNum * (total + 1) = ThresholdNum * total + ThresholdNum
  BY ThresholdAssumption
<1>2. ThresholdNum * total \in Nat /\ n * ThresholdDen \in Nat
  BY ThresholdAssumption
<1> QED
  BY <1>1, <1>2, ThresholdAssumption DEF RateExceeds

LEMMA ThresholdInit == ReportInit => JudgedAfterFirst /\ ThresholdHonoured
  BY DEF ReportInit, JudgedAfterFirst, ThresholdHonoured

LEMMA ThresholdStep ==
  TypeOK /\ JudgedAfterFirst /\ ThresholdHonoured /\ [Next]_vars
    => JudgedAfterFirst' /\ ThresholdHonoured'
<1> SUFFICES ASSUME TypeOK, JudgedAfterFirst, ThresholdHonoured, [Next]_vars
             PROVE  JudgedAfterFirst' /\ ThresholdHonoured'
  OBVIOUS
<1> USE DEF JudgedAfterFirst, ThresholdHonoured
<1>1. ASSUME NEW err \in Errors, CallAdd(err) PROVE JudgedAfterFirst' /\ ThresholdHonoured'
  <2>1. CASE Full
    BY <1>1, <2>1 DEF CallAdd, Add, colVars, ThresholdExceeded, RateExceeds
  <2>2. CASE ~Full
    <3>1. judged' => totalProcessed' # 0
      BY <1>1, <2>2 DEF CallAdd, Add
    <3>2. AbortOnThreshold /\ ThresholdExceeded' => colCtx'
      <4>1. Judge /\ UNCHANGED totalProcessed
        BY <1>1, <2>2 DEF CallAdd, Add
      <4>2. ThresholdExceeded' =>
              ThresholdNum > 0 /\ RateExceeds(Len(errs'), totalProcessed)
        BY <4>1, ThresholdAssumption DEF ThresholdExceeded, RateExceeds
      <4> QED
        BY <4>1, <4>2 DEF Judge
    <3> QED
      BY <3>1, <3>2
  <2> QED
    BY <2>1, <2>2
<1>2. ASSUME NEW err \in Errors, NEW category \in Explicit, CallAddWithCategory(err, category)
      PROVE  JudgedAfterFirst' /\ ThresholdHonoured'
  BY <1>2 DEF CallAddWithCategory, AddWithCategory, colVars, ThresholdExceeded, RateExceeds
<1>3. CASE CallIncrement
  <2>1. UNCHANGED <<errs, judged, colCtx>> /\ totalProcessed' = totalProcessed + 1
    BY <1>3 DEF CallIncrement, IncrementProcessed
  <2>2. totalProcessed \in Nat /\ Len(errs) \in Nat
    BY LenProperties DEF TypeOK
  <2>3. judged /\ ThresholdExceeded' => ThresholdExceeded
    BY <2>1, <2>2, RateFalls DEF ThresholdExceeded
  <2> QED
    BY <2>1, <2>2, <2>3
<1>4. CASE CallClear
  BY <1>4 DEF CallClear
<1>5. CASE ReporterStep
  BY <1>5 DEF ReporterStep, HasErrors, PrintSummary, Count, ReportEnds, PrintTopErrors,
              PrintDetailed, At, colVars, ThresholdExceeded, RateExceeds
<1>6. CASE UNCHANGED vars
  BY <1>6 DEF vars, colVars, ThresholdExceeded, RateExceeds
<1> QED
  BY <1>1, <1>2, <1>3, <1>4, <1>5, <1>6 DEF Next, CallerStep

\* With AbortOnThreshold, whatever the threshold, a rate above it has cancelled
\* the context, unless the newest entry came before the first processed record
\* or through AddWithCategory (collector.go 121-129, 149-158, 171).
THEOREM ThresholdCorrect == Safety => []ThresholdHonoured
  BY TypeInit, TypeStep, ThresholdInit, ThresholdStep, PTL DEF Safety

-----------------------------------------------------------------------------
(* A report, put together from calls between which errors come in.         *)

\* s is a summary of no more than the entries, in every figure.
Covered(s, entries) ==
    LET now == SummaryOf(entries) IN
    /\ s.total <= now.total /\ s.retryable <= now.retryable
    /\ \A c \in Categories : s.byCategory[c] <= now.byCategory[c]
    /\ \A v \in Severities : s.bySeverity[v] <= now.bySeverity[v]

SummaryType == [total : Nat, byCategory : [Categories -> Nat],
                bySeverity : [Severities -> Nat], retryable : Nat]

\* What the reporter has read so far, as long as Clear was not called, is not
\* more than what the collector holds.
SectionsAgree ==
    /\ reporter \in {"idle", "summary", "count", "list"}
    /\ summary \in SummaryType /\ counted \in Nat
    /\ reporter \in {"count", "list"} /\ ~cleared => Covered(summary, errs)
    /\ reporter = "list" /\ ~cleared => summary.total <= counted /\ counted <= Len(errs)

\* Every figure of a summary is a natural number.
LEMMA SummaryTyped == ASSUME NEW s \in Seq(Entry) PROVE SummaryOf(s) \in SummaryType
<1>1. Len(s) \in Nat /\ DOMAIN s = 1 .. Len(s)
  BY LenProperties
<1>2. IsFiniteSet(DOMAIN s)
  BY <1>1, FS_Interval
<1>3. \A T \in SUBSET (DOMAIN s) : Cardinality(T) \in Nat
  BY <1>2, FS_Subset, FS_CardinalityType
<1> QED
  BY <1>1, <1>3 DEF SummaryOf, SummaryType, Times

\* A list that others follow in is covered by the longer one.
LEMMA SummaryGrows ==
  ASSUME NEW s \in Seq(Entry), NEW t \in Seq(Entry), Len(s) <= Len(t),
         \A i \in 1 .. Len(s) : t[i] = s[i]
  PROVE  Covered(SummaryOf(s), t)
<1>1. /\ Len(s) \in Nat /\ DOMAIN s = 1 .. Len(s)
      /\ Len(t) \in Nat /\ DOMAIN t = 1 .. Len(t)
  BY LenProperties
<1>2. DOMAIN s \subseteq DOMAIN t
  BY <1>1
<1>3. IsFiniteSet(DOMAIN t)
  BY <1>1, FS_Interval
<1>4. \A S, T \in SUBSET (DOMAIN t) : S \subseteq T => Cardinality(S) <= Cardinality(T)
  BY <1>3, FS_Subset
<1>5. SummaryOf(s).total <= SummaryOf(t).total
  BY DEF SummaryOf
<1>6. SummaryOf(s).retryable <= SummaryOf(t).retryable
  <2> DEFINE S == {i \in DOMAIN s : Retryable(s[i].err)}
             T == {i \in DOMAIN t : Retryable(t[i].err)}
  <2>1. S \subseteq T /\ S \in SUBSET DOMAIN t /\ T \in SUBSET DOMAIN t
    BY <1>1, <1>2
  <2>2. SummaryOf(s).retryable = Cardinality(S) /\ SummaryOf(t).retryable = Cardinality(T)
    BY DEF SummaryOf, Times
  <2> QED
    BY <1>4, <2>1, <2>2
<1>7. ASSUME NEW c \in Categories
      PROVE  SummaryOf(s).byCategory[c] <= SummaryOf(t).byCategory[c]
  <2> DEFINE S == {i \in DOMAIN s : s[i].category = c}
             T == {i \in DOMAIN t : t[i].category = c}
  <2>1. S \subseteq T /\ S \in SUBSET DOMAIN t /\ T \in SUBSET DOMAIN t
    BY <1>1, <1>2
  <2>2. /\ SummaryOf(s).byCategory[c] = Cardinality(S)
        /\ SummaryOf(t).byCategory[c] = Cardinality(T)
    BY DEF SummaryOf, Times
  <2> QED
    BY <1>4, <2>1, <2>2
<1>8. ASSUME NEW v \in Severities
      PROVE  SummaryOf(s).bySeverity[v] <= SummaryOf(t).bySeverity[v]
  <2> DEFINE S == {i \in DOMAIN s : Severity(s[i].err) = v}
             T == {i \in DOMAIN t : Severity(t[i].err) = v}
  <2>1. S \subseteq T /\ S \in SUBSET DOMAIN t /\ T \in SUBSET DOMAIN t
    BY <1>1, <1>2
  <2>2. /\ SummaryOf(s).bySeverity[v] = Cardinality(S)
        /\ SummaryOf(t).bySeverity[v] = Cardinality(T)
    BY DEF SummaryOf, Times
  <2> QED
    BY <1>4, <2>1, <2>2
<1> QED
  BY <1>5, <1>6, <1>7, <1>8 DEF Covered

\* What covered a summary still does when the list grows.
LEMMA CoveredGrows ==
  ASSUME NEW sum \in SummaryType, NEW s \in Seq(Entry), NEW t \in Seq(Entry),
         Covered(sum, s), Len(s) <= Len(t), \A i \in 1 .. Len(s) : t[i] = s[i]
  PROVE  Covered(sum, t)
<1>1. Covered(SummaryOf(s), t)
  BY SummaryGrows
<1>2. SummaryOf(s) \in SummaryType /\ SummaryOf(t) \in SummaryType
  BY SummaryTyped
<1> QED
  BY <1>1, <1>2 DEF Covered, SummaryType

LEMMA SectionsInit == ReportInit => SectionsAgree
<1>1. <<>> \in Seq(Entry)
  BY EmptySeq
<1>2. SummaryOf(<<>>) \in SummaryType
  BY <1>1, SummaryTyped
<1> QED
  BY <1>2 DEF ReportInit, SectionsAgree

LEMMA SectionsStep == TypeOK /\ SectionsAgree /\ [Next]_vars => SectionsAgree'
<1> SUFFICES ASSUME TypeOK, SectionsAgree, [Next]_vars PROVE SectionsAgree'
  OBVIOUS
<1>t. errs \in Seq(Entry) /\ errs' \in Seq(Entry) /\ Len(errs) \in Nat /\ Len(errs') \in Nat
  <2>1. TypeOK'
    BY TypeStep
  <2> QED
    BY <2>1, LenProperties DEF TypeOK
\* A step that stores an entry or none, and leaves the reporter alone.
<1>a. ASSUME UNCHANGED <<reportVars, cleared>>, Len(errs) <= Len(errs'),
             \A i \in 1 .. Len(errs) : errs'[i] = errs[i]
      PROVE  SectionsAgree'
  <2>1. Covered(summary, errs) => Covered(summary, errs')
    BY <1>t, <1>a, CoveredGrows DEF SectionsAgree
  <2>2. counted <= Len(errs) => counted <= Len(errs')
    BY <1>t, <1>a DEF SectionsAgree
  <2> QED
    BY <1>a, <2>1, <2>2 DEF SectionsAgree, reportVars, Covered
<1>1. ASSUME NEW err \in Errors, CallAdd(err) PROVE SectionsAgree'
  <2>1. UNCHANGED <<reportVars, cleared>>
    BY <1>1 DEF CallAdd
  <2>2. CASE Full
    BY <1>a, <1>1, <1>t, <2>1, <2>2 DEF CallAdd, Add, colVars
  <2>3. CASE ~Full
    <3>1. Store(err, Category(err))
      BY <1>1, <2>3 DEF CallAdd, Add
    <3>2. Len(errs') = Len(errs) + 1 /\ \A i \in 1 .. Len(errs) : errs'[i] = errs[i]
      BY <2>3, <3>1, CategoryType, StoreType
    <3> QED
      BY <1>a, <1>t, <2>1, <3>2
  <2> QED
    BY <2>2, <2>3
<1>2. ASSUME NEW err \in Errors, NEW category \in Explicit, CallAddWithCategory(err, category)
      PROVE  SectionsAgree'
  <2>1. UNCHANGED <<reportVars, cleared>>
    BY <1>2 DEF CallAddWithCategory
  <2>2. CASE Full
    BY <1>a, <1>2, <1>t, <2>1, <2>2 DEF CallAddWithCategory, AddWithCategory, colVars
  <2>3. CASE ~Full
    <3>1. Store(err, category)
      BY <1>2, <2>3 DEF CallAddWithCategory, AddWithCategory
    <3>2. Len(errs') = Len(errs) + 1 /\ \A i \in 1 .. Len(errs) : errs'[i] = errs[i]
      BY <2>3, <3>1, ErrorsAssumption, StoreType
    <3> QED
      BY <1>a, <1>t, <2>1, <3>2
  <2> QED
    BY <2>2, <2>3
<1>3. CASE CallIncrement
  BY <1>a, <1>3, <1>t DEF CallIncrement, IncrementProcessed
<1>4. CASE CallClear
  BY <1>4 DEF CallClear, reportVars, SectionsAgree
<1>5. CASE HasErrors
  BY <1>5 DEF HasErrors, At, colVars, SectionsAgree
<1>6. CASE PrintSummary
  <2>1. summary' = SummaryOf(errs) /\ SummaryOf(errs) \in SummaryType
    BY <1>6, <1>t, SummaryTyped DEF PrintSummary
  <2>2. Covered(SummaryOf(errs), errs)
    BY <1>t, SummaryGrows
  <2>3. reporter' = "count" /\ UNCHANGED <<errs, counted>>
    BY <1>6 DEF PrintSummary, At, colVars
  <2>4. Covered(summary', errs')
    BY <2>1, <2>2, <2>3
  <2> QED
    BY <2>1, <2>3, <2>4 DEF SectionsAgree
<1>7. CASE Count
  <2>1. /\ reporter = "count" /\ reporter' = "list" /\ counted' = Len(errs)
        /\ UNCHANGED <<errs, summary, cleared>>
    BY <1>7 DEF Count, At, colVars
  <2>2. Covered(summary, errs) => summary.total <= Len(errs)
    BY DEF Covered, SummaryOf
  <2>3. Covered(summary, errs) => Covered(summary', errs')
    BY <2>1
  <2> QED
    BY <1>t, <2>1, <2>2, <2>3 DEF SectionsAgree
<1>8. CASE PrintTopErrors \/ PrintDetailed
  <2>1. reporter' = "idle" /\ summary' = SummaryOf(<<>>) /\ counted' = 0
    BY <1>8 DEF PrintTopErrors, PrintDetailed, ReportEnds, At
  <2>2. SummaryOf(<<>>) \in SummaryType
    BY EmptySeq, SummaryTyped
  <2> QED
    BY <2>1, <2>2 DEF SectionsAgree
<1>9. CASE UNCHANGED vars
  BY <1>9, <1>a, <1>t DEF vars, colVars
<1> QED
  BY <1>1, <1>2, <1>3, <1>4, <1>5, <1>6, <1>7, <1>8, <1>9 DEF Next, CallerStep, ReporterStep

\* A list that is not empty has a message, and finitely many.
LEMMA MessagesOf ==
  ASSUME NEW s \in Seq(Entry), Len(s) > 0
  PROVE  s[1].err \in Messages(s) /\ IsFiniteSet(Messages(s)) /\ Cardinality(Messages(s)) \in Nat \ {0}
<1>1. Len(s) \in Nat /\ DOMAIN s = 1 .. Len(s) /\ 1 \in DOMAIN s
  BY LenProperties
<1>2. IsFiniteSet(DOMAIN s)
  BY <1>1, FS_Interval
<1> DEFINE message == [i \in DOMAIN s |-> s[i].err]
<1>3. message \in Surjection(DOMAIN s, Messages(s))
  BY DEF Surjection, Messages
<1>4. IsFiniteSet(Messages(s))
  BY <1>2, <1>3, FS_Surjection
<1>5. s[1].err \in Messages(s)
  BY <1>1 DEF Messages
<1> QED
  BY <1>4, <1>5, FS_EmptySet, FS_CardinalityType

\* The step that ends a report finds every section in agreement.
LEMMA ReportFits == TypeOK /\ SectionsAgree /\ [Next]_vars => SectionsFit
<1> SUFFICES ASSUME TypeOK, SectionsAgree, [Next]_vars,
                    reporter = "list", reporter' = "idle", ~cleared
             PROVE  SectionsFit
  BY DEF SectionsFit
<1>1. PrintTopErrors \/ PrintDetailed
  BY DEF Next, CallerStep, CallAdd, CallAddWithCategory, CallIncrement, CallClear,
         ReporterStep, HasErrors, PrintSummary, Count, At, reportVars, vars
<1>t. errs \in Seq(Entry) /\ Len(errs) \in Nat /\ counted \in Nat /\ summary.total \in Nat
  BY LenProperties DEF TypeOK, SectionsAgree, SummaryType
<1>2. Covered(summary, errs) /\ summary.total <= counted /\ counted <= Len(errs)
  BY DEF SectionsAgree
<1>3. SummaryOf(errs).total = Len(errs)
  BY DEF SummaryOf
<1>l. TopN \in Nat \ {0} /\ DetailMax \in Nat \ {0} /\ TopN <= DetailMax
  BY ReportAssumption
<1>4. counted <= TopN => Messages(SubSeq(errs, 1, counted)) \subseteq shown'
  <2> SUFFICES ASSUME counted <= TopN PROVE Messages(SubSeq(errs, 1, counted)) \subseteq shown'
    OBVIOUS
  <2> DEFINE n == Smaller(DetailMax, Len(errs))
             part == SubSeq(errs, 1, counted)  list == SubSeq(errs, 1, n)
  <2>1. shown' = Messages(list)
    BY <1>1, <1>t, <1>l DEF PrintDetailed, PrintTopErrors
  <2>2. n \in Nat /\ counted <= n /\ n <= Len(errs)
    BY <1>t, <1>2, <1>l DEF Smaller
  <2>3. DOMAIN part = 1 .. counted /\ DOMAIN list = 1 .. n
    BY <1>t, <1>2, <2>2, SubSeqProperties, LenProperties
  <2>4. \A i \in 1 .. counted : part[i] = errs[i] /\ list[i] = errs[i] /\ i \in 1 .. n
    BY <1>t, <1>2, <2>2, SubSeqProperties
  <2> QED
    BY <2>1, <2>3, <2>4 DEF Messages
<1>5. summary.total > 0 => shown' # {}
  <2> SUFFICES ASSUME summary.total > 0 PROVE shown' # {}
    OBVIOUS
  <2>1. Len(errs) > 0
    BY <1>t, <1>2
  <2>2. CASE PrintTopErrors
    <3>1. Cardinality(Messages(errs)) \in Nat \ {0}
      BY <1>t, <2>1, MessagesOf
    <3>2. Cardinality(shown') # 0
      BY <1>l, <2>2, <3>1 DEF PrintTopErrors, Smaller
    <3> QED
      BY <3>2, FS_EmptySet
  <2>3. CASE PrintDetailed
    <3> DEFINE n == Smaller(DetailMax, Len(errs))  list == SubSeq(errs, 1, n)
    <3>1. n \in Nat \ {0} /\ n <= Len(errs)
      BY <1>t, <1>l, <2>1 DEF Smaller
    <3>2. list \in Seq(Entry) /\ Len(list) = n
      BY <1>t, <3>1, SubSeqProperties
    <3>3. Len(list) > 0
      BY <3>1, <3>2
    <3> HIDE DEF list
    <3>4. list[1].err \in Messages(list)
      BY <3>2, <3>3, MessagesOf
    <3> QED
      BY <2>3, <3>4 DEF PrintDetailed, list
  <2> QED
    BY <1>1, <2>2, <2>3
<1> QED
  BY <1>2, <1>3, <1>4, <1>5 DEF SectionsFit, Covered

\* The sections of a report agree for every list, every limit and every order
\* of calls between them, Clear excepted (reporter.go 26-159, pipeline.go 292-302).
THEOREM ReportCorrect == Safety => ReportConsistent
<1>1. TypeOK /\ SectionsAgree /\ [Next]_vars => [SectionsFit]_vars
  BY ReportFits
<1> QED
  BY <1>1, TypeInit, TypeStep, SectionsInit, SectionsStep, PTL DEF Safety, ReportConsistent
=============================================================================
