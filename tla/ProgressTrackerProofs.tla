----------------------- MODULE ProgressTrackerProofs -----------------------
(***************************************************************************)
(* Proofs about the progress tracker of ProgressTracker.tla, for any       *)
(* finite set of recorders and any callers.                                *)
(***************************************************************************)
EXTENDS ProgressTracker, SequenceTheorems, FiniteSetTheorems, TLAPS

\* The loads of a print: four, each of a counter.
LEMMA LoadsAre ==
  /\ Len(Loads) = 4
  /\ Loads[1] = "processed" /\ Loads[2] = "success" /\ Loads[3] = "failed"
  /\ Loads[4] = "skipped"
  BY DEF Loads

LEMMA ValueType ==
  ASSUME processed \in Nat, count \in [Statuses -> Nat], NEW i \in 1 .. 4
  PROVE  ValueOf(Loads[i]) \in Nat
<1>1. i = 1 \/ i = 2 \/ i = 3 \/ i = 4
  OBVIOUS
<1> QED
  BY <1>1, LoadsAre DEF ValueOf, Statuses

\* One load adds one value to what a printer has.
LEMMA LoadType ==
  ASSUME TypeOK, NEW p \in Printers, PrintLoads(p)
  PROVE  /\ loaded' \in [Printers -> Seq(Nat)] /\ \A q \in Printers : Len(loaded'[q]) <= 4
         /\ \A q \in Printers \ {p} : loaded'[q] = loaded[q]
         /\ Len(loaded'[p]) = Len(loaded[p]) + 1
         /\ loaded'[p][Len(loaded[p]) + 1] = ValueOf(Loads[Len(loaded[p]) + 1])
         /\ \A i \in 1 .. Len(loaded[p]) : loaded'[p][i] = loaded[p][i]
<1> DEFINE n == Len(loaded[p])  v == ValueOf(Loads[n + 1])
<1>1. loaded \in [Printers -> Seq(Nat)] /\ \A q \in Printers : Len(loaded[q]) <= 4
  BY LoadsAre DEF TypeOK
<1>2. loaded[p] \in Seq(Nat) /\ n \in Nat /\ n < 4 /\ n + 1 \in 1 .. 4
  BY <1>1, LoadsAre, LenProperties DEF PrintLoads
<1>3. v \in Nat
  BY <1>2, ValueType DEF TypeOK
<1>4. loaded' = [loaded EXCEPT ![p] = Append(loaded[p], v)]
  BY DEF PrintLoads
<1> HIDE DEF v
<1>5. /\ Append(loaded[p], v) \in Seq(Nat) /\ Len(Append(loaded[p], v)) = n + 1
      /\ Append(loaded[p], v)[n + 1] = v
      /\ \A i \in 1 .. n : Append(loaded[p], v)[i] = loaded[p][i]
  BY <1>2, <1>3, AppendProperties
<1>6. loaded'[p] = Append(loaded[p], v) /\ \A q \in Printers \ {p} : loaded'[q] = loaded[q]
  BY <1>1, <1>4
<1>7. loaded' \in [Printers -> Seq(Nat)] /\ \A q \in Printers : Len(loaded'[q]) <= 4
  BY <1>1, <1>2, <1>4, <1>5, <1>6
<1> QED
  BY <1>5, <1>6, <1>7 DEF v

LEMMA EndType ==
  ASSUME TypeOK, NEW p \in Printers, PrintEnds(p)
  PROVE  /\ loaded' \in [Printers -> Seq(Nat)] /\ \A q \in Printers : Len(loaded'[q]) <= 4
         /\ loaded'[p] = <<>> /\ \A q \in Printers \ {p} : loaded'[q] = loaded[q]
<1>1. <<>> \in Seq(Nat) /\ Len(<<>>) = 0
  BY EmptySeq
<1> QED
  BY <1>1, LoadsAre DEF TypeOK, PrintEnds

LEMMA TypeInit == Init => TypeOK
<1> SUFFICES ASSUME Init PROVE TypeOK
  OBVIOUS
<1>1. <<>> \in Seq(Nat) /\ Len(<<>>) = 0
  BY EmptySeq
<1>2. loaded \in [Printers -> Seq(Nat)] /\ \A p \in Printers : Len(loaded[p]) <= Len(Loads)
  BY <1>1, LoadsAre DEF Init
<1>3. left \in [Recorders -> 0 .. PerRecorder]
  BY PerRecorderAssumption DEF Init
<1>4. /\ {mu} \ {Nobody} = {}
      /\ {c \in Callers : callPc[c] \in {"waiting", "waitingFinal", "printing",
                                         "printingFinal"}} = {}
  BY DEF Init
<1>5. {processed, bare} \subseteq Nat
  BY DEF Init
<1>7. {started, ctxDone, tick} \subseteq BOOLEAN
  BY DEF Init
<1>6. pending \in [Recorders -> Statuses \cup {"none"}] /\ count \in [Statuses -> Nat]
  BY DEF Init
<1> QED
  BY <1>2, <1>3, <1>4, <1>5, <1>6, <1>7 DEF Init, TypeOK

LEMMA TypeStep == TypeOK /\ [Next]_vars => TypeOK'
<1> SUFFICES ASSUME TypeOK, [Next]_vars PROVE TypeOK'
  OBVIOUS
<1>p. Loop \in Printers /\ \A c \in Callers : c \in Printers /\ c # Nobody
  BY CallersAssumption DEF Printers
<1>l. Len(Loads) = 4
  BY LoadsAre
<1>1. ASSUME NEW r \in Recorders, RecordProcessed(r) PROVE TypeOK'
  <2>1. left[r] - 1 \in 0 .. PerRecorder
    BY <1>1, PerRecorderAssumption DEF RecordProcessed, TypeOK
  <2>2. processed' \in Nat /\ bare' \in Nat /\ left' \in [Recorders -> 0 .. PerRecorder]
    BY <1>1, <2>1 DEF RecordProcessed, TypeOK
  <2>3. pending' \in [Recorders -> Statuses \cup {"none"}]
    BY <1>1 DEF RecordProcessed, TypeOK
  <2> QED
    BY <1>1, <2>2, <2>3 DEF RecordProcessed, TypeOK, lifeVars
<1>2. ASSUME NEW r \in Recorders, CountStatus(r) PROVE TypeOK'
  <2>1. pending[r] \in Statuses
    BY <1>2 DEF CountStatus, TypeOK
  <2> QED
    BY <1>2, <2>1 DEF CountStatus, TypeOK, lifeVars
<1>3. CASE Tick
  BY <1>3 DEF Tick, TypeOK, counterVars
<1>4. CASE LoopCanceled \/ LoopTick
  BY <1>4 DEF LoopCanceled, LoopTick, TypeOK, counterVars
<1>5. CASE LoopLoads
  BY <1>5, <1>p, <1>l, LoadType DEF LoopLoads, TypeOK, counterVars, lifeVars
<1>6. CASE LoopPrinted
  BY <1>6, <1>p, <1>l, EndType DEF LoopPrinted, TypeOK, counterVars
<1>7. ASSUME NEW c \in Callers, Start(c) \/ Snapshot(c) \/ LoopGone(c) PROVE TypeOK'
  BY <1>7 DEF Start, Snapshot, LoopGone, WaitEnds, TypeOK, counterVars
<1>8. ASSUME NEW c \in Callers, CallerLoads(c) PROVE TypeOK'
  BY <1>8, <1>p, <1>l, LoadType DEF CallerLoads, TypeOK, counterVars, lifeVars
<1>9. ASSUME NEW c \in Callers, StopPrinted(c) PROVE TypeOK'
  BY <1>9, <1>p, <1>l, EndType DEF StopPrinted, TypeOK, counterVars
<1>10. ASSUME NEW c \in Callers, FinalPrinted(c) PROVE TypeOK'
  BY <1>10, <1>p, <1>l, EndType DEF FinalPrinted, TypeOK, counterVars
<1>11. ASSUME NEW c \in Callers, NEW final \in BOOLEAN, Stop(c, final) PROVE TypeOK'
  <2>1. CASE ~started
    BY <1>11, <2>1 DEF Stop, StopAs, TypeOK, counterVars
  <2>2. CASE started
    <3>1. /\ callPc[c] = "idle" /\ mu = Nobody /\ ctxDone' = TRUE /\ mu' = c /\ c # Nobody
          /\ UNCHANGED <<counterVars, started, tick, loop, loaded>>
      BY <1>11, <1>p, <2>2 DEF Stop, StopAs
    <3>2. PICK step \in {"waiting", "waitingFinal"} : callPc' = [callPc EXCEPT ![c] = step]
      BY <1>11, <2>2 DEF Stop, StopAs
    <3>3. {mu'} \ {Nobody} = {d \in Callers : callPc'[d] \in {"waiting", "waitingFinal",
                                                             "printing", "printingFinal"}}
      BY <3>1, <3>2 DEF TypeOK
    <3> QED
      BY <3>1, <3>2, <3>3 DEF TypeOK, counterVars
  <2> QED
    BY <2>1, <2>2 DEF TypeOK
<1>12. CASE UNCHANGED vars
  BY <1>12 DEF vars, counterVars, lifeVars, TypeOK
<1> QED
  BY <1>1, <1>2, <1>3, <1>4, <1>5, <1>6, <1>7, <1>8, <1>9, <1>10, <1>11, <1>12
  DEF Next, LoopStep, CallerStep

\* Besides the types: mu is held by exactly the caller of Stop that waits for
\* the loop or prints, and by nobody else (progress.go 112-140).
THEOREM TrackerTypeCorrect == Safety => []TypeOK
  BY TypeInit, TypeStep, PTL DEF Safety

-----------------------------------------------------------------------------
(* One line at a time.                                                     *)

\* The update loop lives from the first Start to the first Stop, and a caller of
\* Stop prints only when it is gone.
LoopLife ==
    /\ started <=> loop # "none"
    /\ ctxDone => started
    /\ loop = "exited" => ctxDone
    /\ ctxDone /\ mu = Nobody => loop = "exited"
    /\ \A c \in Callers : callPc[c] \in {"printing", "printingFinal"} => loop = "exited"

LEMMA LoopInit == Init => LoopLife
  BY DEF Init, LoopLife

LEMMA LoopStepKeeps == TypeOK /\ LoopLife /\ [Next]_vars => LoopLife'
<1> SUFFICES ASSUME TypeOK, LoopLife, [Next]_vars PROVE LoopLife'
  OBVIOUS
<1> USE DEF LoopLife
<1>t. callPc \in [Callers -> {"idle", "waiting", "waitingFinal", "printing",
                             "printingFinal", "final"}]
  BY DEF TypeOK
<1>1. ASSUME NEW r \in Recorders, RecordProcessed(r) \/ CountStatus(r) PROVE LoopLife'
  BY <1>1 DEF RecordProcessed, CountStatus, lifeVars
<1>2. CASE Tick
  BY <1>2 DEF Tick
<1>3. CASE LoopCanceled
  BY <1>3 DEF LoopCanceled
<1>4. CASE LoopTick \/ LoopPrinted
  BY <1>4 DEF LoopTick, LoopPrinted
<1>5. CASE LoopLoads
  BY <1>5 DEF LoopLoads, lifeVars
<1>6. ASSUME NEW c \in Callers, Start(c) PROVE LoopLife'
  BY <1>6 DEF Start
<1>7. ASSUME NEW c \in Callers, Snapshot(c) \/ FinalPrinted(c) PROVE LoopLife'
  BY <1>7, <1>t DEF Snapshot, FinalPrinted
<1>8. ASSUME NEW c \in Callers, LoopGone(c) PROVE LoopLife'
  BY <1>8, <1>t DEF LoopGone, WaitEnds
<1>9. ASSUME NEW c \in Callers, CallerLoads(c) PROVE LoopLife'
  BY <1>9 DEF CallerLoads, lifeVars
<1>10. ASSUME NEW c \in Callers, StopPrinted(c) PROVE LoopLife'
  BY <1>10, <1>t DEF StopPrinted
<1>11. ASSUME NEW c \in Callers, NEW final \in BOOLEAN, Stop(c, final) PROVE LoopLife'
  <2>1. c # Nobody
    BY CallersAssumption
  <2>2. CASE started
    BY <1>11, <1>t, <2>1, <2>2 DEF Stop, StopAs
  <2>3. CASE ~started
    BY <1>11, <1>t, <2>3 DEF Stop, StopAs
  <2> QED
    BY <2>2, <2>3 DEF TypeOK
<1>12. CASE UNCHANGED vars
  BY <1>12 DEF vars, lifeVars
<1> QED
  BY <1>1, <1>2, <1>3, <1>4, <1>5, <1>6, <1>7, <1>8, <1>9, <1>10, <1>11, <1>12
  DEF Next, LoopStep, CallerStep

\* The loop and the callers of Stop never write at once, and a started tracker
\* that was stopped has no loop any more (progress.go 112-140, 373-390).
THEOREM ExclusiveCorrect == Safety => []PrintsExclusive
<1>1. TypeOK /\ LoopLife => PrintsExclusive
  <2> SUFFICES ASSUME TypeOK, LoopLife PROVE PrintsExclusive
    OBVIOUS
  <2> DEFINE stopping == {c \in Callers : callPc[c] \in {"printing", "printingFinal"}}
  <2>1. stopping \subseteq {mu}
    BY DEF TypeOK
  <2>2. IsFiniteSet({mu}) /\ Cardinality({mu}) = 1
    BY FS_Singleton
  <2>3. Cardinality(stopping) <= 1
    BY <2>1, <2>2, FS_Subset
  <2> QED
    BY <2>3 DEF LoopLife, PrintsExclusive
<1> QED
  BY TypeInit, TypeStep, LoopInit, LoopStepKeeps, <1>1, PTL DEF Safety

-----------------------------------------------------------------------------
(* The counters, and what a line shows of them.                            *)

\* The records counted once so far are those half counted.
Ahead == processed = Sum + bare + Cardinality(InFlight)

\* A line that has begun shows no more records than the outcomes it has loaded
\* and those it would load now, but for what was half counted when it began.
LineBehind(p) ==
    LET n == Len(loaded[p])
        part(i, status) == IF i <= n THEN loaded[p][i] ELSE count[status]
    IN n > 0 => loaded[p][1] <= part(2, "success") + part(3, "failed") + part(4, "skipped")
                                  + bare + Cardinality(Recorders)

CountersInv == Ahead /\ \A p \in Printers : LineBehind(p)

\* The records half counted are some of the recorders', one each.
LEMMA InFlightSize ==
  /\ IsFiniteSet(InFlight) /\ Cardinality(InFlight) \in Nat /\ Cardinality(Recorders) \in Nat
  /\ Cardinality(InFlight) <= Cardinality(Recorders)
<1>1. InFlight \in SUBSET Recorders
  BY DEF InFlight
<1> QED
  BY <1>1, RecordersAssumption, FS_Subset, FS_CardinalityType

LEMMA CountersInit == Init => CountersInv
<1> SUFFICES ASSUME Init PROVE CountersInv
  OBVIOUS
<1>1. InFlight = {} /\ Sum = 0
  BY DEF Init, InFlight, Sum, Statuses
<1>2. \A p \in Printers : Len(loaded[p]) = 0
  BY EmptySeq DEF Init
<1> QED
  BY <1>1, <1>2, FS_EmptySet DEF Init, CountersInv, Ahead, LineBehind

\* Counters only grow, so lines that are not added to stay behind.
LEMMA LinesStayBehind ==
  ASSUME TypeOK, TypeOK', NEW p \in Printers, LineBehind(p), loaded'[p] = loaded[p],
         bare <= bare', \A s \in Statuses : count[s] <= count'[s]
  PROVE  LineBehind(p)'
<1>1. loaded[p] \in Seq(Nat) /\ Len(loaded[p]) \in Nat
  BY LenProperties DEF TypeOK
<1>2. \A i \in 1 .. Len(loaded[p]) : loaded[p][i] \in Nat
  BY <1>1, ElementOfSeq
<1>3. Cardinality(Recorders) \in Nat
  BY InFlightSize
<1>4. /\ bare \in Nat /\ bare' \in Nat
      /\ \A s \in {"success", "failed", "skipped"} :
           count[s] \in Nat /\ count'[s] \in Nat /\ count[s] <= count'[s]
  BY DEF TypeOK, Statuses
<1> DEFINE n == Len(loaded[p])
           part(i, status) == IF i <= n THEN loaded[p][i] ELSE count[status]
           next(i, status) == IF i <= n THEN loaded[p][i] ELSE count'[status]
<1>5. ASSUME NEW i \in 1 .. 4, NEW s \in {"success", "failed", "skipped"}
      PROVE  part(i, s) \in Nat /\ next(i, s) \in Nat /\ part(i, s) <= next(i, s)
  BY <1>1, <1>2, <1>4
<1> QED
  <2>1. SUFFICES ASSUME n > 0
                 PROVE  loaded[p][1] <= next(2, "success") + next(3, "failed")
                          + next(4, "skipped") + bare' + Cardinality(Recorders)
    BY DEF LineBehind
  <2>2. loaded[p][1] <= part(2, "success") + part(3, "failed") + part(4, "skipped")
                          + bare + Cardinality(Recorders)
    BY <2>1 DEF LineBehind
  <2>3. loaded[p][1] \in Nat
    BY <1>1, <1>2, <2>1
  <2> HIDE DEF part, next, n
  <2> QED
    BY <1>3, <1>4, <1>5, <2>2, <2>3

\* A line begins with the processed count, and every load after that stands in
\* for a count as it is now.
LEMMA LineLoads ==
  ASSUME TypeOK, Ahead, NEW p \in Printers, LineBehind(p), PrintLoads(p),
         UNCHANGED <<count, bare>>
  PROVE  LineBehind(p)'
<1> DEFINE n == Len(loaded[p])  R == Cardinality(Recorders)
<1>1. n = 0 \/ n = 1 \/ n = 2 \/ n = 3
  <2>1. loaded[p] \in Seq(Nat)
    BY DEF TypeOK
  <2>2. Len(loaded[p]) \in Nat
    BY <2>1, LenProperties
  <2>3. Len(loaded[p]) < 4
    BY LoadsAre DEF PrintLoads
  <2>4. \A k \in Nat : k < 4 => k = 0 \/ k = 1 \/ k = 2 \/ k = 3
    OBVIOUS
  <2> QED
    BY <2>2, <2>3, <2>4
<1>2. /\ Len(loaded'[p]) = n + 1 /\ loaded'[p][n + 1] = ValueOf(Loads[n + 1])
      /\ \A i \in 1 .. n : loaded'[p][i] = loaded[p][i]
  BY LoadType
<1>3. /\ bare \in Nat /\ processed \in Nat /\ count["success"] \in Nat
      /\ count["failed"] \in Nat /\ count["skipped"] \in Nat
  BY DEF TypeOK, Statuses
<1>4. CASE n = 0
  <2>1. loaded'[p][1] = processed
    BY <1>2, <1>4, LoadsAre DEF ValueOf
  <2>2. processed <= count["success"] + count["failed"] + count["skipped"] + bare + R
    BY <1>3, InFlightSize DEF Ahead, Sum
  <2> QED
    BY <1>2, <1>4, <2>1, <2>2 DEF LineBehind
<1>5. CASE n = 1
  <2>1. loaded'[p][2] = count["success"] /\ loaded'[p][1] = loaded[p][1]
    BY <1>2, <1>5, LoadsAre DEF ValueOf
  <2> QED
    BY <1>2, <1>5, <2>1 DEF LineBehind
<1>6. CASE n = 2
  <2>1. /\ loaded'[p][3] = count["failed"] /\ loaded'[p][1] = loaded[p][1]
        /\ loaded'[p][2] = loaded[p][2]
    BY <1>2, <1>6, LoadsAre DEF ValueOf
  <2> QED
    BY <1>2, <1>6, <2>1 DEF LineBehind
<1>7. CASE n = 3
  <2>1. /\ loaded'[p][4] = count["skipped"] /\ loaded'[p][1] = loaded[p][1]
        /\ loaded'[p][2] = loaded[p][2] /\ loaded'[p][3] = loaded[p][3]
    BY <1>2, <1>7, LoadsAre DEF ValueOf
  <2> QED
    BY <1>2, <1>7, <2>1 DEF LineBehind
<1> QED
  BY <1>1, <1>4, <1>5, <1>6, <1>7

LEMMA CountersStep == TypeOK /\ CountersInv /\ [Next]_vars => CountersInv'
<1> SUFFICES ASSUME TypeOK, CountersInv, [Next]_vars PROVE CountersInv'
  OBVIOUS
<1>t. /\ TypeOK' /\ pending \in [Recorders -> Statuses \cup {"none"}]
      /\ count \in [Statuses -> Nat] /\ processed \in Nat /\ bare \in Nat
  BY TypeStep DEF TypeOK
<1>n. "none" \notin Statuses
  BY DEF Statuses
<1>f. InFlight' = {r \in Recorders : pending'[r] # "none"}
  BY DEF InFlight
\* A step of the counters.
<1>a. ASSUME UNCHANGED loaded, bare <= bare', \A s \in Statuses : count[s] <= count'[s]
      PROVE  \A p \in Printers : LineBehind(p)'
  BY <1>a, <1>t, LinesStayBehind DEF CountersInv
\* A step of one printer.
<1>b. ASSUME UNCHANGED counterVars, NEW p \in Printers, LineBehind(p)',
             \A q \in Printers \ {p} : loaded'[q] = loaded[q]
      PROVE  CountersInv'
  <2>1. \A q \in Printers \ {p} : LineBehind(q)'
    BY <1>b, <1>t, LinesStayBehind DEF CountersInv, counterVars
  <2>2. Ahead'
    BY <1>b DEF CountersInv, counterVars, Ahead, Sum, InFlight
  <2> QED
    BY <1>b, <2>1, <2>2 DEF CountersInv
\* A step of neither.
<1>c. ASSUME UNCHANGED <<counterVars, loaded>> PROVE CountersInv'
  BY <1>c, <1>a, <1>t DEF CountersInv, counterVars, Ahead, Sum, InFlight
<1>1. ASSUME NEW r \in Recorders, RecordProcessed(r) PROVE CountersInv'
  <2>1. /\ pending[r] = "none" /\ processed' = processed + 1 /\ UNCHANGED <<count, loaded>>
    BY <1>1 DEF RecordProcessed
  <2>2. Ahead'
    <3>1. CASE UNCHANGED bare /\ \E s \in Statuses : pending' = [pending EXCEPT ![r] = s]
      <4>1. InFlight' = InFlight \cup {r} /\ r \notin InFlight
        BY <1>f, <1>n, <1>t, <2>1, <3>1 DEF InFlight
      <4>2. Cardinality(InFlight') = Cardinality(InFlight) + 1
        BY <4>1, InFlightSize, FS_AddElement
      <4>3. Sum' = Sum /\ Sum \in Nat
        BY <1>t, <2>1 DEF Sum, Statuses
      <4> QED
        BY <1>t, <2>1, <3>1, <4>2, <4>3, InFlightSize DEF CountersInv, Ahead
    <3>2. CASE bare' = bare + 1 /\ UNCHANGED pending
      <4>1. InFlight' = InFlight
        BY <3>2 DEF InFlight
      <4>2. Sum' = Sum /\ Sum \in Nat
        BY <1>t, <2>1 DEF Sum, Statuses
      <4> QED
        BY <1>t, <2>1, <3>2, <4>1, <4>2, InFlightSize DEF CountersInv, Ahead
    <3> QED
      BY <1>1, <3>1, <3>2 DEF RecordProcessed
  <2>3. bare <= bare' /\ \A s \in Statuses : count[s] <= count'[s]
    BY <1>1, <1>t, <2>1 DEF RecordProcessed
  <2> QED
    BY <1>a, <2>1, <2>2, <2>3 DEF CountersInv
<1>2. ASSUME NEW r \in Recorders, CountStatus(r) PROVE CountersInv'
  <2>1. /\ pending[r] \in Statuses /\ pending' = [pending EXCEPT ![r] = "none"]
        /\ count' = [count EXCEPT ![pending[r]] = @ + 1]
        /\ UNCHANGED <<processed, bare, loaded>>
    BY <1>2, <1>t DEF CountStatus
  <2>2. InFlight' = InFlight \ {r} /\ r \in InFlight
    BY <1>f, <1>n, <1>t, <2>1 DEF InFlight
  <2>3. Cardinality(InFlight') = Cardinality(InFlight) - 1
    BY <2>2, InFlightSize, FS_RemoveElement
  <2>4. Sum' = Sum + 1 /\ Sum \in Nat
    BY <1>t, <2>1 DEF Sum, Statuses
  <2>5. Ahead'
    BY <1>t, <2>1, <2>3, <2>4, InFlightSize DEF CountersInv, Ahead
  <2>6. bare <= bare' /\ \A s \in Statuses : count[s] <= count'[s]
    BY <1>t, <2>1
  <2> QED
    BY <1>a, <2>1, <2>5, <2>6 DEF CountersInv
<1>3. ASSUME NEW p \in Printers, PrintLoads(p), UNCHANGED counterVars PROVE CountersInv'
  <2>1. LineBehind(p)'
    BY <1>3, LineLoads DEF CountersInv, counterVars
  <2> QED
    BY <1>3, <1>b, <2>1, LoadType
<1>4. ASSUME NEW p \in Printers, PrintEnds(p), UNCHANGED counterVars PROVE CountersInv'
  <2>1. Len(loaded'[p]) = 0
    BY <1>4, EndType, EmptySeq
  <2>2. LineBehind(p)'
    BY <2>1 DEF LineBehind
  <2> QED
    BY <1>4, <1>b, <2>2, EndType
<1>p. Loop \in Printers /\ Callers \subseteq Printers
  BY DEF Printers
<1>5. CASE Tick
  BY <1>5, <1>c DEF Tick
<1>6. CASE LoopStep
  BY <1>6, <1>p, <1>c, <1>3, <1>4 DEF LoopStep, LoopCanceled, LoopTick, LoopLoads, LoopPrinted
<1>7. ASSUME NEW c \in Callers, Start(c) \/ Snapshot(c) \/ LoopGone(c) PROVE CountersInv'
  BY <1>7, <1>c DEF Start, Snapshot, LoopGone, WaitEnds
<1>8. ASSUME NEW c \in Callers, CallerLoads(c) \/ StopPrinted(c) \/ FinalPrinted(c)
      PROVE  CountersInv'
  BY <1>8, <1>p, <1>3, <1>4 DEF CallerLoads, StopPrinted, FinalPrinted
<1>9. ASSUME NEW c \in Callers, NEW final \in BOOLEAN, Stop(c, final) PROVE CountersInv'
  BY <1>9, <1>c DEF Stop, StopAs
<1>10. CASE UNCHANGED vars
  BY <1>10, <1>c DEF vars
<1> QED
  BY <1>1, <1>2, <1>5, <1>6, <1>7, <1>8, <1>9, <1>10 DEF Next, CallerStep

\* What a line shows of a counter is what it loaded in the place of that counter.
LEMMA ShownAre ==
  ASSUME NEW p \in Printers
  PROVE  /\ Shown(p, "processed") = loaded[p][1] /\ Shown(p, "success") = loaded[p][2]
         /\ Shown(p, "failed") = loaded[p][3] /\ Shown(p, "skipped") = loaded[p][4]
<1>1. \A i \in 1 .. 4 : i = 1 \/ i = 2 \/ i = 3 \/ i = 4
  OBVIOUS
<1>2. /\ (CHOOSE i \in 1 .. 4 : Loads[i] = "processed") = 1
      /\ (CHOOSE i \in 1 .. 4 : Loads[i] = "success") = 2
      /\ (CHOOSE i \in 1 .. 4 : Loads[i] = "failed") = 3
      /\ (CHOOSE i \in 1 .. 4 : Loads[i] = "skipped") = 4
  BY <1>1, LoadsAre
<1> QED
  BY <1>2, LoadsAre DEF Shown

\* Any number of recorders: the processed count is ahead by the records half
\* counted, and a complete line lags behind by one record for each recorder at
\* most (progress.go 128-140, 259-263, 330-334, 357-360).
THEOREM CountersCorrect == Safety => []CountersAgree
<1>1. TypeOK /\ CountersInv => CountersAgree
  <2> SUFFICES ASSUME TypeOK, CountersInv PROVE CountersAgree
    OBVIOUS
  <2>1. ASSUME NEW p \in Printers, Printed(p)
        PROVE  Shown(p, "processed") <= Shown(p, "success") + Shown(p, "failed")
                 + Shown(p, "skipped") + bare + Cardinality(Recorders)
    BY <2>1, LoadsAre, ShownAre DEF CountersInv, LineBehind, Printed
  <2> QED
    BY <2>1 DEF CountersInv, Ahead, CountersAgree
<1> QED
  BY TypeInit, TypeStep, CountersInit, CountersStep, <1>1, PTL DEF Safety
=============================================================================
