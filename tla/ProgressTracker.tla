-------------------------- MODULE ProgressTracker --------------------------
(***************************************************************************)
(* internal/tracker/progress.go: atomic counters that recorders bump and   *)
(* printers load one at a time, and an update loop that prints them on     *)
(* every tick until Stop cancels it.  Start and Stop hold mu, Stop while   *)
(* it waits for the loop; the recorders and the loop take no lock.         *)
(*                                                                         *)
(* A print (printProgress, PrintFinal) is the sequence of the loads it     *)
(* begins with; the text, and the rates in it, which load the counters     *)
(* again, are not modelled.  The total, the elapsed time and what is       *)
(* computed from them are left out.                                        *)
(***************************************************************************)
EXTENDS Naturals, Sequences, FiniteSets

CONSTANTS
    Recorders,      \* goroutines that record results
    Callers,        \* goroutines that call everything else
    PerRecorder,    \* bound: results one recorder may record
    Loop,           \* names the update loop among the printers
    Nobody          \* mu is free

ASSUME RecordersAssumption == IsFiniteSet(Recorders)
ASSUME PerRecorderAssumption == PerRecorder \in Nat
ASSUME CallersAssumption == {Loop, Nobody} \cap Callers = {}

Statuses == {"success", "failed", "skipped"}
Printers == Callers \cup {Loop}

VARIABLES
    processed,      \* processedCount
    count,          \* successCount, failedCount, skippedCount
    pending,        \* per recorder, the status it has still to count
    left,           \* results each recorder may still record
    bare,           \* records without a status: IncrementProcessed, nil results
    started,        \* ProgressTracker.started
    ctxDone,        \* ProgressTracker.ctx is cancelled and the ticker stopped
    tick,           \* the tick buffered in ticker.C
    mu,             \* who holds mu
    loop,           \* where the update loop is
    callPc,         \* where each caller is
    loaded          \* what each printer has loaded so far

counterVars == <<processed, count, pending, left, bare>>
lifeVars == <<started, ctxDone, tick, mu, loop, callPc>>
vars == <<counterVars, lifeVars, loaded>>

\* A slip: the processed count is loaded after the others.
LoadsProcessedLast == <<"success", "failed", "skipped", "processed">>

\* The loads a print begins with, in program order.
Loads == <<"processed", "success", "failed", "skipped">>
ValueOf(name) == IF name = "processed" THEN processed ELSE count[name]

----------------------------------------------------------------------------
\* Besides the types: mu is held exactly while Stop waits and prints.
TypeOK ==
    /\ {processed, bare} \subseteq Nat /\ count \in [Statuses -> Nat]
    /\ pending \in [Recorders -> Statuses \cup {"none"}]
    /\ left \in [Recorders -> 0 .. PerRecorder]
    /\ {started, ctxDone, tick} \subseteq BOOLEAN
    /\ {mu} \ {Nobody} = {c \in Callers : callPc[c] \in {"waiting", "waitingFinal",
                                                          "printing", "printingFinal"}}
    /\ loop \in {"none", "select", "printing", "exited"}
    /\ callPc \in [Callers -> {"idle", "waiting", "waitingFinal", "printing",
                               "printingFinal", "final"}]
    /\ loaded \in [Printers -> Seq(Nat)]
    /\ \A p \in Printers : Len(loaded[p]) <= Len(Loads)

Init ==
    /\ processed = 0 /\ bare = 0 /\ count = [s \in Statuses |-> 0]
    /\ pending = [r \in Recorders |-> "none"]
    /\ left = [r \in Recorders |-> PerRecorder]
    /\ started = FALSE /\ ctxDone = FALSE /\ tick = FALSE
    /\ mu = Nobody /\ loop = "none"
    /\ callPc = [c \in Callers |-> "idle"]
    /\ loaded = [p \in Printers |-> <<>>]

----------------------------------------------------------------------------
(* RecordProcessed and the Increment functions: two atomic additions.      *)

RecordProcessed(r) ==
    /\ pending[r] = "none" /\ left[r] > 0
    /\ processed' = processed + 1
    /\ left' = [left EXCEPT ![r] = @ - 1]
    /\ \/ /\ \E s \in Statuses : pending' = [pending EXCEPT ![r] = s]
          /\ UNCHANGED bare
       \/ bare' = bare + 1 /\ UNCHANGED pending
    /\ UNCHANGED <<count, lifeVars, loaded>>

\* The second addition, for results that have a status.
CountStatus(r) ==
    /\ pending[r] # "none"
    /\ count' = [count EXCEPT ![pending[r]] = @ + 1]
    /\ pending' = [pending EXCEPT ![r] = "none"]
    /\ UNCHANGED <<processed, left, bare, lifeVars, loaded>>

----------------------------------------------------------------------------
(* Printing, by the loop or by a caller.                                   *)

\* A slip: a print takes the tracker's lock for every load.
PrintLoadsLocked(p) ==
    /\ Len(loaded[p]) < Len(Loads)
    /\ mu \in {p, Nobody}
    /\ loaded' = [loaded EXCEPT ![p] = Append(@, ValueOf(Loads[Len(@) + 1]))]

PrintEnds(p) == loaded' = [loaded EXCEPT ![p] = <<>>]

PrintLoads(p) ==
    /\ Len(loaded[p]) < Len(Loads)
    /\ loaded' = [loaded EXCEPT ![p] = Append(@, ValueOf(Loads[Len(@) + 1]))]

Printed(p) == Len(loaded[p]) = Len(Loads)

----------------------------------------------------------------------------
(* updateLoop.                                                             *)

\* The ticker: a tick is dropped when one is buffered already.
Tick ==
    /\ started /\ ~ctxDone
    /\ ~tick
    /\ tick' = TRUE
    /\ UNCHANGED <<counterVars, started, ctxDone, mu, loop, callPc, loaded>>

LoopCanceled ==
    /\ loop = "select" /\ ctxDone
    /\ loop' = "exited"
    /\ UNCHANGED <<counterVars, started, ctxDone, tick, mu, callPc, loaded>>

LoopTick ==
    /\ loop = "select" /\ tick
    /\ tick' = FALSE
    /\ loop' = "printing"
    /\ UNCHANGED <<counterVars, started, ctxDone, mu, callPc, loaded>>

LoopLoads ==
    /\ loop = "printing"
    /\ PrintLoads(Loop)
    /\ UNCHANGED <<counterVars, lifeVars>>

LoopPrinted ==
    /\ loop = "printing" /\ Printed(Loop)
    /\ loop' = "select"
    /\ PrintEnds(Loop)
    /\ UNCHANGED <<counterVars, started, ctxDone, tick, mu, callPc>>

LoopStep == LoopCanceled \/ LoopTick \/ LoopLoads \/ LoopPrinted

----------------------------------------------------------------------------
(* Start, Stop and StopAndPrintFinal.                                      *)

\* Start, under mu: a tracker that was ever started refuses.
Start(c) ==
    /\ callPc[c] = "idle" /\ mu = Nobody
    /\ ~started
    /\ started' = TRUE
    /\ loop' = "select"
    /\ UNCHANGED <<counterVars, ctxDone, tick, mu, callPc, loaded>>

\* Stop takes mu; on a tracker that was not started it returns at once.
StopAs(c, final, holder) ==
    /\ callPc[c] = "idle" /\ mu = Nobody
    /\ IF started
       THEN /\ ctxDone' = TRUE /\ mu' = holder
            /\ callPc' = [callPc EXCEPT ![c] = IF final THEN "waitingFinal" ELSE "waiting"]
       ELSE /\ callPc' = [callPc EXCEPT ![c] = IF final THEN "final" ELSE "idle"]
            /\ UNCHANGED <<ctxDone, mu>>
    /\ UNCHANGED <<counterVars, started, tick, loop, loaded>>

\* A slip: mu is given back before the wait.
StopUnlocked(c, final) == StopAs(c, final, Nobody)

Stop(c, final) == StopAs(c, final, c)

WaitEnds(c) ==
    /\ callPc[c] \in {"waiting", "waitingFinal"}
    /\ callPc' = [callPc EXCEPT ![c] = IF @ = "waiting" THEN "printing" ELSE "printingFinal"]
    /\ UNCHANGED <<counterVars, started, ctxDone, tick, mu, loop, loaded>>

\* A slip: Stop does not wait for the loop.
LoopGoneSkipped(c) == WaitEnds(c)

\* wg.Wait returns once the loop has.
LoopGone(c) == loop = "exited" /\ WaitEnds(c)

\* Stats and PrintFinal, called by themselves: the same loads, without mu.
Snapshot(c) ==
    /\ callPc[c] = "idle"
    /\ callPc' = [callPc EXCEPT ![c] = "final"]
    /\ UNCHANGED <<counterVars, started, ctxDone, tick, mu, loop, loaded>>

CallerLoads(c) ==
    /\ callPc[c] \in {"printing", "printingFinal", "final"}
    /\ PrintLoads(c)
    /\ UNCHANGED <<counterVars, lifeVars>>

\* Stop's print is done: mu is released, and StopAndPrintFinal goes on to
\* PrintFinal without it.
StopPrinted(c) ==
    /\ callPc[c] \in {"printing", "printingFinal"} /\ Printed(c)
    /\ mu' = Nobody
    /\ callPc' = [callPc EXCEPT ![c] = IF @ = "printing" THEN "idle" ELSE "final"]
    /\ PrintEnds(c)
    /\ UNCHANGED <<counterVars, started, ctxDone, tick, loop>>

FinalPrinted(c) ==
    /\ callPc[c] = "final" /\ Printed(c)
    /\ callPc' = [callPc EXCEPT ![c] = "idle"]
    /\ PrintEnds(c)
    /\ UNCHANGED <<counterVars, started, ctxDone, tick, mu, loop>>

CallerStep(c) == LoopGone(c) \/ CallerLoads(c) \/ StopPrinted(c) \/ FinalPrinted(c)

Next ==
    \/ \E r \in Recorders : RecordProcessed(r) \/ CountStatus(r)
    \/ Tick \/ LoopStep
    \/ \E c \in Callers : Start(c) \/ Snapshot(c) \/ CallerStep(c)
    \/ \E c \in Callers, final \in BOOLEAN : Stop(c, final)

Safety == Init /\ [][Next]_vars

\* The loop and a call once begun keep running; a call of Start or Stop, a
\* record or a tick need not happen.
Spec ==
    /\ Safety
    /\ WF_vars(LoopStep)
    /\ \A c \in Callers : WF_vars(CallerStep(c))

----------------------------------------------------------------------------
Sum == count["success"] + count["failed"] + count["skipped"]
InFlight == {r \in Recorders : pending[r] # "none"}

\* What a complete line shows of a counter.
Shown(p, name) == loaded[p][CHOOSE i \in 1 .. Len(Loads) : Loads[i] = name]

\* However the two additions of each record interleave, the processed count
\* runs ahead of the others by exactly the records half counted.  So what a
\* line or Stats shows, loaded one by one, never has fewer outcomes than
\* records but for those half counted when it was begun: the processed count
\* is loaded first (progress.go 128-140, 259-263, 330-334, 357-360).
CountersAgree ==
    /\ processed = Sum + bare + Cardinality(InFlight)
    /\ \A p \in Printers :
         Printed(p) =>
            Shown(p, "processed") <= Shown(p, "success") + Shown(p, "failed")
                + Shown(p, "skipped") + bare + Cardinality(Recorders)

\* The loop's lines and Stop's last line do not run into each other on the
\* writer, which has no lock of its own; and when Stop has returned on a started
\* tracker its loop is gone for good (progress.go 373-390).
PrintsExclusive ==
    LET stopping == {c \in Callers : callPc[c] \in {"printing", "printingFinal"}}
    IN /\ stopping # {} => loop # "printing"
       /\ Cardinality(stopping) <= 1
       /\ ctxDone /\ mu = Nobody => loop = "exited"

\* Stop returns although it holds mu while it waits for the loop, and although
\* a tick may be buffered when it cancels.
StopReturns == \A c \in Callers : (callPc[c] # "idle") ~> (callPc[c] = "idle")
============================================================================
