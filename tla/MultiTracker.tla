---------------------------- MODULE MultiTracker ----------------------------
(***************************************************************************)
(* internal/tracker/multi_tracker.go: a map from file names to progress    *)
(* trackers under one RWMutex, and a global tracker beside it.  AddFile    *)
(* takes the write lock; RecordProcessed, Start, Stop and AllFileStats     *)
(* take the read lock, so these run side by side, Start and Stop included. *)
(*                                                                         *)
(* As in Go's sync.RWMutex, a writer that waits keeps new readers out.     *)
(*                                                                         *)
(* A tracker is an object with a life and one count; ProgressTracker.tla   *)
(* has what happens inside.  A map is walked in any order.                 *)
(***************************************************************************)
EXTENDS Naturals, FiniteSets

CONSTANTS
    Names,          \* the file names in use
    MaxTrackers,    \* bound: the trackers AddFile may create
    Callers,        \* goroutines that use the tracker
    Nobody,         \* no tracker, no name, no goroutine
    MaxRecords      \* bound: records counted for the total

ASSUME CallersAssumption == IsFiniteSet(Callers)
ASSUME BoundsAssumption == {MaxTrackers, MaxRecords} \subseteq Nat

Trackers == 1 .. MaxTrackers
Global == 0         \* MultiTracker.global
All == Trackers \cup {Global}

ASSUME NobodyAssumption == Nobody \notin Names \cup Callers \cup All

VARIABLES
    tracker,        \* MultiTracker.trackers
    life,           \* of every tracker: not made, new, running, cancelled, stopped
    count,          \* processedCount of every tracker
    unknown,        \* records of names that had no tracker
    readers, writer,\* mu: who holds it for reading, who has it or waits for it
    pc, arg,        \* where each caller is, and the name or tracker it has in hand
    todo,           \* the trackers a caller has still to visit
    sum,            \* what a reader of all stats has added up so far
    missed          \* per caller of Stop: trackers started after it had passed them

objectVars == <<tracker, life, count, unknown>>
lockVars == <<readers, writer>>
callVars == <<pc, arg, todo, sum, missed>>
vars == <<objectVars, lockVars, callVars>>

Mapped == {tracker[n] : n \in Names} \ {Nobody}
Made == {t \in Trackers : life[t] # "none"}
Replaced == Made \ Mapped
At(step) == {c \in Callers : pc[c] = step}
Stopping == At("stop") \cup At("stopWait")

----------------------------------------------------------------------------
\* Besides the types: who holds the lock, and no two names share a tracker.
TypeOK ==
    /\ tracker \in [Names -> Trackers \cup {Nobody}]
    /\ life \in [All -> {"none", "new", "running", "cancelled", "stopped"}]
    /\ count \in [All -> Nat] /\ unknown \in Nat
    /\ readers \subseteq Callers /\ writer \in Callers \cup {Nobody}
    /\ pc \in [Callers -> {"idle", "add", "file", "total", "start", "stop", "stopWait",
                           "stats", "globalStats", "read"}]
    /\ arg \in [Callers -> Names \cup All \cup {Nobody}]
    /\ todo \in [Callers -> SUBSET All]
    /\ sum \in [Callers -> Nat] /\ missed \in [Callers -> SUBSET All]
    /\ readers = {c \in Callers : pc[c] \in {"file", "start", "stop", "stopWait", "stats"}}
    /\ At("add") = {writer} \ {Nobody}
    /\ Mapped \subseteq Made
    /\ \A m, n \in Names : tracker[m] = tracker[n] /\ tracker[m] # Nobody => m = n

Init ==
    /\ tracker = [n \in Names |-> Nobody]
    /\ life = [t \in All |-> IF t = Global THEN "new" ELSE "none"]
    /\ count = [t \in All |-> 0] /\ unknown = 0
    /\ readers = {} /\ writer = Nobody
    /\ pc = [c \in Callers |-> "idle"] /\ arg = [c \in Callers |-> Nobody]
    /\ todo = [c \in Callers |-> {}] /\ sum = [c \in Callers |-> 0]
    /\ missed = [c \in Callers |-> {}]

----------------------------------------------------------------------------
Goto(c, step) == pc' = [pc EXCEPT ![c] = step]
InHand(c, x) == arg' = [arg EXCEPT ![c] = x]

\* A slip: readers are let in although a writer waits.
RLockBarging(c, step) ==
    /\ pc[c] = "idle" /\ Goto(c, step)
    /\ readers' = readers \cup {c} /\ UNCHANGED writer

RLock(c, step) ==
    /\ pc[c] = "idle" /\ Goto(c, step)
    /\ writer = Nobody
    /\ readers' = readers \cup {c} /\ UNCHANGED writer

RUnlock(c, step) ==
    /\ Goto(c, step)
    /\ readers' = readers \ {c} /\ UNCHANGED writer

(* AddFile: the lock, then a new tracker, which replaces one of that name.  *)

BeginAddFile(c, name) ==
    /\ pc[c] = "idle" /\ Goto(c, "add") /\ InHand(c, name)
    /\ writer = Nobody
    /\ Made # Trackers
    /\ writer' = c
    /\ UNCHANGED <<objectVars, readers, todo, sum, missed>>

PutFile(c) ==
    /\ pc[c] = "add" /\ Goto(c, "idle") /\ InHand(c, Nobody)
    /\ LET t == Cardinality(Made) + 1
       IN /\ life' = [life EXCEPT ![t] = "new"]
          /\ tracker' = [tracker EXCEPT ![arg[c]] = t]
    /\ writer' = Nobody
    /\ UNCHANGED <<count, unknown, readers, todo, sum, missed>>

\* A slip: AddFile does not keep the readers out.
AddFileUnlocked(c) == PutFile(c)

AddFile(c) == readers = {} /\ PutFile(c)

(* RecordProcessed: the file's tracker under the lock, then the total.     *)

BeginRecord(c, name) ==
    /\ RLock(c, "file") /\ InHand(c, name)
    /\ count[Global] + Cardinality(At("file") \cup At("total")) < MaxRecords
    /\ UNCHANGED <<objectVars, todo, sum, missed>>

\* The lock is given back, and the record goes on to the next count.
CountForFile(c, next) ==
    /\ pc[c] = "file" /\ RUnlock(c, next) /\ InHand(c, Nobody)
    /\ LET t == tracker[arg[c]]
       IN IF t = Nobody
          THEN unknown' = unknown + 1 /\ UNCHANGED count
          ELSE count' = [count EXCEPT ![t] = @ + 1] /\ UNCHANGED unknown
    /\ UNCHANGED <<tracker, life, todo, sum, missed>>

\* A slip: the record of an unknown name is not counted for the total.
RecordForFileOnly(c) ==
    pc[c] = "file" /\ CountForFile(c, IF tracker[arg[c]] = Nobody THEN "idle" ELSE "total")

RecordForFile(c) == CountForFile(c, "total")

RecordForTotal(c) ==
    /\ pc[c] = "total" /\ Goto(c, "idle")
    /\ count' = [count EXCEPT ![Global] = @ + 1]
    /\ UNCHANGED <<tracker, life, unknown, lockVars, arg, todo, sum, missed>>

(* Start: the files' trackers, then the global one, up to the first error. *)

BeginStart(c) ==
    /\ RLock(c, "start")
    /\ todo' = [todo EXCEPT ![c] = Mapped \cup {Global}]
    /\ UNCHANGED <<objectVars, arg, sum, missed>>

\* The global one is the last.
Turn(c, t) == t \in todo[c] /\ (t = Global => todo[c] = {Global})

\* A tracker that Stop holds lets its Start wait.
StartOne(c, t) ==
    /\ pc[c] = "start" /\ Turn(c, t)
    /\ life[t] = "new"
    /\ life' = [life EXCEPT ![t] = "running"]
    /\ todo' = [todo EXCEPT ![c] = @ \ {t}]
    /\ missed' = [d \in Callers |-> IF d \in Stopping /\ t \notin todo[d]
                                    THEN missed[d] \cup {t} ELSE missed[d]]
    /\ UNCHANGED <<tracker, count, unknown, lockVars, pc, arg, sum>>

\* A tracker that was ever started refuses: Start gives up on the others.
Refused(c, t) ==
    /\ pc[c] = "start" /\ Turn(c, t)
    /\ life[t] \in {"running", "stopped"}
    /\ todo' = [todo EXCEPT ![c] = {}]
    /\ UNCHANGED <<objectVars, arg, sum, missed>>

\* A slip: the read lock is kept when a tracker refuses.
StartFailsHolding(c, t) == Refused(c, t) /\ Goto(c, "idle") /\ UNCHANGED lockVars

StartFails(c, t) == Refused(c, t) /\ RUnlock(c, "idle")

StartReturns(c) ==
    /\ pc[c] = "start" /\ todo[c] = {}
    /\ RUnlock(c, "idle")
    /\ UNCHANGED <<objectVars, arg, todo, sum, missed>>

(* Stop: every tracker is cancelled and waited for, the global one last.   *)

BeginStop(c) ==
    /\ RLock(c, "stop")
    /\ todo' = [todo EXCEPT ![c] = Mapped \cup {Global}]
    /\ UNCHANGED <<objectVars, arg, sum, missed>>

StopOne(c, t) ==
    /\ pc[c] = "stop" /\ Turn(c, t)
    /\ todo' = [todo EXCEPT ![c] = @ \ {t}]
    /\ IF life[t] = "new" THEN UNCHANGED <<life, pc, arg>>
       ELSE /\ life' = IF life[t] = "running" THEN [life EXCEPT ![t] = "cancelled"] ELSE life
            /\ Goto(c, "stopWait") /\ InHand(c, t)
    /\ UNCHANGED <<tracker, count, unknown, lockVars, sum, missed>>

WaitOver(c) ==
    /\ pc[c] = "stopWait" /\ Goto(c, "stop") /\ InHand(c, Nobody)
    /\ UNCHANGED <<objectVars, lockVars, todo, sum, missed>>

\* A slip: Stop goes on without the loop's end.
StopWaitedNot(c) == WaitOver(c)

StopWaited(c) == pc[c] = "stopWait" /\ life[arg[c]] = "stopped" /\ WaitOver(c)

StopReturns(c) ==
    /\ pc[c] = "stop" /\ todo[c] = {}
    /\ RUnlock(c, "idle")
    /\ missed' = [missed EXCEPT ![c] = {}]
    /\ UNCHANGED <<objectVars, arg, todo, sum>>

\* The update loop of a cancelled tracker.
LoopExits(t) ==
    /\ life[t] = "cancelled"
    /\ life' = [life EXCEPT ![t] = "stopped"]
    /\ UNCHANGED <<tracker, count, unknown, lockVars, callVars>>

(* AllFileStats, and then GlobalStats, which takes no lock.                *)

BeginStats(c) ==
    /\ RLock(c, "stats")
    /\ todo' = [todo EXCEPT ![c] = Mapped]
    /\ UNCHANGED <<objectVars, arg, sum, missed>>

StatsOf(c, t) ==
    /\ pc[c] = "stats" /\ t \in todo[c]
    /\ sum' = [sum EXCEPT ![c] = @ + count[t]]
    /\ todo' = [todo EXCEPT ![c] = @ \ {t}]
    /\ UNCHANGED <<objectVars, lockVars, pc, arg, missed>>

StatsReturn(c) ==
    /\ pc[c] = "stats" /\ todo[c] = {}
    /\ RUnlock(c, "globalStats")
    /\ UNCHANGED <<objectVars, arg, todo, sum, missed>>

GlobalStats(c) ==
    /\ pc[c] = "globalStats" /\ Goto(c, "idle")
    /\ sum' = [sum EXCEPT ![c] = 0]
    /\ UNCHANGED <<objectVars, lockVars, arg, todo, missed>>

----------------------------------------------------------------------------
Begin(c) ==
    \/ \E n \in Names : BeginAddFile(c, n) \/ BeginRecord(c, n)
    \/ BeginStart(c) \/ BeginStop(c) \/ BeginStats(c)

CallStep(c) ==
    \/ AddFile(c) \/ RecordForFile(c) \/ RecordForTotal(c)
    \/ \E t \in All : StartOne(c, t) \/ StartFails(c, t) \/ StopOne(c, t) \/ StatsOf(c, t)
    \/ StartReturns(c) \/ StopWaited(c) \/ StopReturns(c) \/ StatsReturn(c) \/ GlobalStats(c)

LoopStep == \E t \in All : LoopExits(t)

Next == (\E c \in Callers : Begin(c) \/ CallStep(c)) \/ LoopStep

Safety == Init /\ [][Next]_vars

\* A call once begun keeps running, and so does every update loop.
Spec == Safety /\ WF_vars(LoopStep) /\ \A c \in Callers : WF_vars(CallStep(c))

----------------------------------------------------------------------------
\* What some trackers have counted: one element for each record of each of them.
RecordsOf(S) == UNION {{t} \X (1 .. count[t]) : t \in S}

\* No record is lost between the trackers although files are added and
\* replaced meanwhile: the files' counts and the records of unknown names are
\* the total and the records counted for their file alone.  So the files'
\* stats, read one by one and before the global ones, never add up to more
\* than the total but for these (multi_tracker.go 55-63, 92-120).
CountsAgree ==
    LET inFlight == Cardinality(At("total"))
    IN /\ Cardinality(RecordsOf(Trackers)) + unknown = count[Global] + inFlight
       /\ \A c \in Callers : sum[c] <= count[Global] + inFlight

\* A Start that returns nil leaves no tracker new.
StartsAll == \A c \in Callers : StartReturns(c) => \A t \in Mapped \cup {Global} : life[t] # "new"

\* Start starts every tracker or fails: when it returns nil no tracker of the
\* map, nor the global one, is still new, whatever AddFile was called meanwhile
\* (multi_tracker.go 66-77).
StartAllOrError == [][StartsAll]_vars

\* A Stop leaves no update loop of a tracker it could still reach.
StopsClean ==
    \A c \in Callers : StopReturns(c) =>
        \A t \in All \ (Replaced \cup missed[c]) : life[t] \notin {"running", "cancelled"}

\* When a Stop returns no update loop is left, whatever was called beside it, but for
\* two kinds it cannot reach: that of a tracker which AddFile has replaced, and
\* that of one which a Start beside it started after it had passed it by
\* (multi_tracker.go 41, 67-77, 80-89).
StopCleans == [][StopsClean]_vars

\* Every call returns: a Start that fails, a Stop that waits for a loop and a
\* writer that keeps the readers out hold nobody up for ever.
CallsReturn == \A c \in Callers : (pc[c] # "idle") ~> (pc[c] = "idle")
============================================================================
