------------------------- MODULE MultiTrackerProofs -------------------------
(***************************************************************************)
(* Proofs about the multi-file tracker of MultiTracker.tla, for any finite *)
(* number of callers, any names and any number of trackers and records.    *)
(***************************************************************************)
EXTENDS MultiTracker, FiniteSetTheorems, TLAPS

Lives == {"none", "new", "running", "cancelled", "stopped"}
Pcs == {"idle", "add", "file", "total", "start", "stop", "stopWait", "stats", "globalStats", "read"}
ReadPcs == {"file", "start", "stop", "stopWait", "stats"}
Args == Names \cup All \cup {Nobody}

\* The trackers made so far are the first ones; AddFile, once it has the lock, has one
\* left to make.
Numbered ==
    /\ \E k \in 0 .. MaxTrackers : Made = 1 .. k
    /\ At("add") # {} => Made # Trackers

\* A caller that needs a name or a tracker has one in hand.
ArgsFit ==
    \A c \in Callers :
        /\ pc[c] \in {"add", "file"} => arg[c] \in Names
        /\ pc[c] = "stopWait" => arg[c] \in All

TypeInv == TypeOK /\ Numbered /\ ArgsFit

LEMMA Bounds == MaxTrackers \in Nat /\ Trackers = 1 .. MaxTrackers /\ All = 0 .. MaxTrackers /\ Global = 0
  BY BoundsAssumption DEF Trackers, All, Global

LEMMA NobodyElse == Nobody \notin Names /\ Nobody \notin Callers /\ Nobody \notin All
  BY NobodyAssumption

LEMMA TypeInit == Init => TypeInv
<1> SUFFICES ASSUME Init PROVE TypeInv
  OBVIOUS
<1>1. Made = {} /\ Mapped = {} /\ At("add") = {} /\ 1 .. 0 = {}
  BY Bounds DEF Init, Made, Mapped, At
<1>2. /\ life \in [All -> Lives] /\ count \in [All -> Nat] /\ tracker \in [Names -> Trackers \cup {Nobody}]
      /\ pc \in [Callers -> Pcs] /\ todo \in [Callers -> SUBSET All] /\ sum \in [Callers -> Nat]
      /\ arg \in [Callers -> Args]
  BY DEF Init, Lives, Pcs, Args
<1>3. readers = {c \in Callers : pc[c] \in ReadPcs}
  BY DEF Init, ReadPcs
<1>4. TypeOK
  BY <1>1, <1>2, <1>3 DEF Init, TypeOK, Lives, Pcs, ReadPcs, Args
<1>5. Numbered /\ ArgsFit
  BY <1>1, Bounds DEF Init, Numbered, ArgsFit
<1> QED
  BY <1>4, <1>5 DEF TypeInv

\* A caller's step that neither takes nor gives back the write lock.
LEMMA CallerMoves ==
  ASSUME TypeInv, NEW c \in Callers, NEW step \in Pcs \ {"add"}, NEW x \in Args,
         NEW S \in SUBSET All, NEW n \in Nat, pc[c] # "add",
         pc' = [pc EXCEPT ![c] = step], arg' = [arg EXCEPT ![c] = x],
         todo' = [todo EXCEPT ![c] = S], sum' = [sum EXCEPT ![c] = n],
         UNCHANGED <<tracker, writer>>,
         readers' = IF step \in ReadPcs THEN readers \cup {c} ELSE readers \ {c},
         life' \in [All -> Lives], \A t \in All : life'[t] = "none" <=> life[t] = "none",
         count' \in [All -> Nat], unknown' \in Nat, missed' \in [Callers -> SUBSET All],
         step = "file" => x \in Names, step = "stopWait" => x \in All
  PROVE  TypeInv'
<1>t. /\ pc \in [Callers -> Pcs] /\ arg \in [Callers -> Args] /\ todo \in [Callers -> SUBSET All]
      /\ sum \in [Callers -> Nat] /\ tracker \in [Names -> Trackers \cup {Nobody}]
      /\ readers = {d \in Callers : pc[d] \in ReadPcs} /\ At("add") = {writer} \ {Nobody}
  BY DEF TypeInv, TypeOK, Pcs, Args, ReadPcs
<1>1. /\ pc' \in [Callers -> Pcs] /\ arg' \in [Callers -> Args] /\ todo' \in [Callers -> SUBSET All]
      /\ sum' \in [Callers -> Nat]
  BY <1>t
<1>2. pc'[c] = step /\ arg'[c] = x /\ \A d \in Callers \ {c} : pc'[d] = pc[d] /\ arg'[d] = arg[d]
  BY <1>t
<1>3. readers' = {d \in Callers : pc'[d] \in ReadPcs}
  BY <1>t, <1>2
<1>4. At("add")' = At("add")
  BY <1>2 DEF At
<1>5. Made' = Made /\ Mapped' = Mapped
  BY Bounds DEF Made, Mapped
<1>6. TypeOK'
  BY <1>t, <1>1, <1>3, <1>4, <1>5 DEF TypeInv, TypeOK, Lives, Pcs, Args, ReadPcs
<1>7. Numbered'
  BY <1>4, <1>5 DEF TypeInv, Numbered
<1>8. ArgsFit'
  BY <1>2 DEF TypeInv, ArgsFit
<1> QED
  BY <1>6, <1>7, <1>8 DEF TypeInv

\* AddFile takes the write lock while a tracker is left to make.
LEMMA AddBegins ==
  ASSUME TypeInv, NEW c \in Callers, NEW name \in Names, BeginAddFile(c, name)
  PROVE  TypeInv'
<1>t. /\ pc \in [Callers -> Pcs] /\ arg \in [Callers -> Args]
      /\ readers = {d \in Callers : pc[d] \in ReadPcs} /\ At("add") = {writer} \ {Nobody}
  BY DEF TypeInv, TypeOK, Pcs, Args, ReadPcs
<1>1. /\ pc[c] = "idle" /\ pc' = [pc EXCEPT ![c] = "add"] /\ arg' = [arg EXCEPT ![c] = name]
      /\ writer = Nobody /\ writer' = c /\ Made # Trackers
      /\ UNCHANGED <<tracker, life, count, unknown, readers, todo, sum, missed>>
  BY DEF BeginAddFile, Goto, InHand, objectVars
<1>2. pc' \in [Callers -> Pcs] /\ arg' \in [Callers -> Args]
  BY <1>t, <1>1 DEF Pcs, Args
<1>3. pc'[c] = "add" /\ arg'[c] = name /\ \A d \in Callers \ {c} : pc'[d] = pc[d] /\ arg'[d] = arg[d]
  BY <1>t, <1>1
<1>4. readers' = {d \in Callers : pc'[d] \in ReadPcs}
  BY <1>t, <1>1, <1>3 DEF ReadPcs
<1>5. At("add")' = {writer'} \ {Nobody}
  BY <1>t, <1>1, <1>3, NobodyElse DEF At
<1>6. Made' = Made /\ Mapped' = Mapped
  BY <1>1 DEF Made, Mapped
<1>7. TypeOK'
  BY <1>1, <1>2, <1>4, <1>5, <1>6 DEF TypeInv, TypeOK, Pcs, Args, ReadPcs
<1>8. Numbered' /\ ArgsFit'
  BY <1>1, <1>3, <1>6 DEF TypeInv, Numbered, ArgsFit
<1> QED
  BY <1>7, <1>8 DEF TypeInv

\* The new tracker is the next one, and no name has it yet.
LEMMA AddEnds ==
  ASSUME TypeInv, NEW c \in Callers, AddFile(c)
  PROVE  /\ TypeInv'
         /\ readers = {} /\ UNCHANGED <<count, unknown, readers, todo, sum, missed>>
         /\ pc[c] = "add" /\ pc' = [pc EXCEPT ![c] = "idle"]
<1>t. /\ pc \in [Callers -> Pcs] /\ arg \in [Callers -> Args] /\ life \in [All -> Lives]
      /\ tracker \in [Names -> Trackers \cup {Nobody}]
      /\ readers = {d \in Callers : pc[d] \in ReadPcs} /\ At("add") = {writer} \ {Nobody}
      /\ Mapped \subseteq Made
  BY DEF TypeInv, TypeOK, Pcs, Args, ReadPcs, Lives
<1> DEFINE t == Cardinality(Made) + 1
<1>1. /\ pc[c] = "add" /\ pc' = [pc EXCEPT ![c] = "idle"] /\ arg' = [arg EXCEPT ![c] = Nobody]
      /\ readers = {} /\ writer' = Nobody
      /\ life' = [life EXCEPT ![t] = "new"] /\ tracker' = [tracker EXCEPT ![arg[c]] = t]
      /\ UNCHANGED <<count, unknown, readers, todo, sum, missed>>
  BY DEF AddFile, PutFile, Goto, InHand
<1>2. arg[c] \in Names /\ Made # Trackers
  BY <1>1 DEF TypeInv, ArgsFit, Numbered, At
<1>3. PICK k \in 0 .. MaxTrackers : Made = 1 .. k
  BY DEF TypeInv, Numbered
<1>4. Cardinality(Made) = k /\ k \in Nat
  BY <1>3, FS_Interval, Bounds
<1>5. t = k + 1 /\ k < MaxTrackers
  BY <1>2, <1>3, <1>4, Bounds
<1> HIDE DEF t
<1>6. t \in Trackers /\ t \in All /\ t \notin Made /\ t # Nobody /\ k + 1 \in 0 .. MaxTrackers
  BY <1>3, <1>4, <1>5, Bounds, NobodyElse
<1>7. life' \in [All -> Lives] /\ tracker' \in [Names -> Trackers \cup {Nobody}]
  BY <1>t, <1>1, <1>2, <1>6 DEF Lives
<1>8. Made' = Made \cup {t}
  BY <1>t, <1>1, <1>6 DEF Made
<1>9. Made' = 1 .. k + 1
  BY <1>3, <1>4, <1>5, <1>8
<1>10. /\ tracker'[arg[c]] = t /\ \A m \in Names : m # arg[c] => tracker'[m] = tracker[m]
       /\ \A m \in Names : tracker[m] # t
  BY <1>t, <1>1, <1>2, <1>6 DEF Mapped
<1>11. Mapped' \subseteq Made'
  BY <1>t, <1>8, <1>10 DEF Mapped
<1>12. \A m, n \in Names : tracker'[m] = tracker'[n] /\ tracker'[m] # Nobody => m = n
  BY <1>10 DEF TypeInv, TypeOK
<1>13. pc'[c] = "idle" /\ \A d \in Callers \ {c} : pc'[d] = pc[d] /\ arg'[d] = arg[d]
  BY <1>t, <1>1
<1>14. pc' \in [Callers -> Pcs] /\ arg' \in [Callers -> Args]
  BY <1>t, <1>1 DEF Pcs, Args
<1>15. readers' = {d \in Callers : pc'[d] \in ReadPcs}
  BY <1>t, <1>1, <1>13 DEF ReadPcs
<1>16. At("add")' = {} /\ {writer'} \ {Nobody} = {}
  BY <1>t, <1>1, <1>13 DEF At
<1>17. TypeOK'
  BY <1>1, <1>7, <1>11, <1>12, <1>14, <1>15, <1>16 DEF TypeInv, TypeOK, Lives, Pcs, Args, ReadPcs
<1>18. Numbered'
  BY <1>6, <1>9, <1>16 DEF Numbered
<1>19. ArgsFit'
  BY <1>13 DEF TypeInv, ArgsFit
<1> QED
  BY <1>1, <1>17, <1>18, <1>19 DEF TypeInv

\* The steps of the readers, with and without the lock.
LEMMA ReaderMoves ==
  ASSUME TypeInv, NEW c \in Callers,
         \/ \E n \in Names : BeginRecord(c, n)
         \/ BeginStart(c) \/ BeginStop(c) \/ BeginStats(c)
         \/ RecordForFile(c) \/ RecordForTotal(c)
         \/ \E t \in All : StartOne(c, t) \/ StartFails(c, t) \/ StopOne(c, t) \/ StatsOf(c, t)
         \/ StartReturns(c) \/ StopWaited(c) \/ StopReturns(c) \/ StatsReturn(c) \/ GlobalStats(c)
  PROVE  TypeInv'
<1>t. /\ pc \in [Callers -> Pcs] /\ arg \in [Callers -> Args] /\ todo \in [Callers -> SUBSET All]
      /\ sum \in [Callers -> Nat] /\ life \in [All -> Lives] /\ count \in [All -> Nat]
      /\ tracker \in [Names -> Trackers \cup {Nobody}] /\ unknown \in Nat /\ missed \in [Callers -> SUBSET All]
      /\ readers = {d \in Callers : pc[d] \in ReadPcs}
      /\ Mapped \cup {Global} \subseteq All
  BY Bounds DEF TypeInv, TypeOK, Pcs, Args, ReadPcs, Lives, Mapped
<1>s. /\ pc[c] \in Pcs /\ arg[c] \in Args /\ todo[c] \in SUBSET All /\ sum[c] \in Nat
      /\ pc = [pc EXCEPT ![c] = pc[c]] /\ arg = [arg EXCEPT ![c] = arg[c]]
      /\ todo = [todo EXCEPT ![c] = todo[c]] /\ sum = [sum EXCEPT ![c] = sum[c]]
  BY <1>t
<1>r. readers = IF pc[c] \in ReadPcs THEN readers \cup {c} ELSE readers \ {c}
  BY <1>t
<1>a. pc[c] = "stopWait" => arg[c] \in All
  BY DEF TypeInv, ArgsFit
\* A step that changes where the caller is, and the trackers it has to visit.
<1>m. ASSUME NEW step \in Pcs \ {"add"}, NEW x \in Args, NEW S \in SUBSET All, NEW n \in Nat, pc[c] # "add",
             pc' = [pc EXCEPT ![c] = step], arg' = [arg EXCEPT ![c] = x],
             todo' = [todo EXCEPT ![c] = S], sum' = [sum EXCEPT ![c] = n],
             UNCHANGED <<tracker, writer>>,
             readers' = IF step \in ReadPcs THEN readers \cup {c} ELSE readers \ {c},
             life' = life \/ (life' \in [All -> Lives] /\ \A t \in All : life'[t] = "none" <=> life[t] = "none"),
             count' \in [All -> Nat], unknown' \in Nat, missed' \in [Callers -> SUBSET All],
             step = "file" => x \in Names, step = "stopWait" => x \in All
      PROVE  TypeInv'
  <2>1. life' \in [All -> Lives] /\ \A t \in All : life'[t] = "none" <=> life[t] = "none"
    BY <1>m, <1>t
  <2> QED
    BY <1>m, <2>1, CallerMoves
<1>1. ASSUME NEW name \in Names, BeginRecord(c, name) PROVE TypeInv'
  <2>1. /\ pc[c] = "idle" /\ pc' = [pc EXCEPT ![c] = "file"] /\ readers' = readers \cup {c}
        /\ arg' = [arg EXCEPT ![c] = name]
        /\ UNCHANGED <<tracker, life, count, unknown, writer, todo, sum, missed>>
    BY <1>1 DEF BeginRecord, RLock, Goto, InHand, objectVars
  <2> QED
    BY <1>m, <1>s, <1>t, <2>1 DEF Pcs, ReadPcs, Args
<1>2. CASE BeginStart(c) \/ BeginStop(c)
  <2>1. /\ pc[c] = "idle" /\ (pc' = [pc EXCEPT ![c] = "start"] \/ pc' = [pc EXCEPT ![c] = "stop"])
        /\ readers' = readers \cup {c} /\ todo' = [todo EXCEPT ![c] = Mapped \cup {Global}]
        /\ UNCHANGED <<tracker, life, count, unknown, writer, arg, sum, missed>>
    BY <1>2 DEF BeginStart, BeginStop, RLock, Goto, objectVars
  <2> QED
    BY <1>m, <1>s, <1>t, <2>1 DEF Pcs, ReadPcs
<1>3. CASE BeginStats(c)
  <2>1. /\ pc[c] = "idle" /\ pc' = [pc EXCEPT ![c] = "stats"]
        /\ readers' = readers \cup {c} /\ todo' = [todo EXCEPT ![c] = Mapped]
        /\ UNCHANGED <<tracker, life, count, unknown, writer, arg, sum, missed>>
    BY <1>3 DEF BeginStats, RLock, Goto, objectVars
  <2> QED
    BY <1>m, <1>s, <1>t, <2>1 DEF Pcs, ReadPcs
<1>4. CASE RecordForFile(c)
  <2>1. /\ pc[c] = "file" /\ pc' = [pc EXCEPT ![c] = "total"] /\ arg' = [arg EXCEPT ![c] = Nobody]
        /\ readers' = readers \ {c} /\ UNCHANGED <<tracker, life, writer, todo, sum, missed>>
    BY <1>4 DEF RecordForFile, CountForFile, RUnlock, Goto, InHand
  <2>2. tracker[arg[c]] \in Trackers \cup {Nobody}
    BY <1>t, <2>1 DEF TypeInv, ArgsFit
  <2>3. unknown' \in Nat /\ count' \in [All -> Nat]
    <3>1. CASE tracker[arg[c]] = Nobody
      BY <1>4, <1>t, <3>1 DEF RecordForFile, CountForFile
    <3>2. CASE tracker[arg[c]] # Nobody
      <4>1. tracker[arg[c]] \in All
        BY <2>2, <3>2, Bounds
      <4>2. count' = [count EXCEPT ![tracker[arg[c]]] = count[tracker[arg[c]]] + 1] /\ unknown' = unknown
        BY <1>4, <1>t, <3>2, <4>1 DEF RecordForFile, CountForFile
      <4> QED
        BY <1>t, <4>1, <4>2
    <3> QED
      BY <3>1, <3>2
  <2> QED
    BY <1>m, <1>s, <1>t, <2>1, <2>3 DEF Pcs, ReadPcs, Args
<1>5. CASE RecordForTotal(c)
  <2>1. /\ pc[c] = "total" /\ pc' = [pc EXCEPT ![c] = "idle"]
        /\ UNCHANGED <<tracker, life, unknown, readers, writer, arg, todo, sum, missed>>
    BY <1>5 DEF RecordForTotal, Goto, lockVars
  <2>2. count' \in [All -> Nat]
    BY <1>5, <1>t, Bounds DEF RecordForTotal
  <2>3. readers' = readers \ {c}
    BY <1>r, <2>1 DEF ReadPcs
  <2> QED
    BY <1>m, <1>s, <1>t, <2>1, <2>2, <2>3 DEF Pcs, ReadPcs
<1>6. ASSUME NEW t \in All, StartOne(c, t) PROVE TypeInv'
  <2>1. /\ pc[c] = "start" /\ life[t] = "new" /\ life' = [life EXCEPT ![t] = "running"]
        /\ todo' = [todo EXCEPT ![c] = todo[c] \ {t}]
        /\ UNCHANGED <<tracker, count, unknown, readers, writer, pc, arg, sum>>
    BY <1>6, <1>t DEF StartOne, lockVars
  <2>m. missed' \in [Callers -> SUBSET All]
    BY <1>6, <1>t DEF StartOne
  <2>2. life' \in [All -> Lives] /\ \A u \in All : life'[u] = "none" <=> life[u] = "none"
    BY <1>t, <2>1 DEF Lives
  <2>3. /\ pc[c] # "add" /\ pc' = [pc EXCEPT ![c] = "start"] /\ arg' = [arg EXCEPT ![c] = arg[c]]
        /\ sum' = [sum EXCEPT ![c] = sum[c]] /\ todo[c] \ {t} \in SUBSET All
        /\ count' \in [All -> Nat] /\ unknown' \in Nat /\ missed' \in [Callers -> SUBSET All]
    BY <1>s, <1>t, <2>1, <2>m
  <2>4. /\ "start" \in Pcs \ {"add"} /\ "start" \in ReadPcs
        /\ readers' = readers \cup {c}
    BY <1>r, <2>1 DEF ReadPcs, Pcs
  <2>5. PICK S \in SUBSET All : S = todo[c] \ {t}
    BY <2>3
  <2>6. todo' = [todo EXCEPT ![c] = S] /\ UNCHANGED <<tracker, writer>> /\ arg[c] \in Args /\ sum[c] \in Nat
    BY <1>s, <2>1, <2>5
  <2> QED
    BY ONLY <1>m, <2>2, <2>3, <2>4, <2>6
<1>7. ASSUME NEW t \in All, StartFails(c, t) PROVE TypeInv'
  <2>1. /\ pc[c] = "start" /\ pc' = [pc EXCEPT ![c] = "idle"] /\ readers' = readers \ {c}
        /\ todo' = [todo EXCEPT ![c] = {}]
        /\ UNCHANGED <<tracker, life, count, unknown, writer, arg, sum, missed>>
    BY <1>7 DEF StartFails, Refused, RUnlock, Goto, objectVars
  <2> QED
    BY <1>m, <1>s, <1>t, <2>1 DEF Pcs, ReadPcs
<1>8. ASSUME NEW t \in All, StopOne(c, t) PROVE TypeInv'
  <2>1. /\ pc[c] = "stop" /\ todo' = [todo EXCEPT ![c] = todo[c] \ {t}]
        /\ UNCHANGED <<tracker, count, unknown, readers, writer, sum, missed>>
        /\ \/ UNCHANGED <<life, pc, arg>>
           \/ /\ life' = life \/ (life[t] = "running" /\ life' = [life EXCEPT ![t] = "cancelled"])
              /\ pc' = [pc EXCEPT ![c] = "stopWait"] /\ arg' = [arg EXCEPT ![c] = t]
    BY <1>8, <1>t DEF StopOne, lockVars, Goto, InHand
  <2>2. life' = life \/ (life' \in [All -> Lives] /\ \A u \in All : life'[u] = "none" <=> life[u] = "none")
    BY <1>t, <2>1 DEF Lives
  <2>3. readers' = readers \cup {c} /\ todo[c] \ {t} \in SUBSET All
    BY <1>r, <1>s, <2>1 DEF ReadPcs
  <2>4. CASE pc' = pc /\ arg' = arg
    <3>1. pc' = [pc EXCEPT ![c] = "stop"]
      BY <1>s, <2>1, <2>4
    <3> QED
      BY <1>m, <1>s, <1>t, <2>1, <2>2, <2>3, <2>4, <3>1 DEF Pcs, ReadPcs
  <2>5. CASE pc' = [pc EXCEPT ![c] = "stopWait"] /\ arg' = [arg EXCEPT ![c] = t]
    BY <1>m, <1>s, <1>t, <2>1, <2>2, <2>3, <2>5 DEF Pcs, ReadPcs, Args
  <2> QED
    BY <2>1, <2>4, <2>5
<1>9. ASSUME NEW t \in All, StatsOf(c, t) PROVE TypeInv'
  <2>1. /\ pc[c] = "stats" /\ sum' = [sum EXCEPT ![c] = sum[c] + count[t]]
        /\ todo' = [todo EXCEPT ![c] = todo[c] \ {t}]
        /\ UNCHANGED <<tracker, life, count, unknown, readers, writer, pc, arg, missed>>
    BY <1>9, <1>t DEF StatsOf, lockVars, objectVars
  <2>2. /\ pc[c] # "add" /\ pc' = [pc EXCEPT ![c] = "stats"] /\ arg' = [arg EXCEPT ![c] = arg[c]]
        /\ todo[c] \ {t} \in SUBSET All
        /\ count' \in [All -> Nat] /\ unknown' \in Nat /\ missed' \in [Callers -> SUBSET All]
    BY <1>s, <1>t, <2>1
  <2>3. sum[c] + count[t] \in Nat
    BY <1>s, <1>t
  <2>4. "stats" \in Pcs \ {"add"} /\ "stats" \in ReadPcs /\ readers' = readers \cup {c}
    BY <1>r, <2>1 DEF ReadPcs, Pcs
  <2>5. PICK S \in SUBSET All : S = todo[c] \ {t}
    BY <2>2
  <2>6. PICK n \in Nat : n = sum[c] + count[t]
    BY <2>3
  <2> QED
    BY ONLY <1>m, <1>s, <2>1, <2>2, <2>4, <2>5, <2>6
<1>10. CASE StartReturns(c) \/ StopReturns(c)
  <2>1. /\ pc[c] \in {"start", "stop"} /\ pc' = [pc EXCEPT ![c] = "idle"] /\ readers' = readers \ {c}
        /\ missed' \in [Callers -> SUBSET All] /\ UNCHANGED <<tracker, life, count, unknown, writer, arg, todo, sum>>
    BY <1>10, <1>t DEF StartReturns, StopReturns, RUnlock, Goto, objectVars
  <2>2. /\ pc[c] # "add" /\ arg' = [arg EXCEPT ![c] = arg[c]] /\ todo' = [todo EXCEPT ![c] = todo[c]]
        /\ sum' = [sum EXCEPT ![c] = sum[c]] /\ count' \in [All -> Nat] /\ unknown' \in Nat
        /\ missed' \in [Callers -> SUBSET All]
    BY <1>s, <1>t, <2>1
  <2>3. "idle" \in Pcs \ {"add"} /\ "idle" \notin ReadPcs
    BY DEF ReadPcs, Pcs
  <2> QED
    BY <1>m, <1>s, <2>1, <2>2, <2>3
<1>11. CASE StopWaited(c)
  <2>1. /\ pc[c] = "stopWait" /\ pc' = [pc EXCEPT ![c] = "stop"] /\ arg' = [arg EXCEPT ![c] = Nobody]
        /\ UNCHANGED <<tracker, life, count, unknown, readers, writer, todo, sum, missed>>
    BY <1>11 DEF StopWaited, WaitOver, Goto, InHand, objectVars, lockVars
  <2>2. /\ pc[c] # "add" /\ todo' = [todo EXCEPT ![c] = todo[c]] /\ sum' = [sum EXCEPT ![c] = sum[c]]
        /\ count' \in [All -> Nat] /\ unknown' \in Nat /\ missed' \in [Callers -> SUBSET All]
    BY <1>s, <1>t, <2>1
  <2>3. /\ "stop" \in Pcs \ {"add"} /\ "stop" \in ReadPcs /\ Nobody \in Args
        /\ readers' = readers \cup {c}
    BY <1>r, <2>1 DEF ReadPcs, Pcs, Args
  <2> QED
    BY <1>m, <1>s, <2>1, <2>2, <2>3
<1>12. CASE StatsReturn(c)
  <2>1. /\ pc[c] = "stats" /\ pc' = [pc EXCEPT ![c] = "globalStats"] /\ readers' = readers \ {c}
        /\ UNCHANGED <<tracker, life, count, unknown, writer, arg, todo, sum, missed>>
    BY <1>12 DEF StatsReturn, RUnlock, Goto, objectVars
  <2>2. /\ pc[c] # "add" /\ arg' = [arg EXCEPT ![c] = arg[c]] /\ todo' = [todo EXCEPT ![c] = todo[c]]
        /\ sum' = [sum EXCEPT ![c] = sum[c]] /\ count' \in [All -> Nat] /\ unknown' \in Nat
        /\ missed' \in [Callers -> SUBSET All]
    BY <1>s, <1>t, <2>1
  <2>3. "globalStats" \in Pcs \ {"add"} /\ "globalStats" \notin ReadPcs
    BY DEF ReadPcs, Pcs
  <2> QED
    BY <1>m, <1>s, <2>1, <2>2, <2>3
<1>13. CASE GlobalStats(c)
  <2>1. /\ pc[c] = "globalStats" /\ pc' = [pc EXCEPT ![c] = "idle"] /\ sum' = [sum EXCEPT ![c] = 0]
        /\ UNCHANGED <<tracker, life, count, unknown, readers, writer, arg, todo, missed>>
    BY <1>13 DEF GlobalStats, Goto, objectVars, lockVars
  <2>2. readers' = readers \ {c}
    BY <1>r, <2>1 DEF ReadPcs
  <2> QED
    BY <1>m, <1>s, <1>t, <2>1, <2>2 DEF Pcs, ReadPcs
<1> QED
  BY <1>1, <1>2, <1>3, <1>4, <1>5, <1>6, <1>7, <1>8, <1>9, <1>10, <1>11, <1>12, <1>13

LEMMA TypeStep == TypeInv /\ [Next]_vars => TypeInv'
<1> SUFFICES ASSUME TypeInv, [Next]_vars PROVE TypeInv'
  OBVIOUS
<1>1. ASSUME NEW t \in All, LoopExits(t) PROVE TypeInv'
  <2>1. /\ life[t] = "cancelled" /\ life' = [life EXCEPT ![t] = "stopped"]
        /\ UNCHANGED <<tracker, count, unknown, readers, writer, pc, arg, todo, sum, missed>>
    BY <1>1 DEF LoopExits, lockVars, callVars
  <2>2. life \in [All -> Lives]
    BY DEF TypeInv, TypeOK, Lives
  <2>3. life' \in [All -> Lives] /\ \A u \in All : life'[u] = "none" <=> life[u] = "none"
    BY <2>1, <2>2 DEF Lives
  <2>4. Made' = Made /\ Mapped' = Mapped /\ At("add")' = At("add")
    BY <2>1, <2>3, Bounds DEF Made, Mapped, At
  <2> QED
    BY <2>1, <2>3, <2>4 DEF TypeInv, TypeOK, Lives, Numbered, ArgsFit
<1>2. CASE UNCHANGED vars
  <2>1. UNCHANGED <<tracker, life, count, unknown, readers, writer, pc, arg, todo, sum, missed>>
    BY <1>2 DEF vars, objectVars, lockVars, callVars
  <2>2. Made' = Made /\ Mapped' = Mapped /\ At("add")' = At("add")
    BY <2>1 DEF Made, Mapped, At
  <2> QED
    BY <2>1, <2>2 DEF TypeInv, TypeOK, Numbered, ArgsFit
<1> QED
  BY <1>1, <1>2, AddBegins, AddEnds, ReaderMoves DEF Next, Begin, CallStep, LoopStep

\* Any number of callers, names and trackers: the readers and the writer are those the
\* lock lets in, and no two names share a tracker (multi_tracker.go 32-63).
THEOREM MultiTypeCorrect == Safety => []TypeOK
<1>1. TypeInv => TypeOK
  BY DEF TypeInv
<1> QED
  BY TypeInit, TypeStep, <1>1, PTL DEF Safety

----------------------------------------------------------------------------
\* A Start has been to every tracker of the map, or will go to it yet, unless that
\* tracker is not new any more.
StartInv ==
    \A c \in At("start") : \A t \in Mapped \cup {Global} : t \in todo[c] \/ life[t] # "new"

\* A Stop leaves behind trackers whose loop has ended or was never started, but for
\* those it has still to visit, the one it waits for and those started behind its back.
StopInv ==
    \A c \in Stopping : \A t \in Mapped \cup {Global} :
        \/ t \in todo[c] \cup missed[c] \/ life[t] \in {"new", "stopped"}
        \/ pc[c] = "stopWait" /\ arg[c] = t

LEMMA LifeInit == Init => StartInv /\ StopInv
  BY DEF Init, StartInv, StopInv, Stopping, At

\* A step of a caller that has nothing to do with Start and Stop, once it is taken.
LEMMA ElsewhereMoves ==
  ASSUME TypeInv, StartInv, StopInv, NEW c \in Callers,
         pc[c] \notin {"stop", "stopWait"}, pc'[c] \notin {"start", "stop", "stopWait"},
         \A d \in Callers \ {c} : pc'[d] = pc[d] /\ arg'[d] = arg[d] /\ todo'[d] = todo[d],
         UNCHANGED <<tracker, life, missed>>
  PROVE  StartInv' /\ StopInv'
<1>1. Mapped' = Mapped /\ Stopping' = Stopping /\ At("start")' = At("start") \ {c}
  BY DEF Mapped, Stopping, At
<1>2. c \notin Stopping
  BY DEF Stopping, At
<1>3. StartInv'
  BY <1>1 DEF StartInv, At
<1>4. StopInv'
  BY <1>1, <1>2 DEF StopInv, Stopping, At
<1> QED
  BY <1>3, <1>4

\* A step that leaves the calls where they are, and ends at most the life of trackers.
LEMMA LivesEnd ==
  ASSUME TypeInv, StartInv, StopInv, UNCHANGED <<tracker, missed, pc, arg, todo>>,
         \A t \in All : \/ life'[t] = life[t]
                        \/ life[t] = "cancelled" /\ life'[t] = "stopped"
  PROVE  StartInv' /\ StopInv'
<1>1. Mapped' = Mapped /\ Stopping' = Stopping /\ \A step : At(step)' = At(step)
  BY DEF Mapped, Stopping, At
<1>2. Mapped \cup {Global} \subseteq All
  BY Bounds DEF TypeInv, TypeOK, Mapped
<1>3. StartInv'
  BY <1>1, <1>2 DEF StartInv
<1>4. StopInv'
  BY <1>1, <1>2 DEF StopInv
<1> QED
  BY <1>3, <1>4

LEMMA LifeStep == TypeInv /\ StartInv /\ StopInv /\ [Next]_vars => StartInv' /\ StopInv'
<1> SUFFICES ASSUME TypeInv, StartInv, StopInv, [Next]_vars PROVE StartInv' /\ StopInv'
  OBVIOUS
<1>t. /\ pc \in [Callers -> Pcs] /\ arg \in [Callers -> Args] /\ todo \in [Callers -> SUBSET All]
      /\ life \in [All -> Lives] /\ Mapped \cup {Global} \subseteq All
  BY Bounds DEF TypeInv, TypeOK, Pcs, Args, Lives, Mapped
<1>1. ASSUME NEW c \in Callers, NEW step \in {"add", "file"}, NEW name \in Names,
             pc[c] = "idle", pc' = [pc EXCEPT ![c] = step], arg' = [arg EXCEPT ![c] = name],
             UNCHANGED <<tracker, life, todo, missed>>
      PROVE  StartInv' /\ StopInv'
  BY <1>1, <1>t, ElsewhereMoves
<1>2. ASSUME NEW c \in Callers, BeginStats(c) PROVE StartInv' /\ StopInv'
  <2>1. /\ pc[c] = "idle" /\ pc' = [pc EXCEPT ![c] = "stats"] /\ todo' = [todo EXCEPT ![c] = Mapped]
        /\ UNCHANGED <<tracker, life, arg, missed>>
    BY <1>2 DEF BeginStats, RLock, Goto, objectVars
  <2> QED
    BY <1>t, <2>1, ElsewhereMoves
<1>3. ASSUME NEW c \in Callers, RecordForFile(c) \/ RecordForTotal(c) PROVE StartInv' /\ StopInv'
  <2>1. /\ pc[c] \in {"file", "total"}
        /\ \E step \in {"total", "idle"}, x \in Args :
              pc' = [pc EXCEPT ![c] = step] /\ arg' = [arg EXCEPT ![c] = x]
        /\ UNCHANGED <<tracker, life, todo, missed>>
    BY <1>3, <1>t DEF RecordForFile, CountForFile, RecordForTotal, RUnlock, Goto, InHand, Args
  <2> QED
    BY <1>t, <2>1, ElsewhereMoves
<1>4. ASSUME NEW c \in Callers, NEW t \in All, StatsOf(c, t) PROVE StartInv' /\ StopInv'
  <2>1. /\ pc[c] = "stats" /\ todo' = [todo EXCEPT ![c] = todo[c] \ {t}]
        /\ UNCHANGED <<tracker, life, pc, arg, missed>>
    BY <1>4, <1>t DEF StatsOf, objectVars
  <2> QED
    BY <1>t, <2>1, ElsewhereMoves
<1>5. ASSUME NEW c \in Callers, StatsReturn(c) \/ GlobalStats(c) \/ StartReturns(c) PROVE StartInv' /\ StopInv'
  <2>1. /\ pc[c] \in {"stats", "globalStats", "start"}
        /\ (pc' = [pc EXCEPT ![c] = "globalStats"] \/ pc' = [pc EXCEPT ![c] = "idle"])
        /\ UNCHANGED <<tracker, life, arg, todo, missed>>
    BY <1>5 DEF StatsReturn, GlobalStats, StartReturns, RUnlock, Goto, objectVars
  <2> QED
    BY <1>t, <2>1, ElsewhereMoves
<1>6. ASSUME NEW c \in Callers, NEW t \in All, StartFails(c, t) PROVE StartInv' /\ StopInv'
  <2>1. /\ pc[c] = "start" /\ pc' = [pc EXCEPT ![c] = "idle"] /\ todo' = [todo EXCEPT ![c] = {}]
        /\ UNCHANGED <<tracker, life, arg, missed>>
    BY <1>6 DEF StartFails, Refused, RUnlock, Goto, objectVars
  <2> QED
    BY <1>t, <2>1, ElsewhereMoves
<1>7. ASSUME NEW c \in Callers, AddFile(c) PROVE StartInv' /\ StopInv'
  <2>1. readers = {} /\ missed' = missed /\ pc' = [pc EXCEPT ![c] = "idle"]
    BY <1>7, AddEnds
  <2>2. At("start") = {} /\ Stopping = {}
    BY <2>1 DEF TypeInv, TypeOK, At, Stopping
  <2>3. At("start")' = {} /\ Stopping' = {}
    BY <1>t, <2>1, <2>2 DEF At, Stopping
  <2> QED
    BY <2>1, <2>2, <2>3 DEF StartInv, StopInv
<1>8. ASSUME NEW c \in Callers, BeginStart(c) PROVE StartInv' /\ StopInv'
  <2>1. /\ pc[c] = "idle" /\ pc' = [pc EXCEPT ![c] = "start"]
        /\ todo' = [todo EXCEPT ![c] = Mapped \cup {Global}]
        /\ UNCHANGED <<tracker, life, arg, missed>>
    BY <1>8 DEF BeginStart, RLock, Goto, objectVars
  <2>2. Mapped' = Mapped /\ Stopping' = Stopping /\ At("start")' = At("start") \cup {c}
    BY <1>t, <2>1 DEF Mapped, Stopping, At
  <2>3. StartInv'
    BY <1>t, <2>1, <2>2 DEF StartInv, At
  <2>4. StopInv'
    BY <1>t, <2>1, <2>2 DEF StopInv, Stopping, At
  <2> QED
    BY <2>3, <2>4
<1>9. ASSUME NEW c \in Callers, NEW t \in All, StartOne(c, t) PROVE StartInv' /\ StopInv'
  <2>1. /\ pc[c] = "start" /\ life' = [life EXCEPT ![t] = "running"]
        /\ todo' = [todo EXCEPT ![c] = todo[c] \ {t}]
        /\ \A d \in Stopping : missed[d] \subseteq missed'[d] /\ (t \in todo[d] \/ t \in missed'[d])
        /\ UNCHANGED <<tracker, pc, arg>>
    BY <1>9, <1>t DEF StartOne, lockVars, Stopping, At
  <2>2. Mapped' = Mapped /\ Stopping' = Stopping /\ At("start")' = At("start") /\ c \in At("start")
    BY <2>1 DEF Mapped, Stopping, At
  <2>3. /\ \A u \in All \ {t} : life'[u] = life[u]
        /\ \A d \in Stopping : todo'[d] = todo[d]
    BY <1>t, <2>1 DEF Stopping, At
  <2>4. StartInv'
    BY <1>t, <2>1, <2>2 DEF StartInv, At
  <2>5. StopInv'
    BY <1>t, <2>1, <2>2, <2>3 DEF StopInv
  <2> QED
    BY <2>4, <2>5
<1>10. ASSUME NEW c \in Callers, BeginStop(c) PROVE StartInv' /\ StopInv'
  <2>1. /\ pc[c] = "idle" /\ pc' = [pc EXCEPT ![c] = "stop"]
        /\ todo' = [todo EXCEPT ![c] = Mapped \cup {Global}]
        /\ UNCHANGED <<tracker, life, arg, missed>>
    BY <1>10 DEF BeginStop, RLock, Goto, objectVars
  <2>2. Mapped' = Mapped /\ Stopping' = Stopping \cup {c} /\ At("start")' = At("start")
    BY <1>t, <2>1 DEF Mapped, Stopping, At
  <2>3. c \notin Stopping /\ c \notin At("start") /\ todo'[c] = Mapped \cup {Global}
        /\ \A d \in Callers \ {c} : todo'[d] = todo[d] /\ pc'[d] = pc[d]
    BY <1>t, <2>1 DEF Stopping, At
  <2>4. StartInv'
    BY <2>1, <2>2, <2>3 DEF StartInv, At
  <2>5. StopInv'
    BY <2>1, <2>2, <2>3 DEF StopInv, Stopping, At
  <2> QED
    BY <2>4, <2>5
<1>11. ASSUME NEW c \in Callers, NEW t \in All, StopOne(c, t) PROVE StartInv' /\ StopInv'
  <2>1. /\ pc[c] = "stop" /\ todo' = [todo EXCEPT ![c] = todo[c] \ {t}]
        /\ UNCHANGED <<tracker, missed>>
        /\ \/ life[t] = "new" /\ UNCHANGED <<life, pc, arg>>
           \/ /\ life[t] # "new"
              /\ life' = life \/ (life[t] = "running" /\ life' = [life EXCEPT ![t] = "cancelled"])
              /\ pc' = [pc EXCEPT ![c] = "stopWait"] /\ arg' = [arg EXCEPT ![c] = t]
    BY <1>11, <1>t DEF StopOne, Goto, InHand
  <2>2. Mapped' = Mapped /\ Stopping' = Stopping /\ At("start")' = At("start") /\ c \notin At("start")
    BY <1>t, <2>1 DEF Mapped, Stopping, At
  <2>3. /\ \A u \in All \ {t} : life'[u] = life[u]
        /\ life'[t] = life[t] \/ (life[t] = "running" /\ life'[t] = "cancelled")
        /\ \A d \in Callers \ {c} : todo'[d] = todo[d] /\ pc'[d] = pc[d] /\ arg'[d] = arg[d]
    BY <1>t, <2>1
  <2>4. todo'[c] = todo[c] \ {t}
    BY <1>t, <2>1
  <2>5. life[t] = "new" \/ (pc'[c] = "stopWait" /\ arg'[c] = t)
    BY <1>t, <2>1
  <2>6. StartInv'
    BY <1>t, <2>2, <2>3 DEF StartInv, At
  <2>7. ASSUME NEW d \in Stopping, NEW u \in Mapped \cup {Global}
        PROVE  u \in todo'[d] \cup missed'[d] \/ life'[u] \in {"new", "stopped"} \/ (pc'[d] = "stopWait" /\ arg'[d] = u)
    <3>1. d \in Callers /\ u \in All
      BY <1>t DEF Stopping, At
    <3>2. u \in todo[d] \cup missed[d] \/ life[u] \in {"new", "stopped"} \/ (pc[d] = "stopWait" /\ arg[d] = u)
      BY DEF StopInv
    <3> QED
      BY <2>1, <2>3, <2>4, <2>5, <3>1, <3>2
  <2>8. StopInv'
    BY <2>1, <2>2, <2>7 DEF StopInv
  <2> QED
    BY <2>6, <2>8
<1>12. ASSUME NEW c \in Callers, StopWaited(c) PROVE StartInv' /\ StopInv'
  <2>1. /\ pc[c] = "stopWait" /\ life[arg[c]] = "stopped"
        /\ pc' = [pc EXCEPT ![c] = "stop"] /\ arg' = [arg EXCEPT ![c] = Nobody]
        /\ UNCHANGED <<tracker, life, todo, missed>>
    BY <1>12 DEF StopWaited, WaitOver, Goto, InHand, objectVars
  <2>2. Mapped' = Mapped /\ Stopping' = Stopping /\ At("start")' = At("start") /\ c \notin At("start")
    BY <1>t, <2>1 DEF Mapped, Stopping, At
  <2>3. StartInv'
    BY <2>1, <2>2 DEF StartInv
  <2>4. ASSUME NEW d \in Stopping, NEW u \in Mapped \cup {Global}
        PROVE  u \in todo'[d] \cup missed'[d] \/ life'[u] \in {"new", "stopped"} \/ (pc'[d] = "stopWait" /\ arg'[d] = u)
    BY <1>t, <2>1 DEF StopInv, Stopping, At
  <2>5. StopInv'
    BY <2>1, <2>2, <2>4 DEF StopInv
  <2> QED
    BY <2>3, <2>5
<1>13. ASSUME NEW c \in Callers, StopReturns(c) PROVE StartInv' /\ StopInv'
  <2>1. /\ pc[c] = "stop" /\ pc' = [pc EXCEPT ![c] = "idle"] /\ missed' = [missed EXCEPT ![c] = {}]
        /\ UNCHANGED <<tracker, life, arg, todo>>
    BY <1>13 DEF StopReturns, RUnlock, Goto, objectVars
  <2>2. /\ Mapped' = Mapped /\ Stopping' = Stopping \ {c} /\ At("start")' = At("start")
        /\ \A d \in Stopping \ {c} : pc'[d] = pc[d] /\ missed'[d] = missed[d]
    BY <1>t, <2>1 DEF Mapped, Stopping, At, TypeInv, TypeOK
  <2>3. StartInv'
    BY <2>1, <2>2 DEF StartInv
  <2>4. StopInv'
    BY <2>1, <2>2 DEF StopInv, Stopping, At
  <2> QED
    BY <2>3, <2>4
<1>14. ASSUME NEW t \in All, LoopExits(t) PROVE StartInv' /\ StopInv'
  <2>1. /\ life[t] = "cancelled" /\ life' = [life EXCEPT ![t] = "stopped"]
        /\ UNCHANGED <<tracker, missed, pc, arg, todo>>
    BY <1>14 DEF LoopExits, callVars
  <2> QED
    BY <1>t, <2>1, LivesEnd
<1>15. CASE UNCHANGED vars
  BY <1>15, LivesEnd DEF vars, objectVars, callVars
<1>16. ASSUME NEW c \in Callers, NEW n \in Names, BeginAddFile(c, n) \/ BeginRecord(c, n)
       PROVE  StartInv' /\ StopInv'
  <2>1. /\ pc[c] = "idle" /\ (pc' = [pc EXCEPT ![c] = "add"] \/ pc' = [pc EXCEPT ![c] = "file"])
        /\ arg' = [arg EXCEPT ![c] = n] /\ UNCHANGED <<tracker, life, todo, missed>>
    BY <1>16 DEF BeginAddFile, BeginRecord, RLock, Goto, InHand, objectVars
  <2> QED
    BY <1>1, <2>1
<1> QED
  BY <1>2, <1>3, <1>4, <1>5, <1>6, <1>7, <1>8, <1>9, <1>10, <1>11, <1>12, <1>13, <1>14, <1>15, <1>16
     DEF Next, Begin, CallStep, LoopStep

\* Any number of files, and of AddFiles meanwhile: a Start that returns without an error
\* leaves no tracker of the map, nor the global one, new (multi_tracker.go 66-77).
THEOREM StartCorrect == Safety => StartAllOrError
<1>1. TypeInv /\ StartInv /\ [Next]_vars => [StartsAll]_vars
  <2> SUFFICES ASSUME StartInv PROVE StartsAll
    OBVIOUS
  <2>1. ASSUME NEW c \in Callers, StartReturns(c) PROVE c \in At("start") /\ todo[c] = {}
    BY <2>1 DEF StartReturns, At
  <2> QED
    BY <2>1 DEF StartInv, StartsAll
<1> QED
  BY TypeInit, TypeStep, LifeInit, LifeStep, <1>1, PTL DEF Safety, StartAllOrError

\* Any number of callers: a Stop leaves no update loop but those of replaced trackers and
\* of trackers started after it had passed them (multi_tracker.go 41, 67-77, 80-89).
THEOREM StopCorrect == Safety => StopCleans
<1>1. TypeInv /\ StopInv /\ [Next]_vars => [StopsClean]_vars
  <2> SUFFICES ASSUME TypeInv, StopInv, NEW c \in Callers, StopReturns(c),
                      NEW t \in All \ (Replaced \cup missed[c])
               PROVE  life[t] \notin {"running", "cancelled"}
    BY DEF StopsClean
  <2>1. c \in Stopping /\ todo[c] = {} /\ pc[c] = "stop"
    BY DEF StopReturns, Stopping, At
  <2>2. CASE t \in Mapped \cup {Global}
    BY <2>1, <2>2 DEF StopInv
  <2>3. CASE t \notin Mapped \cup {Global}
    BY <2>3 DEF Replaced, Made, All
  <2> QED
    BY <2>2, <2>3
<1> QED
  BY TypeInit, TypeStep, LifeInit, LifeStep, <1>1, PTL DEF Safety, StopCleans

----------------------------------------------------------------------------
InFlight == Cardinality(At("total"))
FileRecords == RecordsOf(Trackers)

\* A reader of the files' stats has added up at most the records of the trackers it has
\* been to, and these are of the map, which no AddFile changes meanwhile.
SumFits(c) ==
    /\ pc[c] = "stats" => todo[c] \subseteq Mapped /\ sum[c] <= Cardinality(RecordsOf(Mapped \ todo[c]))
    /\ pc[c] = "globalStats" => sum[c] <= Cardinality(FileRecords)
    /\ pc[c] \notin {"stats", "globalStats"} => sum[c] = 0

CountsInv ==
    /\ IsFiniteSet(FileRecords)
    /\ Cardinality(FileRecords) + unknown = count[Global] + InFlight
    /\ \A c \in Callers : SumFits(c)

\* The records of some trackers are among those of more trackers.
LEMMA RecordsMonotone ==
  ASSUME NEW S, NEW T, S \subseteq T
  PROVE  RecordsOf(S) \subseteq RecordsOf(T)
BY DEF RecordsOf

\* A tracker that was not there yet adds all that it has counted.
LEMMA RecordsAdd ==
  ASSUME NEW S, NEW t, t \notin S, count[t] \in Nat, IsFiniteSet(RecordsOf(S))
  PROVE  /\ IsFiniteSet(RecordsOf(S \cup {t}))
         /\ Cardinality(RecordsOf(S \cup {t})) = Cardinality(RecordsOf(S)) + count[t]
<1> DEFINE R == {t} \X (1 .. count[t])
<1>1. IsFiniteSet(R) /\ Cardinality(R) = count[t]
  <2>1. IsFiniteSet({t}) /\ Cardinality({t}) = 1
    BY FS_Singleton
  <2>2. IsFiniteSet(1 .. count[t]) /\ Cardinality(1 .. count[t]) = count[t]
    BY FS_Interval
  <2>3. IsFiniteSet(R) /\ Cardinality(R) = 1 * count[t]
    BY <2>1, <2>2, FS_Product
  <2> QED
    BY <2>3
<1>2. RecordsOf(S \cup {t}) = RecordsOf(S) \cup R
  BY DEF RecordsOf
<1>3. RecordsOf(S) \cap R = {}
  BY DEF RecordsOf
<1>4. Cardinality(RecordsOf(S)) \in Nat /\ Cardinality({}) = 0
  BY FS_CardinalityType, FS_EmptySet
<1>5. /\ IsFiniteSet(RecordsOf(S) \cup R)
      /\ Cardinality(RecordsOf(S) \cup R) = Cardinality(RecordsOf(S)) + Cardinality(R) - Cardinality({})
  BY <1>1, <1>3, FS_Union
<1> HIDE DEF R
<1>6. \A m, n \in Nat : m + n - 0 = m + n
  OBVIOUS
<1>7. Cardinality(RecordsOf(S) \cup R) = Cardinality(RecordsOf(S)) + count[t]
  BY <1>1, <1>4, <1>5, <1>6
<1> QED
  BY <1>2, <1>5, <1>7

\* One more record of one tracker is one more record.
LEMMA RecordsGrow ==
  ASSUME NEW t \in Trackers, count[t] \in Nat, count' \in [All -> Nat],
         count' = [count EXCEPT ![t] = count[t] + 1], IsFiniteSet(FileRecords)
  PROVE  /\ FileRecords' = FileRecords \cup {<<t, count[t] + 1>>}
         /\ IsFiniteSet(FileRecords') /\ Cardinality(FileRecords)' = Cardinality(FileRecords) + 1
         /\ \A S \in SUBSET Trackers : RecordsOf(S) \subseteq RecordsOf(S)'
<1>1. count'[t] = count[t] + 1 /\ \A u \in Trackers \ {t} : count'[u] = count[u]
  BY DEF All
<1>2. 1 .. count[t] + 1 = (1 .. count[t]) \cup {count[t] + 1} /\ count[t] + 1 \notin 1 .. count[t]
  OBVIOUS
<1>3. FileRecords' = FileRecords \cup {<<t, count[t] + 1>>}
  BY <1>1, <1>2 DEF FileRecords, RecordsOf
<1>4. <<t, count[t] + 1>> \notin FileRecords
  BY <1>2 DEF FileRecords, RecordsOf
<1>5. ASSUME NEW S \in SUBSET Trackers PROVE RecordsOf(S) \subseteq RecordsOf(S)'
  BY <1>1, <1>2 DEF RecordsOf
<1> QED
  BY <1>3, <1>4, <1>5, FS_AddElement

LEMMA CountsInit == Init => CountsInv
<1> SUFFICES ASSUME Init PROVE CountsInv
  OBVIOUS
<1>1. FileRecords = {}
  <2>1. \A t \in Trackers : 1 .. count[t] = {}
    BY DEF Init, All
  <2> QED
    BY <2>1 DEF FileRecords, RecordsOf
<1>2. At("total") = {} /\ Global \in All
  BY Bounds DEF Init, At
<1>3. IsFiniteSet({}) /\ Cardinality({}) = 0
  BY FS_EmptySet
<1>4. \A c \in Callers : SumFits(c)
  BY DEF Init, SumFits
<1> QED
  BY <1>1, <1>2, <1>3, <1>4 DEF Init, CountsInv, InFlight

\* A step that counts nothing, and of the calls moves one, neither to nor from a count for
\* the total.
LEMMA NothingCounted ==
  ASSUME TypeInv, CountsInv, NEW c \in Callers, SumFits(c)',
         pc[c] # "total", pc'[c] # "total",
         \A d \in Callers \ {c} : pc'[d] = pc[d] /\ todo'[d] = todo[d] /\ sum'[d] = sum[d],
         UNCHANGED <<count, unknown>>, tracker' = tracker \/ readers = {}
  PROVE  CountsInv'
<1>1. InFlight' = InFlight /\ FileRecords' = FileRecords /\ \A S : RecordsOf(S)' = RecordsOf(S)
  BY DEF InFlight, At, FileRecords, RecordsOf
<1>2. ASSUME NEW d \in Callers \ {c} PROVE SumFits(d)'
  <2>1. SumFits(d) /\ pc'[d] = pc[d] /\ todo'[d] = todo[d] /\ sum'[d] = sum[d]
    BY DEF CountsInv
  <2>2. CASE pc[d] = "stats"
    <3>1. tracker' = tracker
      BY <2>2 DEF TypeInv, TypeOK
    <3>2. RecordsOf(Mapped \ todo[d])' = RecordsOf(Mapped \ todo[d])
      BY <2>1, <3>1 DEF RecordsOf, Mapped
    <3>3. Mapped' = Mapped
      BY <3>1 DEF Mapped
    <3> QED
      BY <2>1, <2>2, <3>2, <3>3 DEF SumFits
  <2>3. CASE pc[d] # "stats"
    BY <1>1, <2>1, <2>3 DEF SumFits
  <2> QED
    BY <2>2, <2>3
<1> QED
  BY <1>1, <1>2 DEF CountsInv

\* A record counted for its file adds one to the files' records, and one to those on their
\* way to the total.
LEMMA FileCounted ==
  ASSUME TypeInv, CountsInv, NEW c \in Callers, RecordForFile(c)
  PROVE  CountsInv'
<1>t. /\ pc \in [Callers -> Pcs] /\ arg[c] \in Names /\ count \in [All -> Nat] /\ unknown \in Nat
      /\ tracker[arg[c]] \in Trackers \cup {Nobody} /\ Nobody \notin All
  BY NobodyElse DEF TypeInv, TypeOK, Pcs, ArgsFit, RecordForFile, CountForFile
<1>1. /\ pc[c] = "file" /\ pc' = [pc EXCEPT ![c] = "total"]
      /\ UNCHANGED <<tracker, todo, sum>>
  BY DEF RecordForFile, CountForFile, RUnlock, Goto
<1>2. InFlight' = InFlight + 1 /\ InFlight \in Nat
  <2>1. At("total")' = At("total") \cup {c} /\ c \notin At("total")
    BY <1>t, <1>1 DEF At
  <2>2. IsFiniteSet(At("total"))
    BY CallersAssumption, FS_Subset DEF At
  <2> QED
    BY <2>1, <2>2, FS_AddElement, FS_CardinalityType DEF InFlight
<1>3. /\ IsFiniteSet(FileRecords') /\ count'[Global] = count[Global]
      /\ Cardinality(FileRecords)' + unknown' = Cardinality(FileRecords) + unknown + 1
      /\ \A S \in SUBSET Trackers : RecordsOf(S) \subseteq RecordsOf(S)'
  <2>1. CASE tracker[arg[c]] = Nobody
    <3>1. count' = count /\ unknown' = unknown + 1
      BY <2>1 DEF RecordForFile, CountForFile
    <3>2. FileRecords' = FileRecords /\ \A S : RecordsOf(S)' = RecordsOf(S)
      BY <3>1 DEF FileRecords, RecordsOf
    <3>3. IsFiniteSet(FileRecords) /\ Cardinality(FileRecords) \in Nat
      BY FS_CardinalityType DEF CountsInv
    <3> QED
      BY <1>t, <3>1, <3>2, <3>3
  <2>2. CASE tracker[arg[c]] # Nobody
    <3> DEFINE t == tracker[arg[c]]
    <3>1. t \in Trackers /\ t \in All /\ t # Global
      BY <1>t, <2>2, Bounds
    <3>2. count' = [count EXCEPT ![t] = count[t] + 1] /\ unknown' = unknown
      BY <1>t, <2>2, <3>1 DEF RecordForFile, CountForFile
    <3>3. PICK u \in Trackers : u = t
      BY <3>1
    <3> HIDE DEF t
    <3>4. u \in All /\ u # Global /\ count' = [count EXCEPT ![u] = count[u] + 1]
      BY <3>1, <3>2, <3>3
    <3>5. count' \in [All -> Nat] /\ count[u] \in Nat /\ count'[Global] = count[Global]
      BY <1>t, <3>4, Bounds
    <3>6. IsFiniteSet(FileRecords) /\ Cardinality(FileRecords) \in Nat
      BY FS_CardinalityType DEF CountsInv
    <3>7. /\ IsFiniteSet(FileRecords') /\ Cardinality(FileRecords)' = Cardinality(FileRecords) + 1
          /\ \A S \in SUBSET Trackers : RecordsOf(S) \subseteq RecordsOf(S)'
      BY <3>4, <3>5, <3>6, RecordsGrow
    <3> QED
      BY <1>t, <3>2, <3>5, <3>6, <3>7
  <2> QED
    BY <2>1, <2>2
<1>4. Cardinality(FileRecords) \in Nat /\ Cardinality(FileRecords)' \in Nat
  BY <1>3, FS_CardinalityType DEF CountsInv
<1>5. Cardinality(FileRecords) <= Cardinality(FileRecords)'
  BY <1>3, FS_Subset DEF FileRecords
<1>6. ASSUME NEW d \in Callers PROVE SumFits(d)'
  <2>1. SumFits(d) /\ todo'[d] = todo[d] /\ sum'[d] = sum[d] /\ sum[d] \in Nat /\ Mapped' = Mapped
    BY <1>1 DEF CountsInv, TypeInv, TypeOK, Mapped
  <2>2. CASE d = c
    BY <1>t, <1>1, <2>1, <2>2 DEF SumFits
  <2>3. CASE d # c /\ pc[d] = "stats"
    <3>1. pc'[d] = "stats" /\ todo[d] \subseteq Mapped /\ sum[d] <= Cardinality(RecordsOf(Mapped \ todo[d]))
      BY <1>t, <1>1, <2>1, <2>3 DEF SumFits
    <3>2. Mapped \ todo[d] \in SUBSET Trackers
      BY DEF TypeInv, TypeOK, Made
    <3>3. RecordsOf(Mapped \ todo[d]) \subseteq RecordsOf(Mapped \ todo[d])'
      BY <1>3, <2>1, <3>2 DEF RecordsOf
    <3>4. RecordsOf(Mapped \ todo[d])' \subseteq FileRecords'
      BY <2>1, <3>2 DEF RecordsOf, FileRecords
    <3>5. /\ Cardinality(RecordsOf(Mapped \ todo[d])) <= Cardinality(RecordsOf(Mapped \ todo[d])')
          /\ Cardinality(RecordsOf(Mapped \ todo[d])) \in Nat /\ Cardinality(RecordsOf(Mapped \ todo[d])') \in Nat
      BY <1>3, <3>3, <3>4, FS_Subset, FS_CardinalityType
    <3>6. sum[d] <= Cardinality(RecordsOf(Mapped \ todo[d])')
      BY <2>1, <3>1, <3>5
    <3> QED
      BY <2>1, <3>1, <3>6 DEF SumFits
  <2>4. CASE d # c /\ pc[d] # "stats"
    <3>1. pc'[d] = pc[d]
      BY <1>t, <1>1, <2>4
    <3> QED
      BY <1>4, <1>5, <2>1, <2>4, <3>1 DEF SumFits
  <2> QED
    BY <2>2, <2>3, <2>4
<1>7. count[Global] \in Nat
  BY <1>t, Bounds
<1>8. Cardinality(FileRecords)' + unknown' = count'[Global] + InFlight'
  BY <1>t, <1>2, <1>3, <1>4, <1>7 DEF CountsInv
<1> QED
  BY <1>3, <1>6, <1>8 DEF CountsInv

\* A record counted for the total is not on its way any more.
LEMMA TotalCounted ==
  ASSUME TypeInv, CountsInv, NEW c \in Callers, RecordForTotal(c)
  PROVE  CountsInv'
<1>t. pc \in [Callers -> Pcs] /\ count \in [All -> Nat] /\ Global \in All /\ Global \notin Trackers
  BY Bounds DEF TypeInv, TypeOK, Pcs
<1>1. /\ pc[c] = "total" /\ pc' = [pc EXCEPT ![c] = "idle"]
      /\ count' = [count EXCEPT ![Global] = count[Global] + 1]
      /\ UNCHANGED <<tracker, unknown, todo, sum>>
  BY <1>t DEF RecordForTotal, Goto
<1>2. InFlight' = InFlight - 1 /\ InFlight \in Nat
  <2>1. At("total")' = At("total") \ {c} /\ c \in At("total")
    BY <1>t, <1>1 DEF At
  <2>2. IsFiniteSet(At("total"))
    BY CallersAssumption, FS_Subset DEF At
  <2> QED
    BY <2>1, <2>2, FS_RemoveElement, FS_CardinalityType DEF InFlight
<1>3. \A S \in SUBSET Trackers : RecordsOf(S)' = RecordsOf(S)
  <2>1. \A u \in Trackers : count'[u] = count[u]
    BY <1>t, <1>1 DEF All
  <2> QED
    BY <2>1 DEF RecordsOf
<1>4. FileRecords' = FileRecords /\ Mapped' = Mapped
  BY <1>1, <1>3 DEF FileRecords, Mapped
<1>5. ASSUME NEW d \in Callers PROVE SumFits(d)'
  <2>1. SumFits(d) /\ todo'[d] = todo[d] /\ sum'[d] = sum[d] /\ pc'[d] = IF d = c THEN "idle" ELSE pc[d]
    BY <1>t, <1>1 DEF CountsInv
  <2>2. RecordsOf(Mapped \ todo[d])' = RecordsOf(Mapped \ todo[d])
    <3>1. Mapped \ todo[d] \in SUBSET Trackers
      BY DEF TypeInv, TypeOK, Made
    <3> QED
      BY <1>3, <1>4, <2>1, <3>1 DEF RecordsOf
  <2> QED
    BY <1>1, <1>4, <2>1, <2>2 DEF SumFits
<1>6. Cardinality(FileRecords)' + unknown' = count'[Global] + InFlight'
  <2>1. count'[Global] = count[Global] + 1 /\ count[Global] \in Nat
    BY <1>t, <1>1
  <2> QED
    BY <1>1, <1>2, <1>4, <2>1 DEF CountsInv
<1> QED
  BY <1>4, <1>5, <1>6 DEF CountsInv

\* The reader of the stats adds one tracker's count to those it has.
LEMMA StatsAdded ==
  ASSUME TypeInv, CountsInv, NEW c \in Callers, NEW t \in All, StatsOf(c, t)
  PROVE  SumFits(c)'
<1>t. /\ todo \in [Callers -> SUBSET All] /\ sum \in [Callers -> Nat] /\ count[t] \in Nat
  BY DEF TypeInv, TypeOK
<1>1. /\ pc[c] = "stats" /\ t \in todo[c] /\ todo'[c] = todo[c] \ {t} /\ sum'[c] = sum[c] + count[t]
      /\ UNCHANGED <<tracker, count, pc>>
  BY <1>t DEF StatsOf, objectVars
<1>2. todo[c] \subseteq Mapped /\ sum[c] <= Cardinality(RecordsOf(Mapped \ todo[c]))
  BY <1>1 DEF CountsInv, SumFits
<1> DEFINE S == Mapped \ todo[c]
<1>3. IsFiniteSet(RecordsOf(S)) /\ Cardinality(RecordsOf(S)) \in Nat
  <2>1. RecordsOf(S) \subseteq FileRecords
    BY RecordsMonotone DEF FileRecords, TypeInv, TypeOK, Made
  <2> QED
    BY <2>1, FS_Subset, FS_CardinalityType DEF CountsInv
<1>4. Cardinality(RecordsOf(S \cup {t})) = Cardinality(RecordsOf(S)) + count[t]
  <2>1. t \notin S
    BY <1>1
  <2> HIDE DEF S
  <2> QED
    BY <1>t, <1>3, <2>1, RecordsAdd
<1>5. (Mapped \ todo[c])' = S \cup {t} /\ Mapped' = Mapped
  BY <1>1, <1>2 DEF Mapped
<1>6. RecordsOf(Mapped \ todo[c])' = RecordsOf(S \cup {t})
  BY <1>1, <1>5 DEF RecordsOf
<1>7. sum'[c] <= Cardinality(RecordsOf(Mapped \ todo[c])')
  <2>1. sum[c] \in Nat /\ sum[c] <= Cardinality(RecordsOf(S))
    BY <1>t, <1>2
  <2> HIDE DEF S
  <2> QED
    BY <1>t, <1>1, <1>3, <1>4, <1>6, <2>1
<1> QED
  BY <1>1, <1>2, <1>5, <1>7 DEF SumFits

LEMMA CountsStep == TypeInv /\ CountsInv /\ [Next]_vars => CountsInv'
<1> SUFFICES ASSUME TypeInv, CountsInv, [Next]_vars PROVE CountsInv'
  OBVIOUS
<1>t. /\ pc \in [Callers -> Pcs] /\ todo \in [Callers -> SUBSET All] /\ sum \in [Callers -> Nat]
  BY DEF TypeInv, TypeOK, Pcs
<1>m. Cardinality(RecordsOf(Mapped)) <= Cardinality(FileRecords)
  <2>1. RecordsOf(Mapped) \subseteq FileRecords
    BY RecordsMonotone DEF FileRecords, TypeInv, TypeOK, Made
  <2> QED
    BY <2>1, FS_Subset DEF CountsInv
<1>f. ASSUME NEW c \in Callers PROVE SumFits(c)
  BY DEF CountsInv
\* A caller that reads no stats before and after its step.
<1>1. ASSUME NEW c \in Callers, pc[c] \notin {"total", "stats", "globalStats"},
             pc'[c] \notin {"total", "stats", "globalStats"},
             \A d \in Callers \ {c} : pc'[d] = pc[d] /\ todo'[d] = todo[d],
             UNCHANGED <<count, unknown, sum>>, tracker' = tracker \/ readers = {}
      PROVE  CountsInv'
  <2>1. SumFits(c)'
    BY <1>1, <1>f DEF SumFits
  <2> QED
    BY <1>1, <2>1, NothingCounted
<1>2. ASSUME NEW c \in Callers, NEW n \in Names, BeginAddFile(c, n) \/ BeginRecord(c, n)
      PROVE  CountsInv'
  <2>1. /\ pc[c] = "idle" /\ (pc' = [pc EXCEPT ![c] = "add"] \/ pc' = [pc EXCEPT ![c] = "file"])
        /\ UNCHANGED <<tracker, count, unknown, todo, sum>>
    BY <1>2 DEF BeginAddFile, BeginRecord, RLock, Goto, objectVars
  <2> QED
    BY <1>1, <1>t, <2>1
<1>3. ASSUME NEW c \in Callers, AddFile(c) PROVE CountsInv'
  <2>1. /\ readers = {} /\ pc[c] = "add" /\ pc' = [pc EXCEPT ![c] = "idle"]
        /\ UNCHANGED <<count, unknown, todo, sum>>
    BY <1>3, AddEnds
  <2> QED
    BY <1>1, <1>t, <2>1
<1>4. ASSUME NEW c \in Callers, BeginStart(c) \/ BeginStop(c) PROVE CountsInv'
  <2>1. /\ pc[c] = "idle" /\ (pc' = [pc EXCEPT ![c] = "start"] \/ pc' = [pc EXCEPT ![c] = "stop"])
        /\ todo' = [todo EXCEPT ![c] = Mapped \cup {Global}]
        /\ UNCHANGED <<tracker, count, unknown, sum>>
    BY <1>4 DEF BeginStart, BeginStop, RLock, Goto, objectVars
  <2> QED
    BY <1>1, <1>t, <2>1
<1>5. ASSUME NEW c \in Callers, NEW t \in All, StartOne(c, t) \/ StartFails(c, t) \/ StopOne(c, t)
      PROVE  CountsInv'
  <2>1. /\ pc[c] \in {"start", "stop"}
        /\ \/ pc' = pc \/ pc' = [pc EXCEPT ![c] = "idle"] \/ pc' = [pc EXCEPT ![c] = "stopWait"]
        /\ \A d \in Callers \ {c} : todo'[d] = todo[d]
        /\ UNCHANGED <<tracker, count, unknown, sum>>
    BY <1>5, <1>t DEF StartOne, StartFails, Refused, StopOne, RUnlock, Goto, objectVars
  <2> QED
    BY <1>1, <1>t, <2>1
<1>6. ASSUME NEW c \in Callers, StartReturns(c) \/ StopWaited(c) \/ StopReturns(c) PROVE CountsInv'
  <2>1. /\ pc[c] \in {"start", "stop", "stopWait"}
        /\ (pc' = [pc EXCEPT ![c] = "idle"] \/ pc' = [pc EXCEPT ![c] = "stop"])
        /\ UNCHANGED <<tracker, count, unknown, todo, sum>>
    BY <1>6 DEF StartReturns, StopWaited, WaitOver, StopReturns, RUnlock, Goto, objectVars
  <2> QED
    BY <1>1, <1>t, <2>1
<1>7. ASSUME NEW c \in Callers, BeginStats(c) PROVE CountsInv'
  <2>1. /\ pc[c] = "idle" /\ pc' = [pc EXCEPT ![c] = "stats"] /\ todo' = [todo EXCEPT ![c] = Mapped]
        /\ UNCHANGED <<tracker, count, unknown, sum>>
    BY <1>7 DEF BeginStats, RLock, Goto, objectVars
  <2>2. sum'[c] = 0 /\ pc'[c] = "stats" /\ todo'[c] = Mapped /\ Mapped' = Mapped
    BY <1>f, <1>t, <1>7, <2>1 DEF SumFits, Mapped
  <2>3. RecordsOf(Mapped \ todo[c])' = {}
    BY <2>2 DEF RecordsOf
  <2>4. SumFits(c)'
    BY <2>2, <2>3, FS_EmptySet DEF SumFits
  <2> QED
    BY <1>t, <2>1, <2>4, NothingCounted
<1>8. ASSUME NEW c \in Callers, NEW t \in All, StatsOf(c, t) PROVE CountsInv'
  <2>1. /\ pc[c] = "stats" /\ \A d \in Callers \ {c} : todo'[d] = todo[d] /\ sum'[d] = sum[d]
        /\ UNCHANGED <<tracker, count, unknown, pc>>
    BY <1>8, <1>t DEF StatsOf, objectVars
  <2> QED
    BY <1>8, <2>1, StatsAdded, NothingCounted
<1>9. ASSUME NEW c \in Callers, StatsReturn(c) PROVE CountsInv'
  <2>1. /\ pc[c] = "stats" /\ todo[c] = {} /\ pc' = [pc EXCEPT ![c] = "globalStats"]
        /\ UNCHANGED <<tracker, count, unknown, todo, sum>>
    BY <1>9 DEF StatsReturn, RUnlock, Goto, objectVars
  <2>2. sum[c] <= Cardinality(RecordsOf(Mapped)) /\ sum[c] \in Nat
    <3>1. Mapped \ todo[c] = Mapped
      BY <2>1
    <3> QED
      BY <1>f, <1>t, <2>1, <3>1 DEF SumFits
  <2>3. Cardinality(RecordsOf(Mapped)) \in Nat /\ Cardinality(FileRecords) \in Nat
    <3>1. RecordsOf(Mapped) \subseteq FileRecords
      BY RecordsMonotone DEF FileRecords, TypeInv, TypeOK, Made
    <3> QED
      BY <3>1, FS_Subset, FS_CardinalityType DEF CountsInv
  <2>4. sum'[c] <= Cardinality(FileRecords')
    <3>1. FileRecords' = FileRecords
      BY <2>1 DEF FileRecords, RecordsOf
    <3> QED
      BY <1>m, <2>1, <2>2, <2>3, <3>1
  <2>5. SumFits(c)'
    BY <1>t, <2>1, <2>4 DEF SumFits
  <2> QED
    BY <1>t, <2>1, <2>5, NothingCounted
<1>10. ASSUME NEW c \in Callers, GlobalStats(c) PROVE CountsInv'
  <2>1. /\ pc[c] = "globalStats" /\ pc' = [pc EXCEPT ![c] = "idle"] /\ sum' = [sum EXCEPT ![c] = 0]
        /\ UNCHANGED <<tracker, count, unknown, todo>>
    BY <1>10 DEF GlobalStats, Goto, objectVars
  <2>2. SumFits(c)'
    BY <1>t, <2>1 DEF SumFits
  <2> QED
    BY <1>t, <2>1, <2>2, NothingCounted
<1>11. CASE UNCHANGED <<tracker, count, unknown, pc, todo, sum>>
  <2>1. /\ FileRecords' = FileRecords /\ InFlight' = InFlight /\ Mapped' = Mapped
        /\ \A d \in Callers : RecordsOf(Mapped \ todo[d])' = RecordsOf(Mapped \ todo[d])
    BY <1>11 DEF FileRecords, RecordsOf, InFlight, At, Mapped
  <2> QED
    BY <1>11, <2>1 DEF CountsInv, SumFits
<1> QED
  BY <1>2, <1>3, <1>4, <1>5, <1>6, <1>7, <1>8, <1>9, <1>10, <1>11, FileCounted, TotalCounted
     DEF Next, Begin, CallStep, LoopStep, LoopExits, vars, objectVars, lockVars, callVars

\* Any number of records, files and readers: none is lost between the files' trackers, the
\* unknown names and the total, and the stats of the files, read one by one, never add up to
\* more than the total and the records on their way to it (multi_tracker.go 55-63, 92-120).
THEOREM CountsCorrect == Safety => []CountsAgree
<1>1. TypeInv /\ CountsInv => CountsAgree
  <2> SUFFICES ASSUME TypeInv, CountsInv PROVE CountsAgree
    OBVIOUS
  <2>t. /\ sum \in [Callers -> Nat] /\ unknown \in Nat /\ count[Global] \in Nat
        /\ IsFiniteSet(FileRecords) /\ Cardinality(FileRecords) \in Nat
    BY Bounds, FS_CardinalityType DEF TypeInv, TypeOK, CountsInv
  <2>1. InFlight \in Nat
    <3>1. IsFiniteSet(At("total"))
      BY CallersAssumption, FS_Subset DEF At
    <3> QED
      BY <3>1, FS_CardinalityType DEF InFlight
  <2>2. ASSUME NEW c \in Callers PROVE sum[c] <= Cardinality(FileRecords)
    <3>1. SumFits(c) /\ sum[c] \in Nat
      BY <2>t DEF CountsInv
    <3>2. CASE pc[c] = "stats"
      <4>1. RecordsOf(Mapped \ todo[c]) \subseteq FileRecords
        BY RecordsMonotone DEF FileRecords, TypeInv, TypeOK, Made
      <4>2. /\ Cardinality(RecordsOf(Mapped \ todo[c])) <= Cardinality(FileRecords)
            /\ Cardinality(RecordsOf(Mapped \ todo[c])) \in Nat
        BY <2>t, <4>1, FS_Subset, FS_CardinalityType
      <4>3. sum[c] <= Cardinality(RecordsOf(Mapped \ todo[c]))
        BY <3>1, <3>2 DEF SumFits
      <4> QED
        BY <2>t, <3>1, <4>2, <4>3
    <3> QED
      BY <2>t, <3>1, <3>2 DEF SumFits
  <2>3. ASSUME NEW c \in Callers PROVE sum[c] <= count[Global] + InFlight
    BY <2>t, <2>1, <2>2 DEF CountsInv
  <2> QED
    BY <2>3 DEF CountsInv, CountsAgree, FileRecords, InFlight
<1> QED
  BY TypeInit, TypeStep, CountsInit, CountsStep, <1>1, PTL DEF Safety
=============================================================================
