------------------------- MODULE LocalFolderProofs -------------------------
(***************************************************************************)
(* Theorems about LocalFolder, for any files, batch, clock, and number of  *)
(* writes and restarts: the types, what a hash next to an mtime is worth,  *)
(* and that the settled rows are the files on disk.                        *)
(***************************************************************************)
EXTENDS LocalFolder, FiniteSetTheorems, TLAPS

(***************************************************************************)
(* Types, in three parts: the folder and its rows; what is under way from  *)
(* fsnotify to the manifest; the goroutines.                               *)
(***************************************************************************)
Events == [f : Files, op : {"write", "remove"}]

DiskTyped ==
  /\ disk \in [Files -> [v : 0..MaxWrites, t : 0..MaxTime]]
  /\ now \in 1..MaxTime
  /\ writes \in 0..MaxWrites
  /\ restarts \in 0..MaxRestarts
  /\ row \in [Files -> Rows \cup {None}]

QueuesTyped ==
  /\ boot \in {"reconcile", "watch", "emit", "run"}
  /\ raw \in Seq(Events)
  /\ events \in Seq(Events)
  /\ timers \subseteq Files /\ firing \subseteq Files

WorkTyped ==
  /\ todo \subseteq Files
  /\ missed \subseteq Files /\ faults \in 0..MaxFaults
  /\ drain \in [f : Files, t : 0..MaxTime] \cup {None}
  /\ hashing \in [f : Files, v : 0..MaxWrites, t : 0..MaxTime] \cup {None}

Typed == DiskTyped /\ QueuesTyped /\ WorkTyped

LEMMA EventTyped ==
  ASSUME NEW f \in Files, NEW op \in {"write", "remove"}
  PROVE  Event(f, op) \in Events /\ Event(f, op).f = f /\ Event(f, op).op = op
  BY DEF Event, Events

\* The steps in which a statement of the drainer or the hasher fails.
Failing == DrainRemoveFails \/ DrainUpsertFails \/ HashStoreFails

\* What is still at the head of a queue, and behind it.
LEMMA TailTyped ==
  ASSUME NEW s \in Seq(Events), s # <<>>
  PROVE  /\ Head(s) \in Events /\ Head(s).f \in Files /\ Head(s).op \in {"write", "remove"}
         /\ Tail(s) \in Seq(Events)
<1>1. Head(s) \in Events /\ Tail(s) \in Seq(Events)
  OBVIOUS
<1>2. QED
  BY <1>1 DEF Events

LEMMA NotifyTyped ==
  ASSUME QueuesTyped, NEW f \in Files, NEW op \in {"write", "remove"}, Notify(f, op)
  PROVE  raw' \in Seq(Events)
  BY EventTyped DEF Notify, QueuesTyped

\* emitExisting sends a finite number of events.
LEMMA EmitTyped ==
  ASSUME QueuesTyped, EmitExisting
  PROVE  events' \in Seq(Events)
<1> DEFINE F == {f \in Files : OnDisk(f)}
<1>1. Cardinality(F) \in Nat
  BY FS_Subset, FS_CardinalityType, LocalFolderAssumption
<1>2. PICK s \in [1..Cardinality(F) -> F] :
        events' = events \o [i \in DOMAIN s |-> Event(s[i], "write")]
  BY DEF EmitExisting
<1>3. [i \in DOMAIN s |-> Event(s[i], "write")] \in Seq(Events)
  <2>1. \A i \in 1..Cardinality(F) : Event(s[i], "write") \in Events
    BY EventTyped
  <2>2. [i \in 1..Cardinality(F) |-> Event(s[i], "write")] \in [1..Cardinality(F) -> Events]
    BY <2>1
  <2>3. [i \in 1..Cardinality(F) |-> Event(s[i], "write")] \in Seq(Events)
    BY <1>1, <2>2
  <2>4. QED
    BY <2>3
<1> DEFINE E == [i \in DOMAIN s |-> Event(s[i], "write")]
<1>4. E \in Seq(Events) /\ events \in Seq(Events) /\ events' = events \o E
  BY <1>2, <1>3 DEF QueuesTyped
<1> HIDE DEF E
<1>5. QED
  BY <1>4

LEMMA QueuesTypedNext == Typed /\ [Next]_vars => QueuesTyped'
<1> SUFFICES ASSUME Typed, [Next]_vars PROVE QueuesTyped'
  OBVIOUS
<1> USE DEF Typed, QueuesTyped
<1>1. ASSUME NEW f \in Files, Write(f) \/ Remove(f) PROVE QueuesTyped'
  BY <1>1, NotifyTyped DEF Write, Remove
<1>2. ASSUME NEW f \in Files, TimerFires(f) PROVE QueuesTyped'
  BY <1>2 DEF TimerFires
<1>3. ASSUME NEW f \in Files, SendFired(f) PROVE QueuesTyped'
  BY <1>3, EventTyped DEF SendFired
<1>4. CASE Reconcile \/ Watch
  BY <1>4 DEF Reconcile, Watch, watch
<1>5. CASE EmitExisting
  <2>1. events' \in Seq(Events)
    BY <1>5, EmitTyped
  <2>2. QED
    BY <1>5, <2>1 DEF EmitExisting, watch
<1>6. CASE ReadRaw
  <2>1. /\ Head(raw).f \in Files /\ Tail(raw) \in Seq(Events)
        /\ Event(Head(raw).f, "remove") \in Events
    BY <1>6, TailTyped, EventTyped DEF ReadRaw
  <2>2. CASE Head(raw).op = "remove"
    BY <1>6, <2>1, <2>2 DEF ReadRaw
  <2>3. CASE Head(raw).op # "remove"
    BY <1>6, <2>1, <2>3 DEF ReadRaw
  <2>4. QED
    BY <2>2, <2>3
<1>7. CASE DrainRemove \/ DrainStat \/ DrainRemoveFails
  BY <1>7, TailTyped DEF DrainRemove, DrainStat, DrainRemoveFails, Draining, watch
<1>8. CASE DrainUpsert \/ DrainUpsertFails
  BY <1>8 DEF DrainUpsert, DrainUpsertFails, watch
<1>9. CASE HasherStep \/ HashStoreFails
  BY <1>9 DEF HasherStep, HashTick, HashOpen, HashStore, HashStoreFails, watch
<1>10. CASE Restart
  BY <1>10 DEF Restart
<1>11. CASE Tick
  BY <1>11 DEF Tick, watch
<1>12. CASE UNCHANGED vars
  BY <1>12 DEF vars
<1>13. QED
  BY <1>1, <1>2, <1>3, <1>4, <1>5, <1>6, <1>7, <1>8, <1>9, <1>10, <1>11, <1>12
     DEF Next, WatcherStep, DrainerStep

LEMMA ObservedTyped ==
  ASSUME NEW r \in Rows \cup {None}, NEW t \in 0..MaxTime, now \in 1..MaxTime
  PROVE  Observed(r, t) \in Rows
  BY LocalFolderAssumption DEF Observed, Rows

\* What the hasher has open.
LEMMA HashingTyped ==
  ASSUME WorkTyped, DiskTyped, hashing # None
  PROVE  /\ hashing.f \in Files /\ hashing.t \in 0..MaxTime
         /\ ReadVersions \subseteq 0..MaxWrites
<1>1. hashing.f \in Files /\ hashing.t \in 0..MaxTime /\ hashing.v \in 0..MaxWrites
  BY DEF WorkTyped
<1>2. disk[hashing.f].v \in 0..MaxWrites
  BY <1>1 DEF DiskTyped
<1>3. QED
  BY <1>1, <1>2 DEF ReadVersions

LEMMA DiskTypedNext == Typed /\ [Next]_vars => DiskTyped'
<1> SUFFICES ASSUME Typed, [Next]_vars PROVE DiskTyped'
  OBVIOUS
<1> USE LocalFolderAssumption DEF Typed, DiskTyped, avid
<1>1. ASSUME NEW f \in Files, Write(f) PROVE DiskTyped'
  BY <1>1 DEF Write
<1>2. ASSUME NEW f \in Files, Remove(f) PROVE DiskTyped'
  BY <1>2 DEF Remove
<1>3. ASSUME NEW f \in Files, TimerFires(f) \/ SendFired(f) PROVE DiskTyped'
  BY <1>3 DEF TimerFires, SendFired
<1>4. CASE Reconcile
  BY <1>4 DEF Reconcile
<1>5. CASE WatcherStep \/ Failing
  BY <1>5 DEF WatcherStep, Watch, EmitExisting, ReadRaw, Failing, DrainRemoveFails,
              DrainUpsertFails, HashStoreFails
<1>6. CASE DrainRemove
  BY <1>6 DEF DrainRemove
<1>7. CASE DrainStat
  BY <1>7 DEF DrainStat
<1>8. CASE DrainUpsert
  <2>1. drain.f \in Files /\ drain.t \in 0..MaxTime
    BY <1>8 DEF DrainUpsert, WorkTyped
  <2>2. Observed(row[drain.f], drain.t) \in Rows
    BY <2>1, ObservedTyped
  <2>3. QED
    BY <1>8, <2>2 DEF DrainUpsert
<1>9. CASE HashTick \/ \E f \in Files : HashOpen(f)
  BY <1>9 DEF HashTick, HashOpen
<1>10. CASE HashStore
  <2>1. PICK v \in ReadVersions :
          row' = [row EXCEPT ![hashing.f] =
                    IF @ = None THEN None ELSE [hash |-> v, t |-> hashing.t, u |-> now]]
    BY <1>10 DEF HashStore
  <2>2. [hash |-> v, t |-> hashing.t, u |-> now] \in Rows
    BY <1>10, HashingTyped DEF HashStore, Rows
  <2>3. QED
    BY <1>10, <2>1, <2>2 DEF HashStore
<1>11. CASE Restart
  BY <1>11 DEF Restart
<1>12. CASE Tick
  BY <1>12 DEF Tick
<1>13. CASE UNCHANGED vars
  BY <1>13 DEF vars
<1>14. QED
  BY <1>1, <1>2, <1>3, <1>4, <1>5, <1>6, <1>7, <1>8, <1>9, <1>10, <1>11, <1>12, <1>13
     DEF Next, DrainerStep, HasherStep, Failing

LEMMA WorkTypedNext == Typed /\ [Next]_vars => WorkTyped'
<1> SUFFICES ASSUME Typed, [Next]_vars PROVE WorkTyped'
  OBVIOUS
<1> USE DEF Typed, WorkTyped, hasher, news
<1>f. Fault => faults' \in 0..MaxFaults
  BY LocalFolderAssumption DEF Fault
<1>1. ASSUME NEW f \in Files, Write(f) \/ Remove(f) \/ TimerFires(f) \/ SendFired(f)
      PROVE  WorkTyped'
  BY <1>1 DEF Write, Remove, TimerFires, SendFired
<1>2. CASE WatcherStep \/ Tick
  BY <1>2 DEF WatcherStep, Watch, EmitExisting, ReadRaw, Tick
<1>3. CASE Reconcile
  <2>1. PICK kept \in SUBSET Ghosts :
          /\ faults' \in 0..MaxFaults
          /\ missed' = kept
    BY <1>3, <1>f DEF Reconcile
  <2>2. missed' \subseteq Files
    BY <2>1 DEF Ghosts
  <2>3. QED
    BY <1>3, <2>1, <2>2 DEF Reconcile
<1>4. CASE DrainStat
  BY <1>4, TailTyped DEF DrainStat, Draining, DiskTyped, QueuesTyped
<1>5. CASE HashTick
  BY <1>5 DEF HashTick, NeedsHash, Pending
<1>6. ASSUME NEW f \in Files, HashOpen(f) PROVE WorkTyped'
  BY <1>6 DEF HashOpen, DiskTyped
<1>7. CASE HashStore \/ HashStoreFails
  BY <1>7, <1>f DEF HashStore, HashStoreFails
<1>8. CASE Restart
  BY <1>8 DEF Restart
<1>9. CASE DrainRemove \/ DrainRemoveFails
  BY <1>9, <1>f, TailTyped DEF DrainRemove, DrainRemoveFails, Draining, QueuesTyped
<1>10. CASE DrainUpsert \/ DrainUpsertFails
  BY <1>10, <1>f DEF DrainUpsert, DrainUpsertFails
<1>11. CASE UNCHANGED vars
  BY <1>11 DEF vars
<1>12. QED
  BY <1>1, <1>2, <1>3, <1>4, <1>5, <1>6, <1>7, <1>8, <1>9, <1>10, <1>11
     DEF Next, DrainerStep, HasherStep

LEMMA TypedInit == Init => Typed
<1> SUFFICES ASSUME Init PROVE Typed
  OBVIOUS
<1>1. DiskTyped
  BY LocalFolderAssumption DEF Init, DiskTyped
<1>2. QED
  BY <1>1, LocalFolderAssumption DEF Init, Typed, QueuesTyped, WorkTyped

LEMMA TypedNext == Typed /\ [Next]_vars => Typed'
  BY DiskTypedNext, QueuesTypedNext, WorkTypedNext DEF Typed

\* Every variable keeps its type.
THEOREM TypeCorrect == Spec => []TypeOK
<1>1. Typed => TypeOK
  BY DEF Typed, DiskTyped, QueuesTyped, WorkTyped, TypeOK, Events
<1>2. QED
  BY <1>1, TypedInit, TypedNext, PTL DEF Spec

(***************************************************************************)
(* The mtime.  A rewrite takes a later second, so what was noted before it *)
(* (in a row, by the drainer, by the hasher) has an earlier mtime.         *)
(***************************************************************************)
ClockOK == \A f \in Files : disk[f].t <= now

\* A row with mtime t and hash h, noted for f.
Vouches(f, t, h) ==
  /\ t <= disk[f].t
  /\ OnDisk(f) /\ t = disk[f].t => h \in {0, disk[f].v}

RowsVouch == \A f \in Files : row[f] # None => Vouches(f, row[f].t, row[f].hash)
DrainVouches == drain # None => drain.t <= disk[drain.f].t
HashingVouches == hashing # None => Vouches(hashing.f, hashing.t, hashing.v)

MtimeInv == ClockOK /\ RowsVouch /\ DrainVouches /\ HashingVouches

LEMMA VouchesStays ==
  ASSUME ~ SameSecond, Typed, ClockOK, [Next]_vars,
         NEW f \in Files, NEW t \in 0..MaxTime, NEW h, Vouches(f, t, h)
  PROVE  Vouches(f, t, h)'
<1> USE DEF Vouches, OnDisk, avid
<1>t. disk \in [Files -> [v : 0..MaxWrites, t : 0..MaxTime]] /\ now \in 1..MaxTime
      /\ MaxTime \in Nat
  BY LocalFolderAssumption DEF Typed, DiskTyped
<1>1. ASSUME NEW g \in Files, Write(g) PROVE Vouches(f, t, h)'
  <2>1. disk[g].t < now /\ disk' = [disk EXCEPT ![g] = [v |-> writes + 1, t |-> now]]
    BY <1>1 DEF Write
  <2>2. CASE g = f
    <3>1. disk'[f].t = now
      BY <1>t, <2>1, <2>2
    <3>2. t < now
      BY <1>t, <2>1, <2>2
    <3>3. QED
      BY <1>t, <3>1, <3>2
  <2>3. CASE g # f
    BY <1>t, <2>1, <2>3
  <2>4. QED
    BY <2>2, <2>3
<1>2. ASSUME NEW g \in Files, Remove(g) PROVE Vouches(f, t, h)'
  BY <1>2, <1>t DEF Remove
<1>3. CASE disk' = disk
  BY <1>3
<1>4. ASSUME NEW g \in Files, TimerFires(g) \/ SendFired(g) PROVE Vouches(f, t, h)'
  BY <1>3, <1>4 DEF TimerFires, SendFired
<1>5. CASE Reconcile \/ WatcherStep
  BY <1>3, <1>5 DEF Reconcile, WatcherStep, Watch, EmitExisting, ReadRaw
<1>6. CASE DrainerStep \/ Failing
  BY <1>3, <1>6 DEF DrainerStep, DrainRemove, DrainStat, DrainUpsert, Failing,
                    DrainRemoveFails, DrainUpsertFails, HashStoreFails
<1>7. CASE HasherStep
  BY <1>3, <1>7 DEF HasherStep, HashTick, HashOpen, HashStore
<1>8. CASE Restart \/ Tick
  BY <1>3, <1>8 DEF Restart, Tick
<1>9. CASE UNCHANGED vars
  BY <1>3, <1>9 DEF vars
<1>10. QED
  BY <1>1, <1>2, <1>4, <1>5, <1>6, <1>7, <1>8, <1>9 DEF Next, Failing

LEMMA ClockNext == Typed /\ ClockOK /\ [Next]_vars => ClockOK'
<1> SUFFICES ASSUME Typed, ClockOK, [Next]_vars PROVE ClockOK'
  OBVIOUS
<1> USE DEF ClockOK, avid
<1>t. disk \in [Files -> [v : 0..MaxWrites, t : 0..MaxTime]] /\ now \in 1..MaxTime
      /\ MaxTime \in Nat
  BY LocalFolderAssumption DEF Typed, DiskTyped
<1>1. ASSUME NEW g \in Files, Write(g) PROVE ClockOK'
  BY <1>1, <1>t DEF Write
<1>2. ASSUME NEW g \in Files, Remove(g) PROVE ClockOK'
  BY <1>2, <1>t DEF Remove
<1>3. CASE Tick
  BY <1>3, <1>t DEF Tick
<1>4. CASE UNCHANGED <<disk, now>>
  BY <1>4
<1>5. ASSUME NEW g \in Files, TimerFires(g) \/ SendFired(g) PROVE ClockOK'
  BY <1>4, <1>5 DEF TimerFires, SendFired
<1>6. CASE Reconcile \/ WatcherStep
  BY <1>4, <1>6 DEF Reconcile, WatcherStep, Watch, EmitExisting, ReadRaw
<1>7. CASE DrainerStep \/ Failing
  BY <1>4, <1>7 DEF DrainerStep, DrainRemove, DrainStat, DrainUpsert, Failing,
                    DrainRemoveFails, DrainUpsertFails, HashStoreFails
<1>8. CASE HasherStep
  BY <1>4, <1>8 DEF HasherStep, HashTick, HashOpen, HashStore
<1>9. CASE Restart
  BY <1>4, <1>9 DEF Restart
<1>10. CASE UNCHANGED vars
  BY <1>4, <1>10 DEF vars
<1>11. QED
  BY <1>1, <1>2, <1>3, <1>5, <1>6, <1>7, <1>8, <1>9, <1>10 DEF Next, Failing

\* A row that a step leaves or deletes.
OldRows(f) == row'[f] \in {row[f], None}

LEMMA RowsVouchNext ==
  ASSUME ~ SameSecond, Typed, MtimeInv, [Next]_vars
  PROVE  RowsVouch'
<1>t. /\ row \in [Files -> Rows \cup {None}]
      /\ disk \in [Files -> [v : 0..MaxWrites, t : 0..MaxTime]]
      /\ drain \in [f : Files, t : 0..MaxTime] \cup {None}
      /\ hashing \in [f : Files, v : 0..MaxWrites, t : 0..MaxTime] \cup {None}
  BY DEF Typed, DiskTyped, WorkTyped
<1>o. ASSUME NEW f \in Files, OldRows(f), row'[f] # None
      PROVE  Vouches(f, row[f].t, row[f].hash)'
  <2>1. row'[f] = row[f] /\ row[f] \in Rows /\ Vouches(f, row[f].t, row[f].hash)
    BY <1>o, <1>t DEF OldRows, MtimeInv, RowsVouch
  <2>2. PICK a \in 0..MaxTime, b \in 0..MaxWrites : a = row[f].t /\ b = row[f].hash
    BY <2>1 DEF Rows
  <2>3. Vouches(f, a, b)'
    BY <2>1, <2>2, VouchesStays DEF MtimeInv
  <2>4. row'[f].t = a /\ row'[f].hash = b
    BY <2>1, <2>2
  <2>5. QED
    BY <2>3, <2>4 DEF Vouches, OnDisk
<1> SUFFICES ASSUME NEW f \in Files, row'[f] # None
             PROVE  Vouches(f, row[f].t, row[f].hash)'
  BY DEF RowsVouch
<1>1. CASE row' = row
  BY <1>1, <1>o DEF OldRows
<1>2. ASSUME NEW g \in Files,
             Write(g) \/ Remove(g) \/ TimerFires(g) \/ SendFired(g) \/ HashOpen(g)
      PROVE  row' = row
  BY <1>2 DEF Write, Remove, TimerFires, SendFired, HashOpen
<1>3. CASE Reconcile
  <2>1. OldRows(f)
    BY <1>3 DEF Reconcile, OldRows
  <2>2. QED
    BY <2>1, <1>o
<1>4. CASE WatcherStep
  BY <1>1, <1>4 DEF WatcherStep, Watch, EmitExisting, ReadRaw
<1>5. CASE DrainRemove
  BY <1>5, <1>o, <1>t DEF DrainRemove, OldRows
<1>6. CASE DrainStat \/ HashTick \/ Restart \/ Tick \/ Failing
  BY <1>1, <1>6 DEF DrainStat, HashTick, Restart, Tick, avid, Failing, DrainRemoveFails,
                    DrainUpsertFails, HashStoreFails
<1>7. CASE DrainUpsert
  <2>1. CASE f # drain.f
    BY <1>7, <1>o, <1>t, <2>1 DEF DrainUpsert, OldRows
  <2>2. CASE f = drain.f
    <3>1. row'[f] = Observed(row[f], drain.t) /\ disk' = disk
      BY <1>7, <1>t, <2>2 DEF DrainUpsert, avid
    <3>2. row'[f].t = drain.t /\ drain.t <= disk[f].t
      BY <1>7, <2>2, <3>1 DEF Observed, DrainUpsert, MtimeInv, DrainVouches
    <3>3. row'[f].hash = 0 \/ (row[f] # None /\ row[f].t = drain.t /\ row'[f].hash = row[f].hash)
      BY <3>1 DEF Observed
    <3>4. QED
      BY <3>1, <3>2, <3>3 DEF Vouches, OnDisk, MtimeInv, RowsVouch
  <2>3. QED
    BY <2>1, <2>2
<1>8. CASE HashStore
  <2>1. PICK v \in ReadVersions :
          row' = [row EXCEPT ![hashing.f] =
                    IF @ = None THEN None ELSE [hash |-> v, t |-> hashing.t, u |-> now]]
    BY <1>8 DEF HashStore
  <2>2. CASE f # hashing.f
    BY <1>o, <1>t, <2>1, <2>2 DEF OldRows
  <2>3. CASE f = hashing.f
    <3>1. row'[f] = [hash |-> v, t |-> hashing.t, u |-> now]
      BY <1>t, <2>1, <2>3
    <3>2. disk' = disk /\ hashing # None
      BY <1>8 DEF HashStore, avid
    <3>3. Vouches(f, hashing.t, hashing.v)
      BY <2>3, <3>2 DEF MtimeInv, HashingVouches
    <3>4. Vouches(f, hashing.t, v)
      BY <2>3, <3>3 DEF Vouches, ReadVersions
    <3>5. QED
      BY <3>1, <3>2, <3>4 DEF Vouches, OnDisk
  <2>4. QED
    BY <2>2, <2>3
<1>9. CASE UNCHANGED vars
  BY <1>1, <1>9 DEF vars
<1>10. QED
  BY <1>1, <1>2, <1>3, <1>4, <1>5, <1>6, <1>7, <1>8, <1>9
     DEF Next, DrainerStep, HasherStep, Failing

\* An mtime is never ahead of a later one.
LEMMA MtimeGrows ==
  ASSUME ~ SameSecond, Typed, ClockOK, [Next]_vars,
         NEW f \in Files, NEW t \in 0..MaxTime, t <= disk[f].t
  PROVE  t <= disk'[f].t
<1> DEFINE h == disk[f].v
<1>1. Vouches(f, t, h)
  BY DEF Vouches
<1>2. PICK k : k = h
  OBVIOUS
<1>3. Vouches(f, t, k)'
  BY <1>1, <1>2, VouchesStays
<1>4. QED
  BY <1>3 DEF Vouches

LEMMA DrainVouchesNext ==
  ASSUME ~ SameSecond, Typed, MtimeInv, [Next]_vars
  PROVE  DrainVouches'
<1>1. CASE drain' = drain
  <2>1. ASSUME drain # None PROVE drain.f \in Files /\ drain.t \in 0..MaxTime
    BY <2>1 DEF Typed, WorkTyped
  <2>2. ASSUME drain # None PROVE drain.t <= disk'[drain.f].t
    BY <2>1, <2>2, MtimeGrows DEF MtimeInv, DrainVouches
  <2>3. QED
    BY <1>1, <2>2 DEF DrainVouches
<1>2. CASE drain' = None
  BY <1>2 DEF DrainVouches
<1>3. CASE DrainStat
  <2>1. PICK f \in Files : f = Head(events).f
    BY <1>3, TailTyped DEF DrainStat, Draining, Typed, QueuesTyped
  <2>2. CASE OnDisk(f)
    <3>1. drain' = [f |-> f, t |-> disk[f].t] /\ disk' = disk
      BY <1>3, <2>1, <2>2 DEF DrainStat, avid
    <3>2. disk[f].t <= disk[f].t
      BY <2>1 DEF Typed, DiskTyped
    <3>3. QED
      BY <3>1, <3>2 DEF DrainVouches
  <2>3. CASE ~ OnDisk(f)
    BY <1>2, <1>3, <2>1, <2>3 DEF DrainStat
  <2>4. QED
    BY <2>2, <2>3
<1>4. ASSUME NEW g \in Files, Write(g) \/ Remove(g) \/ TimerFires(g) \/ SendFired(g)
      PROVE  drain' = drain
  BY <1>4 DEF Write, Remove, TimerFires, SendFired
<1>5. CASE Reconcile \/ WatcherStep \/ Tick \/ HasherStep \/ HashStoreFails
  BY <1>1, <1>5 DEF Reconcile, WatcherStep, Watch, EmitExisting, ReadRaw, Tick,
                    HasherStep, HashTick, HashOpen, HashStore, HashStoreFails
<1>6. CASE DrainRemove \/ DrainUpsert \/ Restart \/ DrainRemoveFails \/ DrainUpsertFails
  BY <1>1, <1>2, <1>6 DEF DrainRemove, DrainUpsert, Restart, DrainRemoveFails,
                          DrainUpsertFails
<1>7. CASE UNCHANGED vars
  BY <1>1, <1>7 DEF vars
<1>8. QED
  BY <1>1, <1>3, <1>4, <1>5, <1>6, <1>7 DEF Next, DrainerStep

LEMMA HashingVouchesNext ==
  ASSUME ~ SameSecond, Typed, MtimeInv, [Next]_vars
  PROVE  HashingVouches'
<1> USE DEF HashingVouches
<1>1. CASE hashing' = hashing
  <2> SUFFICES ASSUME hashing # None PROVE Vouches(hashing.f, hashing.t, hashing.v)'
    BY <1>1
  <2>1. PICK f \in Files, t \in 0..MaxTime, h \in Nat :
          f = hashing.f /\ t = hashing.t /\ h = hashing.v
    BY DEF Typed, WorkTyped
  <2>2. Vouches(f, t, h)'
    BY <2>1, VouchesStays DEF MtimeInv
  <2>3. QED
    BY <1>1, <2>1, <2>2 DEF Vouches, OnDisk
<1>2. CASE hashing' = None
  BY <1>2
<1>3. ASSUME NEW f \in Files, HashOpen(f) PROVE HashingVouches'
  <2>1. CASE hashing' = [f |-> f, v |-> disk[f].v, t |-> disk[f].t]
    <3>1. disk' = disk /\ disk[f].t <= disk[f].t
      BY <1>3 DEF HashOpen, avid, Typed, DiskTyped
    <3>2. QED
      BY <2>1, <3>1 DEF Vouches, OnDisk
  <2>2. QED
    BY <1>2, <1>3, <2>1 DEF HashOpen
<1>4. ASSUME NEW g \in Files, Write(g) \/ Remove(g) \/ TimerFires(g) \/ SendFired(g)
      PROVE  hashing' = hashing
  BY <1>4 DEF Write, Remove, TimerFires, SendFired, hasher
<1>5. CASE Reconcile \/ WatcherStep \/ Tick \/ DrainerStep \/ HashTick \/ DrainRemoveFails
             \/ DrainUpsertFails
  BY <1>1, <1>5 DEF Reconcile, WatcherStep, Watch, EmitExisting, ReadRaw, Tick,
                    DrainerStep, DrainRemove, DrainStat, DrainUpsert, HashTick, hasher,
                    DrainRemoveFails, DrainUpsertFails
<1>6. CASE HashStore \/ Restart \/ HashStoreFails
  BY <1>2, <1>6 DEF HashStore, Restart, HashStoreFails
<1>7. CASE UNCHANGED vars
  BY <1>1, <1>7 DEF vars
<1>8. QED
  BY <1>1, <1>3, <1>4, <1>5, <1>6, <1>7 DEF Next, HasherStep

\* If Avid does not write a file twice within a second, a hash next to the mtime that
\* the file has is the hash of the file: whatever the hasher reads while Avid writes.
THEOREM MtimeIsVouchedFor ==
  ASSUME ~ SameSecond
  PROVE  Spec => []MtimeVouchesForHash
<1>1. Init => MtimeInv
  BY DEF Init, MtimeInv, ClockOK, RowsVouch, DrainVouches, HashingVouches
<1>2. Typed /\ MtimeInv /\ [Next]_vars => MtimeInv'
  <2> SUFFICES ASSUME Typed, MtimeInv, [Next]_vars PROVE MtimeInv'
    OBVIOUS
  <2>1. ClockOK'
    BY ClockNext DEF MtimeInv
  <2>2. QED
    BY <2>1, RowsVouchNext, DrainVouchesNext, HashingVouchesNext DEF MtimeInv
<1>3. MtimeInv => MtimeVouchesForHash
  BY DEF MtimeInv, RowsVouch, Vouches, MtimeVouchesForHash
<1>4. QED
  BY <1>1, <1>2, <1>3, TypedInit, TypedNext, PTL DEF Spec

(***************************************************************************)
(* What is on its way from fsnotify to the manifest brings each row to     *)
(* what the folder holds.                                                  *)
(***************************************************************************)
About(s, f)     == \E i \in 1..Len(s) : s[i].f = f
Removes(s, f)   == \E i \in 1..Len(s) : s[i].f = f /\ s[i].op = "remove"
LastIs(s, f, op) == \E i \in 1..Len(s) :
  s[i].f = f /\ s[i].op = op /\ \A j \in 1..Len(s) : j > i => s[j].f # f

\* A new event is the last one about its file, and changes nothing for the others.
LEMMA AppendEvent ==
  ASSUME NEW s \in Seq(Events), NEW e \in Events, NEW f \in Files
  PROVE  /\ e.f = f => /\ LastIs(Append(s, e), f, e.op) /\ About(Append(s, e), f)
                       /\ Removes(Append(s, e), f) <=> Removes(s, f) \/ e.op = "remove"
         /\ e.f # f => /\ \A op : LastIs(Append(s, e), f, op) <=> LastIs(s, f, op)
                       /\ About(Append(s, e), f) <=> About(s, f)
                       /\ Removes(Append(s, e), f) <=> Removes(s, f)
<1> DEFINE a == Append(s, e)
           n == Len(s)
<1>1. n \in Nat /\ Len(a) = n + 1 /\ a[n + 1] = e /\ \A i \in 1..n : a[i] = s[i]
  OBVIOUS
<1> HIDE DEF a, n
<1>2. \A i : i \in 1..(n + 1) <=> i \in 1..n \/ i = n + 1
  BY <1>1
<1>3. n + 1 \notin 1..n /\ \A i \in 1..n : n + 1 > i
  BY <1>1
<1>4. About(a, f) <=> About(s, f) \/ e.f = f
  BY <1>1, <1>2 DEF About, n
<1>5. Removes(a, f) <=> Removes(s, f) \/ (e.f = f /\ e.op = "remove")
  BY <1>1, <1>2 DEF Removes, n
<1>6. e.f = f => LastIs(a, f, e.op)
  <2>1. \A j \in 1..(n + 1) : ~ (j > n + 1)
    BY <1>1
  <2>2. QED
    BY <1>1, <1>2, <2>1 DEF LastIs
<1>7. ASSUME e.f # f, NEW op PROVE LastIs(a, f, op) <=> LastIs(s, f, op)
  <2>1. ASSUME NEW i \in 1..(n + 1), a[i].f = f, a[i].op = op,
               \A j \in 1..(n + 1) : j > i => a[j].f # f
        PROVE  LastIs(s, f, op)
    <3>1. i \in 1..n
      BY <2>1, <1>1, <1>2, <1>7
    <3>2. QED
      BY <3>1, <2>1, <1>1, <1>2 DEF LastIs, n
  <2>2. ASSUME NEW i \in 1..n, s[i].f = f, s[i].op = op,
               \A j \in 1..n : j > i => s[j].f # f
        PROVE  LastIs(a, f, op)
    <3>1. i \in 1..(n + 1) /\ a[i].f = f /\ a[i].op = op
      BY <2>2, <1>1, <1>2
    <3>2. \A j \in 1..(n + 1) : j > i => a[j].f # f
      BY <2>2, <1>1, <1>2, <1>7
    <3>3. QED
      BY <3>1, <3>2, <1>1 DEF LastIs
  <2>3. QED
    BY <1>1, <2>1, <2>2 DEF LastIs, n
<1>8. QED
  BY <1>4, <1>5, <1>6, <1>7 DEF a

\* The first event is gone: the last one about a file is the same, or there is none
\* any more.
LEMMA TailEvent ==
  ASSUME NEW s \in Seq(Events), s # <<>>, NEW f \in Files
  PROVE  /\ About(Tail(s), f) => About(s, f)
         /\ About(s, f) => About(Tail(s), f) \/ Head(s).f = f
         /\ Removes(Tail(s), f) => Removes(s, f)
         /\ Removes(s, f) => \/ Removes(Tail(s), f)
                             \/ Head(s).f = f /\ Head(s).op = "remove"
         /\ \A op : LastIs(s, f, op) =>
                      \/ LastIs(Tail(s), f, op)
                      \/ Head(s).f = f /\ Head(s).op = op /\ ~ About(Tail(s), f)
<1> DEFINE t == Tail(s)
           n == Len(s)
<1>1. /\ n \in Nat /\ n > 0 /\ Len(t) = n - 1 /\ s[1] = Head(s)
      /\ \A i \in 1..(n - 1) : t[i] = s[i + 1]
  OBVIOUS
<1> HIDE DEF t, n
<1>2. /\ \A i \in 1..(n - 1) : i + 1 \in 1..n
      /\ \A i \in 1..n : i = 1 \/ (i - 1 \in 1..(n - 1) /\ t[i - 1] = s[i])
      /\ 1 \in 1..n
  BY <1>1
<1>3. About(t, f) => About(s, f)
  BY <1>1, <1>2 DEF About, n
<1>4. About(s, f) => About(t, f) \/ Head(s).f = f
  BY <1>1, <1>2 DEF About, n
<1>5. Removes(t, f) => Removes(s, f)
  BY <1>1, <1>2 DEF Removes, n
<1>6. Removes(s, f) => Removes(t, f) \/ (Head(s).f = f /\ Head(s).op = "remove")
  BY <1>1, <1>2 DEF Removes, n
<1>7. ASSUME NEW op, NEW i \in 1..n, s[i].f = f, s[i].op = op,
             \A j \in 1..n : j > i => s[j].f # f
      PROVE  \/ LastIs(t, f, op)
             \/ Head(s).f = f /\ Head(s).op = op /\ ~ About(t, f)
  <2>1. CASE i = 1
    <3>a. \A j \in 1..(n - 1) : j + 1 > 1
      BY <1>1
    <3>1. ASSUME NEW j \in 1..(n - 1) PROVE t[j].f # f
      <4>1. t[j] = s[j + 1] /\ j + 1 \in 1..n /\ j + 1 > 1
        BY <3>a, <1>1, <1>2
      <4>2. QED
        BY <4>1, <1>7, <2>1
    <3>2. ~ About(t, f)
      BY <1>1, <3>1 DEF About
    <3>3. QED
      BY <1>1, <1>7, <2>1, <3>2
  <2>2. CASE i # 1
    <3>1. i - 1 \in 1..(n - 1) /\ t[i - 1].f = f /\ t[i - 1].op = op
      BY <1>2, <1>7, <2>2
    <3>2. \A j \in 1..(n - 1) : j > i - 1 => t[j].f # f
      <4>1. \A j \in 1..(n - 1) : j > i - 1 => j + 1 > i
        BY <1>1
      <4>2. QED
        BY <1>1, <1>2, <1>7, <4>1
    <3>3. QED
      BY <1>1, <3>1, <3>2 DEF LastIs
  <2>3. QED
    BY <2>1, <2>2
<1>8. \A op : LastIs(s, f, op) =>
        \/ LastIs(t, f, op)
        \/ Head(s).f = f /\ Head(s).op = op /\ ~ About(t, f)
  BY <1>7 DEF LastIs, n
<1>9. QED
  BY <1>3, <1>4, <1>5, <1>6, <1>8 DEF t

\* Before the watcher runs nothing is under way but what Avid does.
Quiet ==
  /\ boot # "run" => events = <<>> /\ timers = {} /\ firing = {} /\ drain = None
  /\ boot \notin {"emit", "run"} => raw = <<>>

\* The last thing fsnotify has to say of a file is what the folder says.
RawIsTrue(f) ==
  About(raw, f) => LastIs(raw, f, IF OnDisk(f) THEN "write" ELSE "remove")

\* A row that is there, or about to be, for a file that is gone: a removal is on
\* its way, or it was missed.
GoneIsComing(f) ==
  /\ boot # "reconcile" /\ ~ OnDisk(f)
  /\ (row[f] # None /\ f \notin missed) \/ (drain # None /\ drain.f = f)
  => Removes(raw, f) \/ Removes(events, f)

\* A file that is there: if fsnotify has nothing more to say of it, the last thing
\* that reaches the drainer lists it, or it is listed already, or was missed.
ListedIsComing(f) ==
  boot = "run" /\ OnDisk(f) /\ ~ About(raw, f) =>
    \/ f \in timers \cup firing
    \/ LastIs(events, f, "write")
    \/ ~ Removes(events, f) /\ (row[f] # None \/ f \in missed \/ (drain # None /\ drain.f = f))

Follows(f) == RawIsTrue(f) /\ GoneIsComing(f) /\ ListedIsComing(f)

FolderInv == Quiet /\ \A f \in Files : Follows(f)

LEMMA NoEvents ==
  \A f, op : ~ About(<<>>, f) /\ ~ Removes(<<>>, f) /\ ~ LastIs(<<>>, f, op)
BY DEF About, Removes, LastIs

LEMMA QuietNext ==
  ASSUME Typed, Quiet, [Next]_vars
  PROVE  Quiet'
<1> USE DEF Quiet
<1>1. CASE UNCHANGED <<boot, raw, events, timers, firing, drain>>
  BY <1>1
<1>2. ASSUME NEW f \in Files, Write(f) \/ Remove(f) PROVE Quiet'
  BY <1>2 DEF Write, Remove, Notify
<1>3. ASSUME NEW f \in Files, TimerFires(f) \/ SendFired(f) PROVE Quiet'
  BY <1>3 DEF TimerFires, SendFired
<1>4. CASE Reconcile \/ Watch \/ EmitExisting \/ ReadRaw
  BY <1>4 DEF Reconcile, Watch, EmitExisting, ReadRaw, watch
<1>5. CASE DrainerStep \/ DrainRemoveFails \/ DrainUpsertFails
  BY <1>5 DEF DrainerStep, DrainRemove, DrainStat, DrainUpsert, DrainRemoveFails,
              DrainUpsertFails, Draining, watch
<1>6. CASE Restart
  BY <1>6 DEF Restart
<1>7. CASE Tick \/ HasherStep \/ HashStoreFails \/ UNCHANGED vars
  BY <1>7, <1>1 DEF Tick, HasherStep, HashTick, HashStore, HashStoreFails, HashOpen, vars,
                    watch
<1>8. QED
  BY <1>2, <1>3, <1>4, <1>5, <1>6, <1>7 DEF Next, WatcherStep

\* Avid writes or removes a file.
LEMMA AvidFollows ==
  ASSUME Typed, FolderInv, NEW g \in Files, Write(g) \/ Remove(g), NEW f \in Files
  PROVE  Follows(f)'
<1> DEFINE op == IF Write(g) THEN "write" ELSE "remove"
<1>a. Follows(f) /\ Quiet
  BY DEF FolderInv
<1>b. raw \in Seq(Events) /\ disk \in [Files -> [v : 0..MaxWrites, t : 0..MaxTime]]
  BY DEF Typed, QueuesTyped, DiskTyped
<1>c. /\ UNCHANGED <<boot, row, drain, events, timers, firing>>
      /\ missed' \in {missed, missed \cup {g}}
  BY DEF Write, Remove, news
<1>1. CASE f # g
  <2>1. OnDisk(f)' <=> OnDisk(f)
    BY <1>1, <1>b DEF Write, Remove, OnDisk
  <2>2. /\ About(raw', f) <=> About(raw, f)
        /\ Removes(raw', f) <=> Removes(raw, f)
        /\ \A o : LastIs(raw', f, o) <=> LastIs(raw, f, o)
    <3>1. CASE UNCHANGED raw
      BY <3>1
    <3>2. CASE \E o \in {"write", "remove"} : raw' = Append(raw, Event(g, o))
      <4>1. PICK o \in {"write", "remove"} : raw' = Append(raw, Event(g, o))
        BY <3>2
      <4>2. Event(g, o) \in Events /\ Event(g, o).f # f
        BY <1>1, EventTyped
      <4>3. QED
        BY <4>1, <4>2, <1>b, AppendEvent
    <3>3. UNCHANGED raw \/ \E o \in {"write", "remove"} : raw' = Append(raw, Event(g, o))
      BY DEF Write, Remove, Notify
    <3>4. QED
      BY <3>1, <3>2, <3>3
  <2>3. QED
    BY <1>a, <1>c, <2>1, <2>2
       DEF Follows, RawIsTrue, GoneIsComing, ListedIsComing
<1>2. CASE f = g
  <2>1. CASE Write(g)
    <3>1. OnDisk(f)'
      BY <2>1, <1>2, <1>b DEF Write, OnDisk, Typed, DiskTyped
    <3>2. CASE boot \in {"emit", "run"}
      <4>1. LastIs(raw', f, "write") /\ About(raw', f)
        BY <3>2, <2>1, <1>2, <1>b, EventTyped, AppendEvent DEF Write, Notify
      <4>2. QED
        BY <3>1, <4>1 DEF Follows, RawIsTrue, GoneIsComing, ListedIsComing
    <3>3. CASE boot \notin {"emit", "run"}
      <4>1. raw' = <<>>
        BY <3>3, <2>1, <1>a DEF Write, Notify, Quiet
      <4>2. QED
        BY <3>1, <3>3, <4>1, <1>c, NoEvents
           DEF Follows, RawIsTrue, GoneIsComing, ListedIsComing
    <3>4. QED
      BY <3>2, <3>3
  <2>2. CASE Remove(g)
    <3>1. ~ OnDisk(f)'
      BY <2>2, <1>2, <1>b DEF Remove, OnDisk
    <3>2. CASE boot \in {"emit", "run"}
      <4>1. LastIs(raw', f, "remove") /\ Removes(raw', f)
        BY <3>2, <2>2, <1>2, <1>b, EventTyped, AppendEvent DEF Remove, Notify
      <4>2. QED
        BY <3>1, <4>1 DEF Follows, RawIsTrue, GoneIsComing, ListedIsComing
    <3>3. CASE boot \notin {"emit", "run"}
      <4>1. raw' = <<>> /\ drain' = None
        BY <3>3, <2>2, <1>a, <1>c DEF Remove, Notify, Quiet
      <4>2. boot' = "reconcile" \/ f \in missed'
        BY <3>3, <2>2, <1>2, <1>c DEF Remove, Typed, QueuesTyped
      <4>3. QED
        BY <3>1, <4>1, <4>2, NoEvents
           DEF Follows, RawIsTrue, GoneIsComing, ListedIsComing
    <3>4. QED
      BY <3>2, <3>3
  <2>3. QED
    BY <2>1, <2>2
<1>3. QED
  BY <1>1, <1>2

\* emitExisting: whatever is in the folder is announced, last of all.
LEMMA EmitFollows ==
  ASSUME Typed, FolderInv, EmitExisting, NEW f \in Files
  PROVE  Follows(f)'
<1> DEFINE F == {g \in Files : OnDisk(g)}
           n == Cardinality(F)
<1>a. Follows(f) /\ Quiet /\ boot = "emit" /\ boot' = "run"
  BY DEF FolderInv, EmitExisting
<1>b. /\ UNCHANGED <<disk, raw, timers, firing, drain, row, missed>>
      /\ events = <<>>
  BY <1>a DEF EmitExisting, avid, watch, news, Quiet
<1>c. OnDisk(f)' <=> OnDisk(f)
  BY <1>b DEF OnDisk
<1>1. RawIsTrue(f)' /\ GoneIsComing(f)'
  <2>1. GoneIsComing(f)'
    BY <1>a, <1>b, <1>c, NoEvents DEF Follows, GoneIsComing
  <2>2. QED
    BY <2>1, <1>a, <1>b, <1>c DEF Follows, RawIsTrue
<1>2. OnDisk(f) => LastIs(events', f, "write")
  <2> SUFFICES ASSUME OnDisk(f) PROVE LastIs(events', f, "write")
    OBVIOUS
  <2>1. IsFiniteSet(F) /\ n \in Nat /\ f \in F
    BY FS_Subset, FS_CardinalityType, LocalFolderAssumption
  <2>2. PICK s \in [1..n -> F] :
          /\ \A i, j \in DOMAIN s : s[i] = s[j] => i = j
          /\ events' = events \o [i \in DOMAIN s |-> Event(s[i], "write")]
    BY DEF EmitExisting
  <2>3. \E i \in 1..n : s[i] = f
    <3>1. s \in Injection(1..n, F)
      BY <2>2 DEF Injection, IsInjective
    <3>2. Cardinality(1..n) = n /\ IsFiniteSet(1..n)
      BY <2>1, FS_Interval
    <3>3. s \in Surjection(1..n, F)
      BY <2>1, <3>1, <3>2, FS_Injection
    <3>4. QED
      BY <2>1, <3>3 DEF Surjection
  <2> DEFINE E == [i \in 1..n |-> Event(s[i], "write")]
  <2>4. E \in Seq(Events) /\ Len(E) = n /\ events' = E
    <3>1. \A i \in 1..n : Event(s[i], "write") \in Events
      BY EventTyped
    <3>2. E \in [1..n -> Events]
      BY <3>1
    <3>3. E \in Seq(Events) /\ Len(E) = n
      BY <2>1, <3>2
    <3>4. events' = <<>> \o E
      BY <1>b, <2>2
    <3> HIDE DEF E
    <3>5. QED
      BY <3>3, <3>4
  <2>5. \A i \in 1..n : E[i].f = s[i] /\ E[i].op = "write"
    BY DEF Event
  <2> HIDE DEF E, n
  <2>6. PICK i \in 1..n : s[i] = f
    BY <2>3
  <2>7. \A j \in 1..n : j > i => E[j].f # f
    <3>1. \A j \in 1..n : j > i => j # i
      BY <2>1
    <3>2. QED
      BY <2>2, <2>5, <2>6, <3>1
  <2>8. QED
    BY <2>4, <2>5, <2>6, <2>7 DEF LastIs
<1>3. QED
  BY <1>a, <1>c, <1>1, <1>2 DEF Follows, ListedIsComing

\* Watcher.Run reads an event: it goes on to the drainer, or arms a timer.
LEMMA ReadFollows ==
  ASSUME Typed, FolderInv, ReadRaw, NEW f \in Files
  PROVE  Follows(f)'
<1> DEFINE e == Head(raw)
<1>a. Follows(f) /\ boot = "run"
  BY DEF FolderInv, ReadRaw
<1>b. /\ UNCHANGED <<disk, boot, drain, row, firing, missed>>
      /\ raw' = Tail(raw) /\ raw # <<>> /\ raw \in Seq(Events) /\ events \in Seq(Events)
  BY DEF ReadRaw, avid, news, Typed, QueuesTyped
<1>c. e \in Events /\ e.f \in Files /\ e.op \in {"write", "remove"}
  BY <1>b, TailTyped
<1>d. OnDisk(f)' <=> OnDisk(f)
  BY <1>b DEF OnDisk
<1>e. /\ About(raw', f) => About(raw, f)
      /\ About(raw, f) => About(raw', f) \/ e.f = f
      /\ Removes(raw, f) => Removes(raw', f) \/ (e.f = f /\ e.op = "remove")
      /\ \A op : LastIs(raw, f, op) =>
                   LastIs(raw', f, op) \/ (e.f = f /\ e.op = op /\ ~ About(raw', f))
  BY <1>b, TailEvent
<1>1. CASE e.op = "remove"
  <2>1. /\ events' = Append(events, Event(e.f, "remove"))
        /\ timers' = timers \ {e.f}
    BY <1>1 DEF ReadRaw
  <2>2. Event(e.f, "remove") \in Events /\ Event(e.f, "remove").f = e.f
        /\ Event(e.f, "remove").op = "remove"
    BY <1>c, EventTyped
  <2>3. CASE e.f = f
    <3>1. Removes(events', f)
      BY <1>b, <2>1, <2>2, <2>3, AppendEvent
    <3>2. OnDisk(f) => About(raw', f)
      <4>1. About(raw, f)
        <5>1. 1 \in 1..Len(raw) /\ raw[1] = e
          BY <1>b
        <5>2. QED
          BY <2>3, <5>1 DEF About
      <4>2. QED
        BY <1>1, <1>a, <1>e, <4>1 DEF Follows, RawIsTrue, LastIs, About
    <3>3. QED
      BY <1>a, <1>d, <1>e, <3>1, <3>2
         DEF Follows, RawIsTrue, GoneIsComing, ListedIsComing
  <2>4. CASE e.f # f
    <3>1. /\ Removes(events', f) <=> Removes(events, f)
          /\ \A op : LastIs(events', f, op) <=> LastIs(events, f, op)
      BY <1>b, <2>1, <2>2, <2>4, AppendEvent
    <3>2. f \in timers => f \in timers'
      BY <2>1, <2>4
    <3>3. QED
      BY <1>a, <1>b, <1>d, <1>e, <2>4, <3>1, <3>2
         DEF Follows, RawIsTrue, GoneIsComing, ListedIsComing
  <2>5. QED
    BY <2>3, <2>4
<1>2. CASE e.op # "remove"
  <2>1. events' = events /\ timers' = timers \cup {e.f}
    BY <1>2 DEF ReadRaw
  <2>2. QED
    BY <1>2, <1>a, <1>b, <1>d, <1>e, <2>1
       DEF Follows, RawIsTrue, GoneIsComing, ListedIsComing
<1>3. QED
  BY <1>1, <1>2

\* A debounce ends: the callback leaves "pending", then sends.
LEMMA TimerFollows ==
  ASSUME Typed, FolderInv, NEW g \in Files, TimerFires(g) \/ SendFired(g), NEW f \in Files
  PROVE  Follows(f)'
<1>a. Follows(f) /\ events \in Seq(Events)
  BY DEF FolderInv, Typed, QueuesTyped
<1>b. UNCHANGED <<disk, boot, drain, row, raw, missed>>
  BY DEF TimerFires, SendFired, avid, news
<1>c. OnDisk(f)' <=> OnDisk(f)
  BY <1>b DEF OnDisk
<1>1. CASE TimerFires(g)
  BY <1>1, <1>a, <1>b, <1>c
     DEF TimerFires, Follows, RawIsTrue, GoneIsComing, ListedIsComing
<1>2. CASE SendFired(g)
  <2>1. /\ events' = Append(events, Event(g, "write")) /\ firing' = firing \ {g}
        /\ timers' = timers
    BY <1>2 DEF SendFired
  <2>2. /\ Event(g, "write") \in Events /\ Event(g, "write").f = g
        /\ Event(g, "write").op = "write"
    BY EventTyped
  <2>3. /\ Removes(events', f) <=> Removes(events, f)
        /\ g = f => LastIs(events', f, "write")
        /\ g # f => \A op : LastIs(events', f, op) <=> LastIs(events, f, op)
    BY <1>a, <2>1, <2>2, AppendEvent
  <2>4. QED
    BY <1>a, <1>b, <1>c, <2>1, <2>3
       DEF Follows, RawIsTrue, GoneIsComing, ListedIsComing
<1>3. QED
  BY <1>1, <1>2

\* The drainer takes an event.
LEMMA DrainFollows ==
  ASSUME Typed, FolderInv, DrainRemove \/ DrainRemoveFails \/ DrainStat, NEW f \in Files
  PROVE  Follows(f)'
<1> DEFINE e == Head(events)
<1>a. /\ Follows(f) /\ drain = None
      /\ events # <<>> /\ events \in Seq(Events) /\ row \in [Files -> Rows \cup {None}]
  BY DEF FolderInv, DrainRemove, DrainRemoveFails, DrainStat, Draining, Typed, QueuesTyped,
         DiskTyped
<1>b. UNCHANGED <<disk, boot, raw, timers, firing>> /\ events' = Tail(events)
  BY DEF DrainRemove, DrainRemoveFails, DrainStat, avid, watch
<1>c. e \in Events /\ e.f \in Files /\ e.op \in {"write", "remove"}
  BY <1>a, TailTyped
<1>d. OnDisk(f)' <=> OnDisk(f)
  BY <1>b DEF OnDisk
<1>e. /\ Removes(events', f) => Removes(events, f)
      /\ Removes(events, f) => Removes(events', f) \/ (e.f = f /\ e.op = "remove")
      /\ LastIs(events, f, "write") =>
           LastIs(events', f, "write") \/ (e.f = f /\ e.op = "write" /\ ~ About(events', f))
      /\ ~ About(events', f) => ~ Removes(events', f)
  <2>1. ~ About(events', f) => ~ Removes(events', f)
    BY DEF About, Removes
  <2>2. QED
    BY <1>a, <1>b, <2>1, TailEvent
<1>f. e.f = f /\ e.op = "remove" => Removes(events, f)
  <2>1. 1 \in 1..Len(events) /\ events[1] = e
    BY <1>a
  <2>2. QED
    BY <2>1 DEF Removes
<1>1. CASE DrainRemove
  <2>1. drain' = None /\ row' = [row EXCEPT ![e.f] = None] /\ e.op = "remove"
        /\ missed' = missed \ {e.f}
    BY <1>1, <1>a DEF DrainRemove
  <2>2. row'[f] = IF e.f = f THEN None ELSE row[f]
    BY <1>a, <1>c, <2>1
  <2>3. QED
    BY <1>a, <1>b, <1>d, <1>e, <1>f, <2>1, <2>2
       DEF Follows, RawIsTrue, GoneIsComing, ListedIsComing
<1>2. CASE DrainStat
  <2>1. /\ row' = row /\ e.op = "write" /\ missed' = missed
        /\ drain' = IF OnDisk(e.f) THEN [f |-> e.f, t |-> disk[e.f].t] ELSE None
    BY <1>2, <1>c DEF DrainStat, news
  <2>2. OnDisk(e.f) => drain' # None /\ drain'.f = e.f
    BY <1>c, <2>1, LocalFolderAssumption DEF Typed, DiskTyped
  <2>3. ~ OnDisk(e.f) => drain' = None
    BY <2>1
  <2>4. QED
    BY <1>a, <1>b, <1>d, <1>e, <2>1, <2>2, <2>3
       DEF Follows, RawIsTrue, GoneIsComing, ListedIsComing
<1>3. CASE DrainRemoveFails
  <2>1. drain' = None /\ row' = row /\ e.op = "remove" /\ missed' = missed \cup {e.f}
    BY <1>3, <1>a DEF DrainRemoveFails
  <2>2. QED
    BY <1>a, <1>b, <1>d, <1>e, <1>f, <2>1
       DEF Follows, RawIsTrue, GoneIsComing, ListedIsComing
<1>4. QED
  BY <1>1, <1>2, <1>3

LEMMA FolderNext ==
  ASSUME Typed, FolderInv, [Next]_vars
  PROVE  FolderInv'
<1>1. Quiet'
  BY QuietNext DEF FolderInv
<1> SUFFICES ASSUME NEW f \in Files PROVE Follows(f)'
  BY <1>1 DEF FolderInv
<1>a. Follows(f) /\ Quiet /\ row \in [Files -> Rows \cup {None}]
  BY DEF FolderInv, Typed, DiskTyped
\* The same queues, folder and drainer; rows come and go with them.
<1>2. ASSUME UNCHANGED <<disk, boot, raw, events, timers, firing, drain, missed>>,
             row'[f] = None <=> row[f] = None
      PROVE  Follows(f)'
  BY <1>2, <1>a DEF Follows, RawIsTrue, GoneIsComing, ListedIsComing, OnDisk
<1>3. ASSUME NEW g \in Files, Write(g) \/ Remove(g) PROVE Follows(f)'
  BY <1>3, AvidFollows
<1>4. ASSUME NEW g \in Files, TimerFires(g) \/ SendFired(g) PROVE Follows(f)'
  BY <1>4, TimerFollows
<1>5. CASE Reconcile
  <2>1. /\ UNCHANGED <<disk, raw, events, timers, firing, drain>>
        /\ raw = <<>> /\ drain = None /\ boot' = "watch"
        /\ ~ OnDisk(f) => row'[f] = None \/ f \in missed'
    BY <1>5, <1>a DEF Reconcile, Ghosts, avid, watch, Quiet
  <2>2. QED
    BY <2>1, NoEvents DEF Follows, RawIsTrue, GoneIsComing, ListedIsComing, OnDisk
<1>6. CASE Watch
  <2>1. /\ UNCHANGED <<disk, raw, events, timers, firing, drain, row, missed>>
        /\ boot = "watch" /\ boot' = "emit"
    BY <1>6 DEF Watch, avid, watch, news
  <2>2. QED
    BY <2>1, <1>a DEF Follows, RawIsTrue, GoneIsComing, ListedIsComing, OnDisk
<1>7. CASE EmitExisting \/ ReadRaw \/ DrainRemove \/ DrainRemoveFails \/ DrainStat
  BY <1>7, EmitFollows, ReadFollows, DrainFollows
<1>8. CASE DrainUpsert
  <2>1. /\ UNCHANGED <<disk, boot, raw, events, timers, firing>>
        /\ drain # None /\ drain' = None /\ missed' = missed \ {drain.f}
        /\ row' = [row EXCEPT ![drain.f] = Observed(row[drain.f], drain.t)]
    BY <1>8 DEF DrainUpsert, avid, watch
  <2>2. \A r, t : Observed(r, t) # None \/ t \notin 0..MaxTime \/ r \notin Rows \cup {None}
    <3>1. ASSUME NEW r \in Rows \cup {None}, NEW t \in 0..MaxTime
          PROVE  Observed(r, t) # None
      BY <3>1, LocalFolderAssumption DEF Observed, Rows, Typed, DiskTyped
    <3>2. QED
      BY <3>1
  <2>3. drain.f \in Files /\ drain.t \in 0..MaxTime
    BY <2>1 DEF Typed, WorkTyped
  <2>4. /\ drain.f = f => row'[f] # None
        /\ drain.f # f => row'[f] = row[f]
    BY <1>a, <2>1, <2>2, <2>3
  <2>5. QED
    BY <1>a, <2>1, <2>4
       DEF Follows, RawIsTrue, GoneIsComing, ListedIsComing, OnDisk
<1>9. CASE HashStore
  <2>1. /\ UNCHANGED <<disk, boot, raw, events, timers, firing, drain, missed>>
        /\ hashing # None
        /\ \E v \in ReadVersions :
             row' = [row EXCEPT ![hashing.f] =
                       IF row[hashing.f] = None THEN None
                       ELSE [hash |-> v, t |-> hashing.t, u |-> now]]
    BY <1>9 DEF HashStore, avid, watch, news
  <2>2. /\ hashing.f \in Files /\ hashing.t \in 0..MaxTime
        /\ ReadVersions \subseteq 0..MaxWrites /\ now \in 0..MaxTime
    BY <2>1 DEF Typed, WorkTyped, DiskTyped, ReadVersions
  <2>3. \A v \in ReadVersions : [hash |-> v, t |-> hashing.t, u |-> now] # None
    <3>1. \A v \in ReadVersions : [hash |-> v, t |-> hashing.t, u |-> now] \in Rows
      BY <2>2 DEF Rows
    <3>2. QED
      BY <3>1, LocalFolderAssumption DEF Rows
  <2>4. row'[f] = None <=> row[f] = None
    BY <1>a, <2>1, <2>2, <2>3
  <2>5. QED
    BY <2>1, <2>4, <1>2
<1>10. CASE Tick \/ HashTick \/ HashStoreFails \/ (\E g \in Files : HashOpen(g)) \/ UNCHANGED vars
  BY <1>10, <1>2 DEF Tick, HashTick, HashStoreFails, HashOpen, vars, avid, watch, news
<1>11. CASE Restart
  <2>1. raw' = <<>> /\ boot' = "reconcile"
    BY <1>11 DEF Restart
  <2>2. QED
    BY <2>1, NoEvents DEF Follows, RawIsTrue, GoneIsComing, ListedIsComing
<1>12. CASE DrainUpsertFails
  <2>1. /\ UNCHANGED <<disk, boot, raw, events, timers, firing, row>>
        /\ drain # None /\ drain' = None /\ missed' = missed \cup {drain.f}
    BY <1>12 DEF DrainUpsertFails, avid, watch
  <2>2. QED
    BY <1>a, <2>1 DEF Follows, RawIsTrue, GoneIsComing, ListedIsComing, OnDisk
<1>13. QED
  BY <1>3, <1>4, <1>5, <1>6, <1>7, <1>8, <1>9, <1>10, <1>11, <1>12
     DEF Next, WatcherStep, DrainerStep, HasherStep

\* The manifest lists exactly the files of the folder once every event has been
\* handled: whatever Avid writes and removes while events, debounce timers and the
\* drainer are under way, in whatever order a timer and a removal arrive, and through
\* restarts.  Excepted are the files whose last statement failed (main.go:358, 363, 417,
\* 435) or that went before the watch began, until the next statement about them.
THEOREM RowsFollowTheFolder == Spec => []RowsMatchDisk
<1>1. Init => FolderInv
  BY NoEvents DEF Init, FolderInv, Quiet, Follows, RawIsTrue, GoneIsComing,
                  ListedIsComing
<1>2. Typed /\ FolderInv /\ [Next]_vars => FolderInv'
  BY FolderNext
<1>3. FolderInv => RowsMatchDisk
  BY NoEvents DEF FolderInv, Follows, GoneIsComing, ListedIsComing, RowsMatchDisk,
                  Settled
<1>4. QED
  BY <1>1, <1>2, <1>3, TypedInit, TypedNext, PTL DEF Spec

(***************************************************************************)
(* What the LIMIT of NeedsHash does to rows that cannot get a hash.        *)
(***************************************************************************)
LEMMA MinIsOneOfTwo ==
  ASSUME NEW a \in Nat, NEW b \in Nat
  PROVE  Min({a, b}) \in {a, b}
<1>1. \E x \in {a, b} : \A y \in {a, b} : x =< y
  <2>1. CASE a =< b
    BY <2>1
  <2>2. CASE b =< a
    BY <2>2
  <2>3. QED
    BY <2>1, <2>2
<1>2. QED
  BY <1>1 DEF Min

\* While fewer rows are stuck (their file is gone, or cannot be read) than the list has
\* places, every list of the hasher has another file in it, if one is waiting: those
\* that fail keep their place at the head of the order (hasher.go:79-85 skips them
\* without a change of updated_at), and still cannot fill the list.  This is the step of
\* EveryFileGetsHashed that a list full of stuck rows breaks.
THEOREM ListsAreNeverAllStuck ==
  ASSUME Cardinality(Stuck) < Batch
  PROVE  \A S \in NeedsHash : Pending \ Stuck # {} => S \ Stuck # {}
<1> SUFFICES ASSUME NEW S \in NeedsHash, S \subseteq Stuck
             PROVE  Pending \subseteq Stuck
  OBVIOUS
<1>1. Pending \in SUBSET Files /\ S \in SUBSET Pending /\ Stuck \in SUBSET Files
  BY DEF Pending, NeedsHash, Stuck
<1>2. IsFiniteSet(Pending) /\ IsFiniteSet(Stuck) /\ IsFiniteSet(S)
  BY <1>1, LocalFolderAssumption, FS_Subset
<1>3. /\ Cardinality(Pending) \in Nat /\ Cardinality(Stuck) \in Nat
      /\ Cardinality(S) \in Nat /\ Batch \in Nat
  BY <1>2, LocalFolderAssumption, FS_CardinalityType
<1>4. Cardinality(S) <= Cardinality(Stuck)
  <2>1. S \in SUBSET Stuck
    OBVIOUS
  <2>2. QED
    BY <2>1, <1>2, FS_Subset
<1>5. Cardinality(S) \in {Batch, Cardinality(Pending)}
  BY <1>3, MinIsOneOfTwo DEF NeedsHash
<1>6. Cardinality(Pending) = Cardinality(S)
  BY <1>3, <1>4, <1>5
<1>7. Pending = S
  BY <1>1, <1>2, <1>6, FS_Subset
<1>8. QED
  BY <1>7
=============================================================================
