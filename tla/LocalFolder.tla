---------------------------- MODULE LocalFolder ----------------------------
(***************************************************************************)
(* How the manifest follows the folder MXF/1 that Avid writes: fsnotify    *)
(* and the debounce (watcher.go), the drainer and the reconciliation       *)
(* (startRootWorkers in main.go), UpsertObserved / Delete / SetHash        *)
(* (manifest.go) and the hasher (hasher.go).                               *)
(*                                                                         *)
(* A version of a file is a number, 0 when the file is not there; the hash *)
(* of a version is the version, 0 is the empty hash.  Times are whole      *)
(* seconds, as the manifest stores them.  The Events channel is unbounded  *)
(* here: RootWorkers models its limit.                                     *)
(***************************************************************************)
EXTENDS Integers, Sequences, FiniteSetsExt

CONSTANTS
  Files,
  Batch,        \* the LIMIT of NeedsHash (100 in the code)
  Unreadable,   \* files that hashFile cannot open or read
  SameSecond,   \* whether Avid may rewrite a file within one second
  MaxWrites,    \* bound on the writes of Avid
  MaxTime,      \* bound on the clock
  MaxRestarts,  \* bound on the restarts of the root workers
  MaxFaults,    \* bound on the statements that fail (SQLITE_BUSY, a full disk)
  None

ASSUME LocalFolderAssumption ==
  /\ IsFiniteSet(Files)
  /\ MaxWrites \in Nat /\ MaxTime \in Nat \ {0} /\ MaxRestarts \in Nat
  /\ MaxFaults \in Nat /\ SameSecond \in BOOLEAN
  /\ None \notin Files
  /\ None \notin [f : Files, t : 0..MaxTime]
  /\ None \notin [f : Files, v : 0..MaxWrites, t : 0..MaxTime]
  /\ Batch \in Nat \ {0} /\ Unreadable \subseteq Files
  /\ None \notin [hash : 0..MaxWrites, t : 0..MaxTime, u : 0..MaxTime]

VARIABLES
  disk,      \* disk[f]: the version of f and its modification time
  now, writes, restarts, faults,
  boot,      \* how far startRootWorkers is: "reconcile", "watch", "emit", "run"
  raw,       \* fsnotify events not read yet
  timers,    \* files with an armed debounce timer (Watcher.pending)
  firing,    \* timer callbacks that left "pending" and have not sent yet
  events,    \* Watcher.Events
  drain,     \* the drainer between os.Stat and UpsertObserved
  row,       \* the columns hash, modified_at and updated_at of the row 1/f
  todo,      \* what is left of the hasher's NeedsHash list
  hashing,   \* the file the hasher has open, its version and mtime at Stat
  missed     \* history: files of which the manifest missed the last news

avid == <<disk, now, writes>>
watch == <<raw, timers, firing>>
hasher == <<todo, hashing>>
news == <<missed, faults>>
vars == <<disk, now, writes, restarts, boot, raw, timers, firing, events, drain,
          row, todo, hashing, missed, faults>>

Rows == [hash : 0..MaxWrites, t : 0..MaxTime, u : 0..MaxTime]

Init ==
  /\ disk = [f \in Files |-> [v |-> 0, t |-> 0]]
  /\ now = 1 /\ writes = 0 /\ restarts = 0
  /\ boot = "reconcile"
  /\ raw = <<>> /\ timers = {} /\ firing = {} /\ events = <<>>
  /\ drain = None
  /\ row = [f \in Files |-> None]
  /\ todo = {} /\ hashing = None
  /\ missed = {} /\ faults = 0

OnDisk(f) == disk[f].v # 0
Event(f, op) == [f |-> f, op |-> op]

\* A statement of the manifest returns an error.
Fault == faults < MaxFaults /\ faults' = faults + 1

(***************************************************************************)
(* Avid, and the kernel that tells fsnotify about it.                      *)
(***************************************************************************)
Notify(f, op) ==
  raw' = IF boot \in {"emit", "run"} THEN Append(raw, Event(f, op)) ELSE raw

Tick ==
  /\ now < MaxTime
  /\ now' = now + 1
  /\ UNCHANGED <<disk, writes, restarts, boot, watch, events, drain, row, hasher, news>>

Write(f) ==
  /\ writes < MaxWrites
  /\ disk[f].t < now \/ SameSecond
  /\ writes' = writes + 1
  /\ disk' = [disk EXCEPT ![f] = [v |-> writes + 1, t |-> now]]
  /\ Notify(f, "write")
  /\ UNCHANGED <<now, restarts, boot, timers, firing, events, drain, row, hasher, news>>

\* Between the reconciliation and the start of the watch nobody hears it.
Remove(f) ==
  /\ OnDisk(f)
  /\ disk' = [disk EXCEPT ![f].v = 0]
  /\ Notify(f, "remove")
  /\ missed' = IF boot = "watch" THEN missed \cup {f} ELSE missed
  /\ UNCHANGED <<now, writes, restarts, boot, timers, firing, events, drain, row, hasher, faults>>

(***************************************************************************)
(* startRootWorkers.                                                       *)
(***************************************************************************)

\* The rows of files that are gone.
Ghosts == {f \in Files : ~ OnDisk(f) /\ row[f] # None}

\* Mutant: rows of files that are gone stay.
ReconcileNothing ==
  /\ boot = "reconcile"
  /\ boot' = "watch"
  /\ missed' = {}
  /\ UNCHANGED <<avid, restarts, watch, events, drain, row, hasher, faults>>

\* They are deleted, before the workers start.  When AllFilePaths fails none is, and a
\* row whose Delete fails stays; nobody hears of it.
Reconcile ==
  /\ boot = "reconcile"
  /\ boot' = "watch"
  /\ \E kept \in SUBSET Ghosts :
       /\ IF kept = {} THEN UNCHANGED faults ELSE Fault
       /\ row' = [f \in Files |-> IF f \in Ghosts \ kept THEN None ELSE row[f]]
       /\ missed' = kept
  /\ UNCHANGED <<avid, restarts, watch, events, drain, hasher>>

\* fsw.Add: from here on the folder's changes are heard.
Watch ==
  /\ boot = "watch"
  /\ boot' = "emit"
  /\ UNCHANGED <<avid, restarts, watch, events, drain, row, hasher, news>>

\* Mutant: only what fsnotify reports is seen.
EmitNothing ==
  /\ boot = "emit"
  /\ boot' = "run"
  /\ UNCHANGED <<avid, restarts, watch, events, drain, row, hasher, news>>

\* emitExisting: one event for every file of the folder, in no given order.
EmitExisting ==
  /\ boot = "emit"
  /\ boot' = "run"
  /\ \E s \in [1..Cardinality({f \in Files : OnDisk(f)}) -> {f \in Files : OnDisk(f)}] :
       /\ \A i, j \in DOMAIN s : s[i] = s[j] => i = j
       /\ events' = events \o [i \in DOMAIN s |-> Event(s[i], "write")]
  /\ UNCHANGED <<avid, restarts, watch, drain, row, hasher, news>>

\* Watcher.Run reads one event.  A removal is sent at once and disarms the
\* timer; anything else (re)arms it.
ReadRaw ==
  /\ boot = "run"
  /\ raw # <<>>
  /\ raw' = Tail(raw)
  /\ LET f == Head(raw).f
     IN IF Head(raw).op = "remove"
          THEN /\ timers' = timers \ {f}
               /\ events' = Append(events, Event(f, "remove"))
          ELSE /\ timers' = timers \cup {f}
               /\ UNCHANGED events
  /\ UNCHANGED <<avid, restarts, boot, firing, drain, row, hasher, news>>

\* The debounce is over.  The callback leaves "pending", then sends.
TimerFires(f) ==
  /\ f \in timers \ firing
  /\ timers' = timers \ {f}
  /\ firing' = firing \cup {f}
  /\ UNCHANGED <<avid, restarts, boot, raw, events, drain, row, hasher, news>>

SendFired(f) ==
  /\ f \in firing
  /\ firing' = firing \ {f}
  /\ events' = Append(events, Event(f, "write"))
  /\ UNCHANGED <<avid, restarts, boot, raw, timers, drain, row, hasher, news>>

(***************************************************************************)
(* The drainer.                                                            *)
(***************************************************************************)
Draining == boot # "reconcile" /\ drain = None /\ events # <<>>

DrainRemove ==
  /\ Draining
  /\ Head(events).op = "remove"
  /\ events' = Tail(events)
  /\ row' = [row EXCEPT ![Head(events).f] = None]
  /\ missed' = missed \ {Head(events).f}
  /\ UNCHANGED <<avid, restarts, boot, watch, drain, hasher, faults>>

\* The error is logged, the event is not taken up again.
DrainRemoveFails ==
  /\ Draining
  /\ Head(events).op = "remove"
  /\ events' = Tail(events)
  /\ Fault
  /\ missed' = missed \cup {Head(events).f}
  /\ UNCHANGED <<avid, restarts, boot, watch, drain, row, hasher>>

\* os.Stat; an event for a file that is gone is dropped.
DrainStat ==
  /\ Draining
  /\ Head(events).op # "remove"
  /\ events' = Tail(events)
  /\ LET f == Head(events).f
     IN drain' = IF OnDisk(f) THEN [f |-> f, t |-> disk[f].t] ELSE None
  /\ UNCHANGED <<avid, restarts, boot, watch, row, hasher, news>>

\* The row after UpsertObserved(mtime): the hash survives an equal mtime only.
Observed(r, t) ==
  [hash |-> IF r # None /\ r.t = t THEN r.hash ELSE 0, t |-> t, u |-> now]

DrainUpsert ==
  /\ drain # None
  /\ row' = [row EXCEPT ![drain.f] = Observed(@, drain.t)]
  /\ drain' = None
  /\ missed' = missed \ {drain.f}
  /\ UNCHANGED <<avid, restarts, boot, watch, events, hasher, faults>>

\* The error is discarded, and the event with it.
DrainUpsertFails ==
  /\ drain # None
  /\ drain' = None
  /\ Fault
  /\ missed' = missed \cup {drain.f}
  /\ UNCHANGED <<avid, restarts, boot, watch, events, row, hasher>>

(***************************************************************************)
(* The hasher.                                                             *)
(***************************************************************************)
Pending == {f \in Files : row[f] # None /\ row[f].hash = 0}

\* ORDER BY updated_at ASC LIMIT 100: the oldest ones, in any order among equals.
NeedsHash ==
  {S \in SUBSET Pending :
     /\ Cardinality(S) = Min({Batch, Cardinality(Pending)})
     /\ \A f \in S, g \in Pending \ S : row[f].u <= row[g].u}

HashTick ==
  /\ boot # "reconcile"
  /\ todo = {} /\ hashing = None
  /\ Pending # {}
  /\ todo' \in NeedsHash
  /\ UNCHANGED <<avid, restarts, boot, watch, events, drain, row, hashing, news>>

\* hashFile: Open and Stat, or an error that skips the file.
HashOpen(f) ==
  /\ hashing = None
  /\ f \in todo
  /\ todo' = todo \ {f}
  /\ hashing' = IF OnDisk(f) /\ f \notin Unreadable
                  THEN [f |-> f, v |-> disk[f].v, t |-> disk[f].t] ELSE None
  /\ UNCHANGED <<avid, restarts, boot, watch, events, drain, row, news>>

\* The content is read to its end: the version that was opened, or the one
\* that was written over it since.
ReadVersions == {hashing.v, disk[hashing.f].v} \ {0}

\* Mutant: the mtime is taken after the content.
HashStoreLateMtime ==
  /\ hashing # None
  /\ \E v \in ReadVersions :
       row' = [row EXCEPT ![hashing.f] =
                 IF @ = None THEN None
                 ELSE [hash |-> v, t |-> disk[hashing.f].t, u |-> now]]
  /\ hashing' = None
  /\ UNCHANGED <<avid, restarts, boot, watch, events, drain, todo, news>>

\* SetHash(hash, mtime at Stat): an UPDATE, nothing happens without a row.
HashStore ==
  /\ hashing # None
  /\ \E v \in ReadVersions :
       row' = [row EXCEPT ![hashing.f] =
                 IF @ = None THEN None
                 ELSE [hash |-> v, t |-> hashing.t, u |-> now]]
  /\ hashing' = None
  /\ UNCHANGED <<avid, restarts, boot, watch, events, drain, todo, news>>

\* The error of SetHash is logged; the row still needs a hash at the next tick.
HashStoreFails ==
  /\ hashing # None
  /\ hashing' = None
  /\ Fault
  /\ UNCHANGED <<avid, restarts, boot, watch, events, drain, row, todo, missed>>

\* The root workers are stopped, or the process ends, and they start again.
Restart ==
  /\ restarts < MaxRestarts
  /\ restarts' = restarts + 1
  /\ boot' = "reconcile"
  /\ raw' = <<>> /\ timers' = {} /\ firing' = {} /\ events' = <<>>
  /\ drain' = None
  /\ todo' = {} /\ hashing' = None
  /\ UNCHANGED <<avid, row, news>>

WatcherStep == Watch \/ EmitExisting \/ ReadRaw
DrainerStep == DrainRemove \/ DrainStat \/ DrainUpsert
HasherStep  == HashTick \/ HashStore \/ \E f \in Files : HashOpen(f)

Next ==
  \/ Tick
  \/ \E f \in Files : Write(f) \/ Remove(f) \/ TimerFires(f) \/ SendFired(f)
  \/ Reconcile
  \/ WatcherStep
  \/ DrainerStep
  \/ HasherStep
  \/ DrainRemoveFails \/ DrainUpsertFails \/ HashStoreFails
  \/ Restart

Spec == Init /\ [][Next]_vars

\* Every goroutine of the root workers runs, timers fire, the hasher ticks.
Fairness ==
  /\ WF_vars(Reconcile)
  /\ WF_vars(WatcherStep)
  /\ WF_vars(DrainerStep)
  /\ WF_vars(HasherStep)
  /\ \A f \in Files : WF_vars(TimerFires(f)) /\ WF_vars(SendFired(f))

FairSpec == Spec /\ Fairness

(***************************************************************************)
(* Properties.                                                             *)
(***************************************************************************)
TypeOK ==
  /\ disk \in [Files -> [v : 0..MaxWrites, t : 0..MaxTime]]
  /\ now \in 1..MaxTime /\ writes \in 0..MaxWrites /\ restarts \in 0..MaxRestarts
  /\ missed \subseteq Files /\ faults \in 0..MaxFaults
  /\ boot \in {"reconcile", "watch", "emit", "run"}
  /\ raw \in Seq([f : Files, op : {"write", "remove"}])
  /\ events \in Seq([f : Files, op : {"write", "remove"}])
  /\ timers \subseteq Files /\ firing \subseteq Files /\ todo \subseteq Files
  /\ drain \in [f : Files, t : 0..MaxTime] \cup {None}
  /\ row \in [Files -> Rows \cup {None}]
  /\ hashing \in [f : Files, v : 0..MaxWrites, t : 0..MaxTime] \cup {None}

\* Nothing is under way between the folder and the manifest.
Settled ==
  /\ boot = "run" /\ raw = <<>> /\ timers = {} /\ firing = {}
  /\ events = <<>> /\ drain = None /\ hashing = None

\* Once every event has been handled the manifest lists the files that are in
\* the folder, no more and no fewer, whatever the writes, removals and restarts
\* (main.go: "paths fantasmas no manifest viram delete"): but for the files whose last
\* statement failed or whose removal nobody heard, and those only until the next event
\* or the next start of the workers that succeeds.
RowsMatchDisk == Settled =>
  \A f \in Files \ missed : row[f] # None <=> OnDisk(f)

\* A hash stored next to the mtime the file has now is the hash of the file:
\* hashFile takes the mtime before the content, and UpsertObserved keeps a hash
\* only under the same mtime.
MtimeVouchesForHash == \A f \in Files :
  row[f] # None /\ OnDisk(f) /\ row[f].t = disk[f].t =>
    row[f].hash \in {0, disk[f].v}

\* Rows without a hash that the hasher can do nothing for: it skips them, and they
\* keep their place in the order of NeedsHash.
Stuck == {f \in Pending : f \in Unreadable \/ ~ OnDisk(f)}

\* A file of the folder that can be read and that the manifest has heard of.
Hashable(f) == OnDisk(f) /\ f \notin Unreadable \cup missed

\* When Avid and the restarts are over, every file of the folder that can be read
\* ends up listed with a hash, ready for a commit, and stays so, unless its
\* UpsertObserved failed and nothing came after it; a SetHash that fails is made up for.
\* NeedsHash lists the oldest rows only (hasher.go, BatchSize), so those that keep
\* failing must be fewer than it lists.
EveryFileGetsHashed ==
  <>[](Cardinality(Stuck) < Batch =>
         \A f \in Files : Hashable(f) => row[f] # None /\ row[f].hash # 0)

(***************************************************************************)
(* What the code does not ensure: TLC finds a counterexample to each (the  *)
(* README names the run, or the run to change).                            *)
(***************************************************************************)

\* main.go, startRootWorkers: "paths fantasmas no manifest viram delete", and every
\* file that was announced is listed, though a statement failed or a removal came
\* before the watch.
EveryNewsArrives == Settled => \A f \in Files : row[f] # None <=> OnDisk(f)

\* ... whatever rows of files that are gone, or cannot be read, are there: with as many
\* of them as NeedsHash lists nothing else is hashed.
StuckRowsStarveNobody ==
  <>[](\A f \in Files : Hashable(f) => row[f] # None /\ row[f].hash # 0)

\* manifest.go: UpsertObserved "Preserva o hash existente quando o mtime é o
\* mesmo (arquivo não mudou": once every event has been handled, an equal mtime
\* means that the file was not written since.
EveryRewriteNoticed == Settled => MtimeVouchesForHash

\* manifest.go: UpsertObserved "invalida o hash quando o mtime difere (arquivo
\* foi reescrito": once every event has been handled no row has the hash of a
\* version that was written over.
HashFollowsContent == Settled =>
  \A f \in Files : row[f] # None => row[f].hash \in {0, disk[f].v}
=============================================================================
